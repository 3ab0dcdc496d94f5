------------------------------ MODULE ClaimsCodec -----------------------------
(***************************************************************************)
(* VeriClaims as a CBOR map (crates/veriai-types/src/lib.rs): the encoder  *)
(* writes the ten claims in a fixed order; the decoder takes the entries   *)
(* of any map as they come, one turn of its loop each.                     *)
(***************************************************************************)
EXTENDS Integers, SequencesExt

CONSTANTS
    HashKey,      \* claims of exactly 32 bytes: 6000 to 6003 and 6012
    PlainKey,     \* the others: 6004 to 6007 and 6011
    ClaimOrder,   \* the order in which the encoder writes them
    Content,      \* what a value says
    None,         \* a claim that has not been seen
    MaxEntries    \* bound on the length of a map

Required == HashKey \cup PlainKey

(* A key may be a claim's, one of 6008 to 6010, another number or not even *)
(* an i64.  A value may be of another type or of another length.           *)
OtherKey == {"reserved", "unknown", "not i64"}
Key == Required \cup OtherKey
Value == [typed : BOOLEAN, is32 : BOOLEAN, content : Content]
Entry == [key : Key, value : Value]

ASSUME KeysAssumption ==
    /\ HashKey \cap PlainKey = {} /\ Required \cap OtherKey = {}
    /\ ClaimOrder \in Seq(Required)
    /\ ToSet(ClaimOrder) = Required /\ IsInjective(ClaimOrder)
    /\ None \notin Content

VARIABLES
    entries,   \* the entries of the map that have been read
    decoder    \* the locals of visit_map, and how it stands

codecVars == <<entries, decoder>>

NewDecoder == [status |-> "reading", fields |-> [k \in Required |-> None]]

CodecInit ==
    /\ entries = <<>>
    /\ decoder = NewDecoder

Failed(d) == [d EXCEPT !.status = "error"]

(* Mutant: a hash of another length is cut or filled up.                   *)
DecodeEntryAnyLength(d, e) ==
    CASE e.key = "unknown" -> d
      [] e.key \in Required /\ e.value.typed ->
             [d EXCEPT !.fields[e.key] = e.value.content]
      [] OTHER -> Failed(d)

(* One turn of the loop.  A claim that occurs again replaces the earlier.  *)
DecodeEntry(d, e) ==
    CASE e.key = "unknown" -> d
      [] e.key \in HashKey /\ e.value.typed /\ e.value.is32 ->
             [d EXCEPT !.fields[e.key] = e.value.content]
      [] e.key \in PlainKey /\ e.value.typed ->
             [d EXCEPT !.fields[e.key] = e.value.content]
      [] OTHER -> Failed(d)

(* After the loop: missing_field, or the claims.                           *)
Finish(d) ==
    [d EXCEPT !.status =
        IF \E k \in Required : d.fields[k] = None THEN "error" ELSE "claims"]

ReadEntry(e) ==
    /\ decoder.status = "reading" /\ Len(entries) < MaxEntries
    /\ entries' = Append(entries, e)
    /\ decoder' = DecodeEntry(decoder, e)

EndOfMap ==
    /\ decoder.status = "reading"
    /\ decoder' = Finish(decoder)
    /\ UNCHANGED entries

CodecNext ==
    \/ \E e \in Entry : ReadEntry(e)
    \/ EndOfMap

CodecSpec == CodecInit /\ [][CodecNext]_codecVars

(* Mutant: two neighbours are written under each other's key.              *)
EncodeSwapped(claims) ==
    [n \in DOMAIN ClaimOrder |->
        [key |-> ClaimOrder[IF n = 1 THEN 2 ELSE IF n = 2 THEN 1 ELSE n],
         value |-> [typed |-> TRUE, is32 |-> ClaimOrder[n] \in HashKey,
                    content |-> claims[ClaimOrder[n]]]]]

(* Serialize for VeriClaims.                                               *)
Encode(claims) ==
    [n \in DOMAIN ClaimOrder |->
        [key |-> ClaimOrder[n],
         value |-> [typed |-> TRUE, is32 |-> ClaimOrder[n] \in HashKey,
                    content |-> claims[ClaimOrder[n]]]]]

(* from_binary on a map that is known in advance: after n turns, and at    *)
(* the end.                                                                *)
Decode(map) ==
    LET after[n \in 0..Len(map)] ==
            IF n = 0 THEN NewDecoder
            ELSE IF after[n - 1].status # "reading" THEN after[n - 1]
            ELSE DecodeEntry(after[n - 1], map[n])
        end == after[Len(map)]
    IN  IF end.status = "reading" THEN Finish(end) ELSE end

-----------------------------------------------------------------------------
(* Properties.                                                             *)

(* A map is made of claims when all its entries are allowed, and every     *)
(* claim is among them.                                                    *)
Allowed(e) ==
    /\ e.key \notin {"reserved", "not i64"}
    /\ e.key \in Required => e.value.typed
    /\ e.key \in HashKey => e.value.is32

LastOf(k) ==
    LET at == {n \in DOMAIN entries : entries[n].key = k}
    IN  IF at = {} THEN None ELSE entries[Max(at)].value.content

(* The decoder accepts exactly these maps, in any order and with any       *)
(* number of repetitions, and takes each claim from its last entry: the    *)
(* early returns of the loop hide no later entry and let no reserved or    *)
(* misshapen one through.                                                  *)
DecodesExactly ==
    decoder.status # "reading" =>
        /\ decoder.status = "claims" <=>
               /\ \A n \in DOMAIN entries : Allowed(entries[n])
               /\ \A k \in Required : LastOf(k) # None
        /\ decoder.status = "claims" =>
               decoder.fields = [k \in Required |-> LastOf(k)]

(* Whatever has been decoded, from a map in any shape, is encoded to a map *)
(* that decodes to the same claims.                                        *)
RoundTrip ==
    decoder.status = "claims" => Decode(Encode(decoder.fields)) = decoder

=============================================================================
