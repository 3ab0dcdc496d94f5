---------------------------- MODULE EncodingProofs ----------------------------
(***************************************************************************)
(* The claims codec, for any claims and maps of any length, and the model  *)
(* hash, for files of any size cut into reads of any length.               *)
(***************************************************************************)
EXTENDS ClaimsCodec, MerkleHash, SequenceTheorems, TLAPS

TreeRec == INSTANCE NatRecursion WITH Base <- Foot, Step <- Above
LevelRec == INSTANCE NatRecursion WITH Base <- ChunkHashes, Step <- NextLevel

-----------------------------------------------------------------------------
(* The decoder.                                                            *)

(* Where a claim occurs in the map.                                        *)
At(k) == {n \in DOMAIN entries : entries[n].key = k}

LEMMA MaxOf ==
    ASSUME NEW N \in Nat, NEW T, T \subseteq 0..N, T # {}
    PROVE  Max(T) \in T /\ \A y \in T : y <= Max(T)
<1>1. \E x \in T : \A y \in T : y <= x
  BY TreeRec!GreatestElement
<1> QED
  BY <1>1 DEF Max

(* One entry more: the claim it names has its value, and others keep what  *)
(* they had.                                                               *)
LEMMA LastOfAppend ==
    ASSUME entries \in Seq(Entry), NEW e \in Entry,
           entries' = Append(entries, e), NEW k \in Required
    PROVE  LastOf(k)' = IF e.key = k THEN e.value.content ELSE LastOf(k)
<1> DEFINE N == Len(entries)
<1>0. /\ N \in Nat /\ DOMAIN entries = 1..N /\ DOMAIN entries' = 1..(N + 1)
      /\ \A n \in 1..N : entries'[n] = entries[n]
      /\ entries'[N + 1] = e
  OBVIOUS
<1> HIDE DEF N
<1>1. CASE e.key = k
  <2>1. At(k)' \subseteq 1..(N + 1) /\ N + 1 \in At(k)'
    BY <1>0, <1>1 DEF At
  <2>2. \A x \in At(k)' : (\A y \in At(k)' : x >= y) => x = N + 1
    BY <1>0, <2>1
  <2>3. \A y \in At(k)' : N + 1 >= y
    BY <1>0, <2>1
  <2>4. Max(At(k)') = N + 1
    BY <2>1, <2>2, <2>3, Zenon DEF Max
  <2>5. LastOf(k)' = IF At(k)' = {} THEN None
                     ELSE entries'[Max(At(k)')].value.content
    BY DEF LastOf, At
  <2> QED
    BY <1>0, <1>1, <2>1, <2>4, <2>5
<1>2. CASE e.key # k
  <2>1. At(k)' = At(k)
    BY <1>0, <1>2 DEF At
  <2>2. At(k) # {} => Max(At(k)) \in At(k)
    <3>1. At(k) \subseteq 0..N
      BY <1>0 DEF At
    <3> QED
      BY <1>0, <3>1, MaxOf
  <2>3. /\ LastOf(k)' = IF At(k)' = {} THEN None
                        ELSE entries'[Max(At(k)')].value.content
        /\ LastOf(k) = IF At(k) = {} THEN None
                       ELSE entries[Max(At(k))].value.content
    BY DEF LastOf, At
  <2>4. At(k) # {} => entries'[Max(At(k))] = entries[Max(At(k))]
    BY <1>0, <2>2 DEF At
  <2> QED
    BY <1>2, <2>1, <2>3, <2>4
<1> QED
  BY <1>1, <1>2

AllAllowed == \A n \in DOMAIN entries : Allowed(entries[n])

(* While it reads, the decoder has seen allowed entries only, and its      *)
(* fields are the last values of the claims.                               *)
CodecInv ==
    /\ entries \in Seq(Entry)
    /\ decoder \in [status : {"reading", "error", "claims"},
                    fields : [Required -> Content \cup {None}]]
    /\ decoder.status \in {"reading", "claims"} =>
           AllAllowed /\ decoder.fields = [k \in Required |-> LastOf(k)]
    /\ decoder.status = "claims" => \A k \in Required : decoder.fields[k] # None
    /\ decoder.status = "error" =>
           ~AllAllowed \/ \E k \in Required : LastOf(k) = None

LEMMA CodecInitial == CodecInit => CodecInv
<1> SUFFICES ASSUME CodecInit PROVE CodecInv
  OBVIOUS
<1>1. entries \in Seq(Entry) /\ DOMAIN entries = {}
  BY DEF CodecInit
<1>2. \A k \in Required : LastOf(k) = None
  BY <1>1 DEF LastOf
<1> QED
  BY <1>1, <1>2 DEF CodecInit, NewDecoder, CodecInv, AllAllowed

(* One turn of the loop fails exactly when the entry is not allowed.       *)
LEMMA DecodeEntryCases ==
    ASSUME NEW e \in Entry, NEW d, d.status = "reading",
           d \in [status : {"reading", "error", "claims"},
                  fields : [Required -> Content \cup {None}]]
    PROVE  \/ /\ ~Allowed(e)
              /\ DecodeEntry(d, e) = [d EXCEPT !.status = "error"]
           \/ /\ Allowed(e) /\ e.key \notin Required
              /\ DecodeEntry(d, e) = d
           \/ /\ Allowed(e) /\ e.key \in Required
              /\ DecodeEntry(d, e) =
                     [d EXCEPT !.fields[e.key] = e.value.content]
<1>1. e.key \in Key /\ HashKey \cap PlainKey = {} /\ Required \cap OtherKey = {}
  BY KeysAssumption DEF Entry
<1>2. CASE e.key \in OtherKey
  BY <1>1, <1>2 DEF DecodeEntry, Allowed, Failed, OtherKey, Required
<1>3. CASE e.key \in HashKey
  BY <1>1, <1>3 DEF DecodeEntry, Allowed, Failed, OtherKey, Required
<1>4. CASE e.key \in PlainKey
  BY <1>1, <1>4 DEF DecodeEntry, Allowed, Failed, OtherKey, Required
<1> QED
  BY <1>1, <1>2, <1>3, <1>4 DEF Key, Required

LEMMA CodecNextStep == CodecInv /\ [CodecNext]_codecVars => CodecInv'
<1> SUFFICES ASSUME CodecInv, [CodecNext]_codecVars PROVE CodecInv'
  OBVIOUS
<1>1. CASE UNCHANGED codecVars
  <2>1. entries' = entries /\ decoder' = decoder
    BY <1>1 DEF codecVars
  <2>2. /\ AllAllowed' <=> AllAllowed
        /\ \A k \in Required : LastOf(k)' = LastOf(k)
    BY <2>1 DEF AllAllowed, LastOf
  <2> QED
    BY <2>1, <2>2 DEF CodecInv
<1>2. ASSUME NEW e \in Entry, ReadEntry(e) PROVE CodecInv'
  <2>0. /\ entries \in Seq(Entry) /\ decoder.status = "reading"
        /\ entries' = Append(entries, e) /\ decoder' = DecodeEntry(decoder, e)
        /\ decoder \in [status : {"reading", "error", "claims"},
                        fields : [Required -> Content \cup {None}]]
        /\ AllAllowed /\ decoder.fields = [k \in Required |-> LastOf(k)]
    BY <1>2 DEF ReadEntry, CodecInv
  <2>1. AllAllowed' <=> Allowed(e)
    BY <2>0 DEF AllAllowed
  <2>2. \A k \in Required :
            LastOf(k)' = IF e.key = k THEN e.value.content ELSE LastOf(k)
    BY <2>0, LastOfAppend
  <2>3. entries' \in Seq(Entry) /\ e.value.content \in Content
    BY <2>0 DEF Entry, Value
  <2>4. CASE /\ ~Allowed(e)
             /\ DecodeEntry(decoder, e) = [decoder EXCEPT !.status = "error"]
    BY <2>0, <2>1, <2>3, <2>4 DEF CodecInv
  <2>5. CASE /\ Allowed(e) /\ e.key \notin Required
             /\ DecodeEntry(decoder, e) = decoder
    BY <2>0, <2>1, <2>2, <2>3, <2>5 DEF CodecInv
  <2>6. CASE /\ Allowed(e) /\ e.key \in Required
             /\ DecodeEntry(decoder, e) =
                    [decoder EXCEPT !.fields[e.key] = e.value.content]
    <3>1. /\ decoder'.status = "reading"
          /\ decoder'.fields =
                 [decoder.fields EXCEPT ![e.key] = e.value.content]
          /\ decoder' \in [status : {"reading", "error", "claims"},
                           fields : [Required -> Content \cup {None}]]
      BY <2>0, <2>3, <2>6
    <3>2. decoder'.fields = [k \in Required |-> LastOf(k)']
      BY <2>0, <2>2, <2>6, <3>1
    <3> QED
      BY <2>1, <2>3, <2>6, <3>1, <3>2 DEF CodecInv
  <2> QED
    BY <2>0, <2>4, <2>5, <2>6, DecodeEntryCases
<1>3. CASE EndOfMap
  <2>1. /\ decoder.status = "reading" /\ entries' = entries
        /\ decoder' = Finish(decoder)
        /\ AllAllowed /\ decoder.fields = [k \in Required |-> LastOf(k)]
    BY <1>3 DEF EndOfMap, CodecInv
  <2>2. AllAllowed' /\ \A k \in Required : LastOf(k)' = LastOf(k)
    BY <2>1 DEF AllAllowed, LastOf
  <2> QED
    BY <2>1, <2>2 DEF CodecInv, Finish
<1> QED
  BY <1>1, <1>2, <1>3 DEF CodecNext

LEMMA CodecInvariant == CodecSpec => []CodecInv
  BY CodecInitial, CodecNextStep, PTL DEF CodecSpec

(* The decoder accepts exactly the maps whose entries are all allowed and  *)
(* that have every claim, however long they are and however often a claim  *)
(* is repeated, and takes each claim from its last entry.                  *)
THEOREM DecoderExact == CodecSpec => []DecodesExactly
<1>1. CodecInv => DecodesExactly
  BY DEF CodecInv, DecodesExactly, AllAllowed
<1> QED
  BY <1>1, CodecInvariant, PTL

-----------------------------------------------------------------------------
(* Encoding and decoding.                                                  *)

(* The decoder after n entries of what the encoder writes.                 *)
HalfDecoded(claims, n) ==
    [status |-> "reading",
     fields |-> [k \in Required |->
                    IF \E m \in 1..n : ClaimOrder[m] = k THEN claims[k]
                                                         ELSE None]]

(* One turn on an entry the encoder wrote.                                 *)
LEMMA EncodedTurn ==
    ASSUME NEW claims \in [Required -> Content], NEW n \in 1..Len(ClaimOrder)
    PROVE  DecodeEntry(HalfDecoded(claims, n - 1), Encode(claims)[n]) =
               HalfDecoded(claims, n)
<1> DEFINE k0 == ClaimOrder[n]
           e == Encode(claims)[n]
           d == HalfDecoded(claims, n - 1)
<1>1. k0 \in Required /\ DOMAIN ClaimOrder = 1..Len(ClaimOrder)
      /\ Len(ClaimOrder) \in Nat
  BY KeysAssumption
<1>2. e = [key |-> k0, value |-> [typed |-> TRUE, is32 |-> k0 \in HashKey,
                                   content |-> claims[k0]]]
  BY <1>1 DEF Encode
<1>3. e \in Entry /\ e.key = k0 /\ e.value.content = claims[k0]
  BY <1>1, <1>2 DEF Entry, Value, Key
<1>4. Allowed(e)
  <2> HIDE DEF e, k0
  <2>1. e.value.typed = TRUE /\ e.value.is32 = (k0 \in HashKey)
    BY <1>2
  <2> QED
    BY <1>1, <1>3, <2>1, KeysAssumption DEF Allowed, OtherKey
<1>5. /\ d.status = "reading"
      /\ d \in [status : {"reading", "error", "claims"},
                fields : [Required -> Content \cup {None}]]
  BY DEF HalfDecoded
<1> HIDE DEF e
<1>6. DecodeEntry(d, e) = [d EXCEPT !.fields[k0] = claims[k0]]
  BY <1>1, <1>3, <1>4, <1>5, DecodeEntryCases
<1>7. \A k \in Required : (\E m \in 1..n : ClaimOrder[m] = k) <=>
          k = k0 \/ \E m \in 1..(n - 1) : ClaimOrder[m] = k
  BY <1>1
<1>8. [d EXCEPT !.fields[k0] = claims[k0]] = HalfDecoded(claims, n)
  <2>1. d = [status |-> "reading", fields |-> d.fields]
    BY DEF HalfDecoded
  <2>2. d.fields = [k \in Required |->
                       IF \E m \in 1..(n - 1) : ClaimOrder[m] = k
                       THEN claims[k] ELSE None]
    BY DEF HalfDecoded
  <2> HIDE DEF d, k0
  <2>3. [d.fields EXCEPT ![k0] = claims[k0]] =
            [k \in Required |->
                IF \E m \in 1..n : ClaimOrder[m] = k THEN claims[k] ELSE None]
    BY <1>1, <1>7, <2>2
  <2>4. [d EXCEPT !.fields[k0] = claims[k0]] =
            [status |-> "reading",
             fields |-> [d.fields EXCEPT ![k0] = claims[k0]]]
    BY <2>1
  <2> QED
    BY <2>3, <2>4 DEF HalfDecoded
<1> QED
  BY <1>6, <1>8 DEF e

(* What the encoder writes of any claims decodes to these claims.          *)
THEOREM EncodeDecode ==
    ASSUME NEW claims \in [Required -> Content]
    PROVE  Decode(Encode(claims)) = [status |-> "claims", fields |-> claims]
<1> DEFINE map == Encode(claims)
           N == Len(ClaimOrder)
           Eqn(g) ==
               g = [n \in 0..Len(map) |->
                       IF n = 0 THEN NewDecoder
                       ELSE IF g[n - 1].status # "reading" THEN g[n - 1]
                       ELSE DecodeEntry(g[n - 1], map[n])]
           half == [n \in 0..Len(map) |-> HalfDecoded(claims, n)]
           after == CHOOSE g : Eqn(g)
<1>1. N \in Nat /\ Len(map) = N /\ DOMAIN ClaimOrder = 1..N
  BY KeysAssumption DEF Encode
<1> HIDE DEF map, N
<1>2. NewDecoder = HalfDecoded(claims, 0)
  BY DEF NewDecoder, HalfDecoded
<1>3. \A n \in 0..N : HalfDecoded(claims, n).status = "reading"
  BY DEF HalfDecoded
<1>4. \A n \in 1..N : DecodeEntry(HalfDecoded(claims, n - 1), map[n]) =
                          HalfDecoded(claims, n)
  BY EncodedTurn DEF map, N
<1>5. Eqn(half)
  <2>1. ASSUME NEW n \in 0..N, n # 0
        PROVE  /\ n \in 1..N /\ n - 1 \in 0..N
               /\ half[n - 1] = HalfDecoded(claims, n - 1)
    BY <1>1, <2>1
  <2>2. ASSUME NEW n \in 0..N
        PROVE  HalfDecoded(claims, n) =
                   IF n = 0 THEN NewDecoder
                   ELSE IF half[n - 1].status # "reading" THEN half[n - 1]
                   ELSE DecodeEntry(half[n - 1], map[n])
    BY <1>2, <1>3, <1>4, <2>1
  <2> QED
    BY <1>1, <2>2
<1> HIDE DEF half
<1>6. Eqn(after)
  <2> HIDE DEF Eqn
  <2> QED
    BY <1>5
<1> HIDE DEF after
<1>7. \A n \in 0..N : after[n] = HalfDecoded(claims, n)
  <2> DEFINE S == {n \in Nat : n <= N => after[n] = HalfDecoded(claims, n)}
  <2>1. 0 \in S
    BY <1>1, <1>2, <1>6
  <2>2. ASSUME NEW n \in S PROVE n + 1 \in S
    <3> SUFFICES ASSUME n + 1 <= N
                 PROVE  after[n + 1] = HalfDecoded(claims, n + 1)
      OBVIOUS
    <3>1. /\ n + 1 \in 1..N /\ n + 1 \in 0..N /\ n \in 0..N
          /\ (n + 1) - 1 = n /\ n + 1 # 0 /\ after[n] = HalfDecoded(claims, n)
      BY <1>1
    <3>2. after[n + 1] = DecodeEntry(after[n], map[n + 1])
      BY <1>1, <1>3, <1>6, <3>1
    <3> QED
      BY <1>4, <3>1, <3>2
  <2> HIDE DEF S
  <2>3. S \in SUBSET Nat
    BY DEF S
  <2>4. S = Nat
    BY <2>1, <2>2, <2>3, TreeRec!NatSetInduction
  <2> QED
    BY <1>1, <2>4 DEF S
<1>8. after[N].status = "reading" /\ after[N].fields = claims
  <2>1. \A k \in Required : \E m \in 1..N : ClaimOrder[m] = k
    BY <1>1, KeysAssumption DEF ToSet
  <2>2. N \in 0..N
    BY <1>1
  <2>3. after[N] = HalfDecoded(claims, N)
    BY <1>7, <2>2
  <2>4. HalfDecoded(claims, N).fields = claims
    BY <2>1 DEF HalfDecoded
  <2> QED
    BY <1>3, <2>2, <2>3, <2>4
<1>9. Decode(map) = IF after[N].status = "reading" THEN Finish(after[N])
                                                   ELSE after[N]
  BY <1>1 DEF Decode, after
<1>10. Finish(after[N]) = [status |-> "claims", fields |-> claims]
  <2>1. \A k \in Required : claims[k] # None
    BY KeysAssumption
  <2>2. after[N] = [status |-> "reading", fields |-> claims]
    <3>1. N \in 0..N /\ after[N] = HalfDecoded(claims, N)
      BY <1>1, <1>7
    <3>2. HalfDecoded(claims, N) =
              [status |-> "reading", fields |-> HalfDecoded(claims, N).fields]
      BY DEF HalfDecoded
    <3> QED
      BY <1>8, <3>1, <3>2
  <2> QED
    BY <2>1, <2>2 DEF Finish
<1> QED
  BY <1>8, <1>9, <1>10 DEF map

(* Whatever has been decoded, from a map in any shape, is encoded to a map *)
(* that decodes to the same claims.                                        *)
THEOREM ClaimsRoundTrip == CodecSpec => []RoundTrip
<1>1. CodecInv => RoundTrip
  <2> SUFFICES ASSUME CodecInv, decoder.status = "claims"
               PROVE  Decode(Encode(decoder.fields)) = decoder
    BY DEF RoundTrip
  <2>1. decoder.fields \in [Required -> Content]
    BY DEF CodecInv
  <2>2. decoder = [status |-> "claims", fields |-> decoder.fields]
    BY DEF CodecInv
  <2> QED
    BY <2>1, <2>2, EncodeDecode
<1> QED
  BY <1>1, CodecInvariant, PTL

-----------------------------------------------------------------------------
(* Sequences, as functions on 1..n, and division.                          *)

LEMMA FunctionIsSeq ==
    ASSUME NEW n \in Nat, NEW x, x = [i \in 1..n |-> x[i]]
    PROVE  /\ Len(x) = n /\ DOMAIN x = 1..n
           /\ x \in Seq({x[i] : i \in 1..n})
<1> DEFINE S == {x[i] : i \in 1..n}
<1>1. x \in [1..n -> S]
  OBVIOUS
<1> HIDE DEF S
<1>2. x \in Seq(S)
  BY <1>1
<1>3. Len(x) \in Nat /\ DOMAIN x = 1..Len(x) /\ DOMAIN x = 1..n
  BY <1>1, <1>2, LenProperties
<1>4. Len(x) = n
  BY <1>3
<1> QED
  BY <1>2, <1>3, <1>4 DEF S

(* Two sequences with the same elements are the same.                      *)
LEMMA SameSeq ==
    ASSUME NEW n \in Nat, NEW x, NEW y, x = [i \in 1..n |-> x[i]],
           y = [i \in 1..n |-> y[i]], \A i \in 1..n : x[i] = y[i]
    PROVE  x = y
  OBVIOUS

LEMMA SubSeqFunction ==
    ASSUME NEW s, NEW a \in Nat, NEW b \in Nat, a <= b + 1
    PROVE  SubSeq(s, a, b) = [i \in 1..(b - a + 1) |-> s[a + i - 1]]
<1> DEFINE S == {s[i] : i \in a..b}
           x == SubSeq(s, a, b)
           n == b - a + 1
<1>1. x \in Seq(S) /\ Len(x) = n /\ \A i \in 1..n : x[i] = s[a + i - 1]
  BY SubSeqProperties
<1>2. x \in [1..Len(x) -> S]
  BY <1>1, LenProperties
<1> QED
  BY <1>1, <1>2

LEMMA CeilDivBounds ==
    ASSUME NEW a \in Nat, NEW b \in Nat \ {0}, NEW q \in Nat, NEW r \in 1..b,
           a = q * b + r
    PROVE  CeilDiv(a, b) = q + 1
<1>1. a + b - 1 = (q + 1) * b + (r - 1) /\ r - 1 \in 0..(b - 1)
  OBVIOUS
<1>2. (a + b - 1) \div b = q + 1
  BY <1>1
<1> QED
  BY <1>2 DEF CeilDiv

(* A number is on the right of so many whole chunks.                       *)
LEMMA CeilDivExists ==
    ASSUME NEW a \in Nat \ {0}, NEW b \in Nat \ {0}
    PROVE  \E q \in Nat, r \in 1..b : a = q * b + r /\ CeilDiv(a, b) = q + 1
<1> DEFINE q == (a - 1) \div b
           r == ((a - 1) % b) + 1
<1>1. q \in Nat /\ r \in 1..b /\ a = q * b + r
  OBVIOUS
<1> QED
  BY <1>1, CeilDivBounds

LEMMA CeilDivZero ==
    ASSUME NEW b \in Nat \ {0}
    PROVE  CeilDiv(0, b) = 0
<1>1. (b - 1) \div b = 0
  OBVIOUS
<1> QED
  BY <1>1 DEF CeilDiv

-----------------------------------------------------------------------------
(* Files, chunks and levels.                                               *)

LEMMA MinPair ==
    ASSUME NEW a \in Int, NEW b \in Int
    PROVE  Min({a, b}) = IF a <= b THEN a ELSE b
<1> DEFINE m == IF a <= b THEN a ELSE b
<1>1. m \in {a, b} /\ \A y \in {a, b} : m <= y
  OBVIOUS
<1>2. \A x \in {a, b} : (\A y \in {a, b} : x <= y) => x = m
  OBVIOUS
<1> HIDE DEF m
<1>3. Min({a, b}) = m
  BY <1>1, <1>2, Zenon DEF Min
<1> QED
  BY <1>3 DEF m

LEMMA FileSeq ==
    ASSUME NEW n \in Nat, NEW f \in [1..n -> Byte]
    PROVE  Len(f) = n /\ DOMAIN f = 1..n /\ f = [i \in 1..n |-> f[i]]
<1>1. f = [i \in 1..n |-> f[i]]
  OBVIOUS
<1> QED
  BY <1>1, FunctionIsSeq

LEMMA FileLength ==
    ASSUME NEW f \in File
    PROVE  /\ Len(f) \in 0..MaxBytes /\ Len(f) \in Nat /\ DOMAIN f = 1..Len(f)
           /\ f \in [1..Len(f) -> Byte]
<1>1. PICK n \in 0..MaxBytes : f \in [1..n -> Byte]
  BY DEF File
<1>2. n \in Nat
  BY ChunkAssumption
<1> QED
  BY <1>1, <1>2, FileSeq

(* The chunk of f that follows m of them has r bytes: it is whole, or cut  *)
(* by the end of the file.                                                 *)
ChunkOf(f, m, r) ==
    /\ Len(f) \in Nat /\ m \in Nat /\ r \in 0..CHUNK_SIZE
    /\ m * CHUNK_SIZE <= Len(f)
    /\ \/ r = CHUNK_SIZE /\ m * CHUNK_SIZE + r <= Len(f)
       \/ m * CHUNK_SIZE + r = Len(f)

LEMMA ChunkFunction ==
    ASSUME NEW f, NEW m, NEW r, ChunkOf(f, m, r)
    PROVE  Chunk(f, m + 1) = [i \in 1..r |-> f[m * CHUNK_SIZE + i]]
<1> DEFINE lo == m * CHUNK_SIZE
<1>0. /\ CHUNK_SIZE \in Nat /\ lo \in Nat /\ r \in Nat /\ m \in Nat
      /\ (m + 1) * CHUNK_SIZE = lo + CHUNK_SIZE
      /\ ((m + 1) - 1) * CHUNK_SIZE + 1 = lo + 1
  BY ChunkAssumption DEF ChunkOf
<1>1. Min({(m + 1) * CHUNK_SIZE, Len(f)}) = lo + r
  BY <1>0, MinPair DEF ChunkOf
<1> HIDE DEF lo
<1>2. Chunk(f, m + 1) = SubSeq(f, lo + 1, lo + r)
  BY <1>0, <1>1 DEF Chunk
<1>3. /\ lo + 1 \in Nat /\ lo + r \in Nat /\ lo + 1 <= (lo + r) + 1
      /\ (lo + r) - (lo + 1) + 1 = r
  BY <1>0
<1>4. SubSeq(f, lo + 1, lo + r) =
          [i \in 1..((lo + r) - (lo + 1) + 1) |-> f[(lo + 1) + i - 1]]
  <2> DEFINE a == lo + 1
             b == lo + r
  <2>1. a \in Nat /\ b \in Nat /\ a <= b + 1
    BY <1>3
  <2> HIDE DEF a, b
  <2>2. SubSeq(f, a, b) = [i \in 1..(b - a + 1) |-> f[a + i - 1]]
    BY <2>1, SubSeqFunction
  <2> QED
    BY <2>2 DEF a, b
<1>5. \A i \in 1..r : (lo + 1) + i - 1 = lo + i
  BY <1>0
<1>6. Chunk(f, m + 1) = [i \in 1..r |-> f[(lo + 1) + i - 1]]
  BY <1>2, <1>3, <1>4
<1>7. Chunk(f, m + 1) = [i \in 1..r |-> f[lo + i]]
  BY <1>5, <1>6
<1> QED
  BY <1>7 DEF lo

LEMMA NextLevelSeq ==
    ASSUME NEW n \in Nat, NEW x, x = [i \in 1..n |-> x[i]]
    PROVE  LET y == NextLevel(x)
               k == (n + 1) \div 2
           IN  /\ k \in Nat /\ Len(y) = k /\ y = [i \in 1..k |-> y[i]]
               /\ \A i \in 1..k :
                      y[i] = Sha(<<x[2 * i - 1],
                                   IF 2 * i <= n THEN x[2 * i]
                                                 ELSE x[2 * i - 1]>>)
<1> DEFINE y == NextLevel(x)
           k == (n + 1) \div 2
<1>1. Len(x) = n
  BY FunctionIsSeq
<1>2. k \in Nat
  OBVIOUS
<1>3. /\ y = [i \in 1..k |-> y[i]]
      /\ \A i \in 1..k : y[i] = Sha(<<x[2 * i - 1],
                                      IF 2 * i <= n THEN x[2 * i]
                                                    ELSE x[2 * i - 1]>>)
  BY <1>1 DEF NextLevel
<1> HIDE DEF y, k
<1>4. Len(y) = k
  BY <1>2, <1>3, FunctionIsSeq
<1> QED
  BY <1>2, <1>3, <1>4 DEF y, k

LEMMA LeafCount ==
    ASSUME NEW f, Len(f) \in Nat
    PROVE  CeilDiv(Len(f), CHUNK_SIZE) \in 0..Len(f)
<1>1. CHUNK_SIZE \in Nat \ {0}
  BY ChunkAssumption
<1>2. CASE Len(f) = 0
  BY <1>1, <1>2, CeilDivZero
<1>3. CASE Len(f) # 0
  <2>0. Len(f) \in Nat \ {0}
    BY <1>3
  <2>1. PICK q \in Nat, r \in 1..CHUNK_SIZE :
            Len(f) = q * CHUNK_SIZE + r /\ CeilDiv(Len(f), CHUNK_SIZE) = q + 1
    BY <1>1, <2>0, CeilDivExists, Zenon
  <2>2. q <= q * CHUNK_SIZE
    BY <1>1
  <2> QED
    BY <1>1, <2>1, <2>2
<1> QED
  BY <1>2, <1>3

(* The recursive definitions mean what they say.                           *)
LEMMA LevelsDefined ==
    ASSUME NEW f
    PROVE  /\ Levels(f)[0] = ChunkHashes(f)
           /\ \A h \in Nat : Levels(f)[h + 1] = NextLevel(Levels(f)[h])
<1>1. Levels(f) = LevelRec!Iterate(f)
  BY DEF Levels, LevelRec!Iterate
<1> QED
  BY <1>1, LevelRec!IterateDefined

LEMMA TreeDefined ==
    ASSUME NEW f
    PROVE  /\ Tree(f)[0] = Foot(f)
           /\ \A h \in Nat : Tree(f)[h + 1] = Above(Tree(f)[h])
<1>1. Tree(f) = TreeRec!Iterate(f)
  BY DEF Tree, TreeRec!Iterate
<1> QED
  BY <1>1, TreeRec!IterateDefined

(* Every level is a sequence.                                              *)
LEMMA LevelSeq ==
    ASSUME NEW f, Len(f) \in Nat, NEW h \in Nat
    PROVE  LET x == Levels(f)[h]
           IN  Len(x) \in Nat /\ x = [i \in 1..Len(x) |-> x[i]]
<1> DEFINE IsSeq(x) == Len(x) \in Nat /\ x = [i \in 1..Len(x) |-> x[i]]
           S == {g \in Nat : IsSeq(Levels(f)[g])}
<1>1. 0 \in S
  <2> DEFINE n == CeilDiv(Len(f), CHUNK_SIZE)
             x == Levels(f)[0]
  <2>1. n \in Nat
    BY LeafCount
  <2>2. x = [i \in 1..n |-> x[i]]
    BY LevelsDefined DEF ChunkHashes
  <2> HIDE DEF n, x
  <2>3. IsSeq(x)
    BY <2>1, <2>2, FunctionIsSeq
  <2> QED
    BY <2>3 DEF x
<1>2. ASSUME NEW g \in S PROVE g + 1 \in S
  <2> DEFINE x == Levels(f)[g]
  <2>1. Levels(f)[g + 1] = NextLevel(x)
    BY LevelsDefined
  <2>2. IsSeq(x)
    OBVIOUS
  <2> HIDE DEF x
  <2>3. IsSeq(NextLevel(x))
    BY <2>2, NextLevelSeq
  <2> QED
    BY <2>1, <2>3
<1> HIDE DEF S
<1>3. S \in SUBSET Nat
  BY DEF S
<1>4. S = Nat
  BY <1>1, <1>2, <1>3, TreeRec!NatSetInduction
<1> QED
  BY <1>4 DEF S

-----------------------------------------------------------------------------
(* The loops of hash_file_merkle.                                          *)

(* m chunks have been hashed, and the buffer begins with what has been     *)
(* read of the next.                                                       *)
ReadUpTo(m) ==
    /\ level = [j \in 1..m |-> Sha(Chunk(content, j))]
    /\ pos = m * CHUNK_SIZE + bytes_read
    /\ \A k \in 1..bytes_read : buffer[k] = content[m * CHUNK_SIZE + k]

(* The leaves have been folded h times, each time with cause.              *)
FoldedTo(h) ==
    /\ h + Len(Levels(content)[h]) <= Len(content)
    /\ \A g \in 0..(h - 1) : Len(Levels(content)[g]) > 1

HashInv ==
    /\ content \in File
    /\ bytes_read \in 0..CHUNK_SIZE /\ pos \in 0..Len(content)
    /\ DOMAIN buffer = 1..CHUNK_SIZE
    /\ stage = "reading" => \E m \in Nat : ReadUpTo(m)
    /\ stage = "folding" => \E h \in Nat : FoldedTo(h)
                                           /\ level = Levels(content)[h]
    /\ stage = "done" =>
           \E h \in Nat : /\ FoldedTo(h) /\ Len(Levels(content)[h]) <= 1
                          /\ level = IF Levels(content)[h] = <<>>
                                     THEN <<Sha(<<>>)>> ELSE Levels(content)[h]

LEMMA HashInitial == HashInit => HashInv
<1> SUFFICES ASSUME HashInit PROVE HashInv
  OBVIOUS
<1>1. content \in File /\ Len(content) \in Nat
  BY FileLength DEF HashInit
<1>2. ReadUpTo(0)
  BY ChunkAssumption DEF HashInit, ReadUpTo
<1> QED
  BY <1>1, <1>2, ChunkAssumption DEF HashInit, HashInv

LEMMA ReadStep ==
    ASSUME HashInv, NEW n \in 1..CHUNK_SIZE, Read(n)
    PROVE  HashInv'
<1>0. /\ CHUNK_SIZE \in Nat /\ Len(content) \in Nat /\ bytes_read \in Nat
      /\ pos \in Nat /\ n \in Nat
  BY ChunkAssumption, FileLength DEF HashInv
<1>1. PICK m \in Nat : ReadUpTo(m)
  BY DEF HashInv, Read
<1>2. m * CHUNK_SIZE \in Nat
  BY <1>0
<1>3. /\ bytes_read' = bytes_read + n /\ pos' = pos + n
      /\ n <= CHUNK_SIZE - bytes_read /\ pos + n <= Len(content)
      /\ UNCHANGED <<content, level, stage>>
  BY DEF Read
<1>4. ASSUME NEW k \in 1..bytes_read'
      PROVE  buffer'[k] = content[m * CHUNK_SIZE + k]
  <2>1. k \in 1..CHUNK_SIZE /\ k \in Nat
    BY <1>0, <1>3
  <2>2. CASE k \in (bytes_read + 1)..(bytes_read + n)
    <3>1. buffer'[k] = content[pos + k - bytes_read]
      BY <2>1, <2>2 DEF Read
    <3>2. pos + k - bytes_read = m * CHUNK_SIZE + k
      BY <1>0, <1>1, <1>2, <2>1 DEF ReadUpTo
    <3> QED
      BY <3>1, <3>2
  <2>3. CASE k \notin (bytes_read + 1)..(bytes_read + n)
    <3>1. buffer'[k] = buffer[k] /\ k \in 1..bytes_read
      BY <1>0, <1>3, <2>1, <2>3 DEF Read
    <3> QED
      BY <1>1, <3>1 DEF ReadUpTo
  <2> QED
    BY <2>2, <2>3
<1>5. ReadUpTo(m)'
  BY <1>0, <1>1, <1>2, <1>3, <1>4 DEF ReadUpTo
<1>6. DOMAIN buffer' = 1..CHUNK_SIZE
  BY DEF Read
<1>7. bytes_read' \in 0..CHUNK_SIZE /\ pos' \in 0..Len(content)
  BY <1>0, <1>3
<1>8. stage' = "reading"
  BY DEF Read
<1> QED
  BY <1>3, <1>5, <1>6, <1>7, <1>8 DEF HashInv

(* The hash of the part of the buffer that was read is that of the chunk.  *)
LEMMA ChunkHashRight ==
    ASSUME HashInv, NEW m \in Nat, ReadUpTo(m),
           bytes_read = CHUNK_SIZE \/ pos = Len(content)
    PROVE  ChunkHash = Sha(Chunk(content, m + 1))
<1> DEFINE r == bytes_read
<1>0. /\ CHUNK_SIZE \in Nat /\ Len(content) \in Nat /\ r \in Nat
      /\ r \in 0..CHUNK_SIZE /\ m * CHUNK_SIZE \in Nat
  BY ChunkAssumption, FileLength DEF HashInv
<1>1. pos = m * CHUNK_SIZE + r /\ pos <= Len(content)
  BY <1>0 DEF ReadUpTo, HashInv
<1>2. Chunk(content, m + 1) = [i \in 1..r |-> content[m * CHUNK_SIZE + i]]
  <2>1. ChunkOf(content, m, r)
    BY <1>0, <1>1 DEF ChunkOf
  <2> QED
    BY <2>1, ChunkFunction
<1>3. SubSeq(buffer, 1, r) = [i \in 1..(r - 1 + 1) |-> buffer[1 + i - 1]]
  BY <1>0, SubSeqFunction
<1>4. SubSeq(buffer, 1, r) = [i \in 1..r |-> buffer[i]]
  <2>1. r - 1 + 1 = r /\ \A i \in 1..r : 1 + i - 1 = i
    BY <1>0
  <2> QED
    BY <1>3, <2>1
<1>5. \A i \in 1..r : buffer[i] = content[m * CHUNK_SIZE + i]
  BY DEF ReadUpTo
<1>6. SubSeq(buffer, 1, r) = Chunk(content, m + 1)
  BY <1>2, <1>4, <1>5
<1> QED
  BY <1>6 DEF ChunkHash

(* A further chunk hash makes the leaves up to it.                         *)
LEMMA PushedLevel ==
    ASSUME NEW m \in Nat, NEW x, x = [j \in 1..m |-> Sha(Chunk(content, j))]
    PROVE  /\ Len(x) = m
           /\ Append(x, Sha(Chunk(content, m + 1))) =
                  [j \in 1..(m + 1) |-> Sha(Chunk(content, j))]
<1> DEFINE S == {Sha(Chunk(content, j)) : j \in Nat}
           e == Sha(Chunk(content, m + 1))
           y == Append(x, e)
           z == [j \in 1..(m + 1) |-> Sha(Chunk(content, j))]
<1>1. x = [j \in 1..m |-> x[j]]
  OBVIOUS
<1>2. Len(x) = m /\ DOMAIN x = 1..m
  BY <1>1, FunctionIsSeq
<1>3. \A j \in Nat : Sha(Chunk(content, j)) \in S
  OBVIOUS
<1>4. m + 1 \in Nat /\ e \in S
  BY <1>3
<1>5. x \in Seq(S)
  <2> HIDE DEF S
  <2>1. x \in [1..m -> S]
    BY <1>3
  <2> QED
    BY <2>1
<1> HIDE DEF S
<1>6. /\ y \in Seq(S) /\ Len(y) = m + 1 /\ y[m + 1] = e
      /\ \A j \in 1..m : y[j] = x[j]
  BY <1>2, <1>4, <1>5, AppendProperties
<1>7. y \in [1..(m + 1) -> S]
  BY <1>6, LenProperties
<1>8. \A j \in 1..(m + 1) : y[j] = Sha(Chunk(content, j))
  BY <1>6
<1>9. y = z
  <2> HIDE DEF y
  <2> QED
    BY <1>7, <1>8
<1> QED
  BY <1>2, <1>9

LEMMA PushStep ==
    ASSUME HashInv, PushChunk
    PROVE  HashInv'
<1>0. CHUNK_SIZE \in Nat
  BY ChunkAssumption
<1>1. PICK m \in Nat : ReadUpTo(m)
  BY DEF HashInv, PushChunk
<1>2. ChunkHash = Sha(Chunk(content, m + 1))
  BY <1>1, ChunkHashRight DEF PushChunk
<1>3. level' = [j \in 1..(m + 1) |-> Sha(Chunk(content, j))]
  BY <1>1, <1>2, PushedLevel DEF PushChunk, ReadUpTo
<1>4. pos' = (m + 1) * CHUNK_SIZE + bytes_read'
  <2>1. (m + 1) * CHUNK_SIZE = m * CHUNK_SIZE + CHUNK_SIZE
    BY <1>0
  <2> QED
    BY <1>0, <1>1, <2>1 DEF PushChunk, ReadUpTo
<1>5. ReadUpTo(m + 1)'
  BY <1>3, <1>4 DEF PushChunk, ReadUpTo
<1>6. m + 1 \in Nat
  OBVIOUS
<1> QED
  BY <1>0, <1>5, <1>6 DEF HashInv, PushChunk

(* At the end of the file the level is that of all its chunks.             *)
LEMMA EndStep ==
    ASSUME HashInv, EndOfFile
    PROVE  HashInv'
<1> DEFINE r == bytes_read
           L == Len(content)
<1>0. /\ CHUNK_SIZE \in Nat \ {0} /\ L \in Nat /\ r \in Nat /\ r < CHUNK_SIZE
      /\ r \in 0..CHUNK_SIZE
  BY ChunkAssumption, FileLength DEF HashInv, EndOfFile
<1>1. PICK m \in Nat : ReadUpTo(m)
  BY DEF HashInv, EndOfFile
<1>2. L = m * CHUNK_SIZE + r
  BY <1>1 DEF ReadUpTo, EndOfFile
<1>3. level' = ChunkHashes(content)
  <2>1. CASE r = 0
    <3>1. CeilDiv(L, CHUNK_SIZE) = m
      <4>1. CASE m = 0
        BY <1>0, <1>2, <2>1, <4>1, CeilDivZero
      <4>2. CASE m # 0
        <5>1. /\ m - 1 \in Nat /\ CHUNK_SIZE \in 1..CHUNK_SIZE
              /\ L = (m - 1) * CHUNK_SIZE + CHUNK_SIZE
          BY <1>0, <1>2, <2>1, <4>2
        <5>2. CeilDiv(L, CHUNK_SIZE) = (m - 1) + 1
          BY <1>0, <5>1, CeilDivBounds
        <5> QED
          BY <5>2
      <4> QED
        BY <4>1, <4>2
    <3> QED
      BY <1>1, <2>1, <3>1 DEF ReadUpTo, EndOfFile, ChunkHashes
  <2>2. CASE r # 0
    <3>1. CeilDiv(L, CHUNK_SIZE) = m + 1
      BY <1>0, <1>2, <2>2, CeilDivBounds
    <3>2. ChunkHash = Sha(Chunk(content, m + 1))
      BY <1>1, ChunkHashRight DEF EndOfFile
    <3>3. level' = [j \in 1..(m + 1) |-> Sha(Chunk(content, j))]
      BY <1>1, <2>2, <3>2, PushedLevel DEF EndOfFile, ReadUpTo
    <3> QED
      BY <3>1, <3>3 DEF ChunkHashes
  <2> QED
    BY <2>1, <2>2
<1>4. Levels(content)[0] = ChunkHashes(content)
  BY LevelsDefined
<1>5. Len(ChunkHashes(content)) \in 0..L
  <2>1. CeilDiv(L, CHUNK_SIZE) \in 0..L
    BY <1>0, LeafCount
  <2> DEFINE n == CeilDiv(L, CHUNK_SIZE)
             x == ChunkHashes(content)
  <2>2. n \in Nat /\ x = [i \in 1..n |-> x[i]]
    BY <1>0, <2>1 DEF ChunkHashes
  <2> HIDE DEF n, x
  <2>3. Len(x) = n
    BY <2>2, FunctionIsSeq
  <2> QED
    BY <2>1, <2>3 DEF n, x
<1>6. FoldedTo(0)
  BY <1>0, <1>4, <1>5 DEF FoldedTo
<1>7. FoldedTo(0)' /\ level' = Levels(content')[0] /\ stage' = "folding"
  BY <1>3, <1>4, <1>6 DEF EndOfFile, FoldedTo
<1>8. UNCHANGED <<content, pos, buffer, bytes_read>>
  BY DEF EndOfFile
<1> QED
  BY <1>7, <1>8 DEF HashInv

LEMMA FoldStep ==
    ASSUME HashInv, Fold
    PROVE  HashInv'
<1>0. Len(content) \in Nat
  BY FileLength DEF HashInv
<1>1. PICK h \in Nat : FoldedTo(h) /\ level = Levels(content)[h]
  BY DEF HashInv, Fold
<1> DEFINE x == Levels(content)[h]
           n == Len(x)
<1>2. n \in Nat /\ x = [i \in 1..n |-> x[i]] /\ n > 1
  BY <1>0, <1>1, LevelSeq DEF Fold
<1>3. Levels(content)[h + 1] = NextLevel(x) /\ level' = NextLevel(x)
  BY <1>1, LevelsDefined DEF Fold
<1> HIDE DEF x
<1>4. Len(NextLevel(x)) = (n + 1) \div 2
  BY <1>2, NextLevelSeq
<1>5. (n + 1) \div 2 <= n - 1 /\ (n + 1) \div 2 \in Nat
  BY <1>2
<1>6. h + n <= Len(content) /\ \A g \in 0..(h - 1) : Len(Levels(content)[g]) > 1
  BY <1>1 DEF FoldedTo, x
<1>7. FoldedTo(h + 1)
  <2>1. (h + 1) + Len(Levels(content)[h + 1]) <= Len(content)
    BY <1>0, <1>2, <1>3, <1>4, <1>5, <1>6
  <2>2. ASSUME NEW g \in 0..((h + 1) - 1)
        PROVE  Len(Levels(content)[g]) > 1
    <3>1. g \in 0..(h - 1) \/ g = h
      OBVIOUS
    <3> QED
      BY <1>2, <1>6, <3>1 DEF x
  <2> QED
    BY <2>1, <2>2 DEF FoldedTo
<1>8. UNCHANGED <<content, pos, buffer, bytes_read, stage>> /\ stage = "folding"
  BY DEF Fold
<1>9. FoldedTo(h + 1)' /\ level' = Levels(content')[h + 1] /\ h + 1 \in Nat
  <2>1. content' = content
    BY <1>8
  <2>2. FoldedTo(h + 1)'
    BY <1>7, <2>1, Zenon DEF FoldedTo
  <2> QED
    BY <1>3, <2>1, <2>2
<1> QED
  BY <1>8, <1>9 DEF HashInv

LEMMA ReturnRootStep ==
    ASSUME HashInv, ReturnRoot
    PROVE  HashInv'
<1>1. PICK h \in Nat : FoldedTo(h) /\ level = Levels(content)[h]
  BY DEF HashInv, ReturnRoot
<1>2. UNCHANGED <<content, pos, buffer, bytes_read>> /\ stage' = "done"
  BY DEF ReturnRoot
<1>3. /\ FoldedTo(h)' /\ Len(Levels(content')[h]) <= 1
      /\ level' = IF Levels(content')[h] = <<>> THEN <<Sha(<<>>)>>
                                                ELSE Levels(content')[h]
  BY <1>1, <1>2 DEF ReturnRoot, FoldedTo
<1> QED
  BY <1>2, <1>3 DEF HashInv

LEMMA HashNextStep == HashInv /\ [HashNext]_hashVars => HashInv'
<1> SUFFICES ASSUME HashInv, [HashNext]_hashVars PROVE HashInv'
  OBVIOUS
<1>1. CASE UNCHANGED hashVars
  <2>1. /\ content' = content /\ pos' = pos /\ buffer' = buffer
        /\ bytes_read' = bytes_read /\ level' = level /\ stage' = stage
    BY <1>1 DEF hashVars
  <2>2. \A m \in Nat : ReadUpTo(m) => ReadUpTo(m)'
    BY <2>1 DEF ReadUpTo
  <2>3. \A h \in Nat : FoldedTo(h) => FoldedTo(h)'
    BY <2>1 DEF FoldedTo
  <2> QED
    BY <2>1, <2>2, <2>3 DEF HashInv
<1>2. CASE ReadFails
  BY <1>2 DEF ReadFails, HashInv
<1> QED
  BY <1>1, <1>2, ReadStep, PushStep, EndStep, FoldStep, ReturnRootStep
     DEF HashNext

LEMMA HashInvariant == HashSpec => []HashInv
  BY HashInitial, HashNextStep, PTL DEF HashSpec

-----------------------------------------------------------------------------
(* The root.                                                               *)

(* The tree has the nodes of the levels.                                   *)
LEMMA TreeIsLevels ==
    ASSUME NEW f, Len(f) \in Nat, NEW h \in Nat
    PROVE  /\ Tree(f)[h].width = Len(Levels(f)[h])
           /\ \A i \in 1..Len(Levels(f)[h]) :
                  Tree(f)[h].node[i - 1] = Levels(f)[h][i]
<1> DEFINE Same(g) ==
               /\ Tree(f)[g].width = Len(Levels(f)[g])
               /\ \A i \in 1..Len(Levels(f)[g]) :
                      Tree(f)[g].node[i - 1] = Levels(f)[g][i]
           S == {g \in Nat : Same(g)}
<1>1. 0 \in S
  <2> DEFINE n == CeilDiv(Len(f), CHUNK_SIZE)
             x == Levels(f)[0]
             d == Tree(f)[0]
  <2>1. n \in Nat
    BY LeafCount
  <2>2. x = [i \in 1..n |-> x[i]] /\ \A i \in 1..n : x[i] = Sha(Chunk(f, i))
    BY LevelsDefined DEF ChunkHashes
  <2>3. d.width = n /\ \A i \in Nat : d.node[i] = Sha(Chunk(f, i + 1))
    <3>1. d = Foot(f)
      BY TreeDefined
    <3> HIDE DEF d
    <3>2. d.node = [i \in Nat |-> Sha(Chunk(f, i + 1))] /\ d.width = n
      BY <3>1 DEF Foot
    <3> QED
      BY <3>2
  <2> HIDE DEF n, x, d
  <2>4. Len(x) = n
    BY <2>1, <2>2, FunctionIsSeq
  <2>5. ASSUME NEW i \in 1..n PROVE d.node[i - 1] = x[i]
    <3>1. i - 1 \in Nat /\ (i - 1) + 1 = i
      BY <2>1
    <3>2. d.node[i - 1] = Sha(Chunk(f, (i - 1) + 1))
      BY <2>3, <3>1
    <3> QED
      BY <2>2, <3>1, <3>2
  <2> QED
    BY <2>3, <2>4, <2>5 DEF x, d
<1>2. ASSUME NEW g \in S PROVE g + 1 \in S
  <2> DEFINE x == Levels(f)[g]
             d == Tree(f)[g]
             n == Len(x)
             k == (n + 1) \div 2
             y == Levels(f)[g + 1]
             c == Tree(f)[g + 1]
  <2>1. /\ n \in Nat /\ x = [i \in 1..n |-> x[i]] /\ d.width = n
        /\ \A i \in 1..n : d.node[i - 1] = x[i]
    BY LevelSeq
  <2>2. y = NextLevel(x) /\ c = Above(d)
    BY LevelsDefined, TreeDefined
  <2> HIDE DEF x, d, y, c
  <2>3. /\ k \in Nat /\ Len(y) = k
        /\ \A i \in 1..k :
               y[i] = Sha(<<x[2 * i - 1],
                            IF 2 * i <= n THEN x[2 * i] ELSE x[2 * i - 1]>>)
    <3> DEFINE z == NextLevel(x)
    <3> HIDE DEF n
    <3>1. /\ k \in Nat /\ Len(z) = k
          /\ \A i \in 1..k :
                 z[i] = Sha(<<x[2 * i - 1],
                              IF 2 * i <= n THEN x[2 * i] ELSE x[2 * i - 1]>>)
      BY <2>1, NextLevelSeq
    <3> QED
      BY <2>2, <3>1
  <2>4. c.width = k
    <3>1. n + 2 - 1 = n + 1
      BY <2>1
    <3>2. c.width = (n + 2 - 1) \div 2
      BY <2>1, <2>2 DEF Above, CeilDiv
    <3> QED
      BY <3>1, <3>2
  <2>5. \A i \in Nat :
            c.node[i] = Sha(<<d.node[2 * i],
                              d.node[IF 2 * i + 1 < n THEN 2 * i + 1
                                                      ELSE 2 * i]>>)
    BY <2>1, <2>2 DEF Above
  <2>6. ASSUME NEW i \in 1..k PROVE c.node[i - 1] = y[i]
    <3>1. /\ i - 1 \in Nat /\ 2 * (i - 1) = (2 * i - 1) - 1
          /\ 2 * (i - 1) + 1 = 2 * i - 1 /\ 2 * i - 1 \in 1..n
          /\ 2 * i - 1 < n <=> 2 * i <= n
          /\ 2 * i <= n => 2 * i \in 1..n
      <4>1. n \in Nat /\ k \in Nat
        BY <2>1, <2>3
      <4> HIDE DEF n
      <4>2. 2 * k <= n + 1
        BY <4>1
      <4> HIDE DEF k
      <4>3. i \in Nat /\ i >= 1 /\ i <= k
        BY <4>1
      <4> QED
        BY <4>1, <4>2, <4>3
    <3>2. d.node[2 * (i - 1)] = x[2 * i - 1]
      BY <2>1, <3>1
    <3>3. 2 * i <= n => d.node[2 * i - 1] = x[2 * i]
      BY <2>1, <3>1
    <3>4. d.node[IF 2 * (i - 1) + 1 < n THEN 2 * (i - 1) + 1
                                        ELSE 2 * (i - 1)] =
              IF 2 * i <= n THEN x[2 * i] ELSE x[2 * i - 1]
      BY <3>1, <3>2, <3>3
    <3> QED
      BY <2>3, <2>5, <3>1, <3>2, <3>4
  <2> QED
    BY <2>3, <2>4, <2>6 DEF y, c
<1> HIDE DEF S
<1>3. S \in SUBSET Nat
  BY DEF S
<1>4. S = Nat
  BY <1>1, <1>2, <1>3, TreeRec!NatSetInduction
<1> QED
  BY <1>4 DEF S

(* The first height with at most one node is where the folding stops.      *)
LEMMA FirstHeight ==
    ASSUME NEW f, Len(f) \in Nat, NEW h \in Nat,
           h + Len(Levels(f)[h]) <= Len(f), Len(Levels(f)[h]) <= 1,
           \A g \in 0..(h - 1) : Len(Levels(f)[g]) > 1
    PROVE  Min({g \in 0..Len(f) : Len(Levels(f)[g]) <= 1}) = h
<1> DEFINE S == {g \in 0..Len(f) : Len(Levels(f)[g]) <= 1}
<1>1. Len(Levels(f)[h]) \in Nat
  BY LevelSeq
<1>2. h \in S
  BY <1>1
<1>3. ASSUME NEW g \in S PROVE h <= g
  <2>1. g \in Nat /\ Len(Levels(f)[g]) \in Nat /\ Len(Levels(f)[g]) <= 1
    BY LevelSeq
  <2> QED
    BY <2>1
<1>4. \A x \in S : (\A y \in S : x <= y) => x = h
  BY <1>2, <1>3
<1> HIDE DEF S
<1>5. Min(S) = h
  BY <1>2, <1>3, <1>4, Zenon DEF Min
<1> QED
  BY <1>5 DEF S

(* There the folding has the root of the file, or nothing if it is empty.  *)
LEMMA RootFolded ==
    ASSUME NEW f, Len(f) \in Nat, NEW h \in Nat,
           h + Len(Levels(f)[h]) <= Len(f), Len(Levels(f)[h]) <= 1,
           \A g \in 0..(h - 1) : Len(Levels(f)[g]) > 1
    PROVE  <<MerkleRoot(f)>> =
               IF Levels(f)[h] = <<>> THEN <<Sha(<<>>)>> ELSE Levels(f)[h]
<1> DEFINE x == Levels(f)[h]
<1>1. Len(x) \in Nat /\ x = [i \in 1..Len(x) |-> x[i]]
  BY LevelSeq
<1>2. MerkleRoot(f) = Tree(f)[h].node[0]
  <2>1. {g \in 0..Len(f) : Tree(f)[g].width <= 1} =
            {g \in 0..Len(f) : Len(Levels(f)[g]) <= 1}
    <3>1. \A g \in 0..Len(f) : g \in Nat
      OBVIOUS
    <3>2. \A g \in 0..Len(f) : Tree(f)[g].width = Len(Levels(f)[g])
      BY <3>1, TreeIsLevels, Zenon
    <3> QED
      BY <3>2
  <2>2. Min({g \in 0..Len(f) : Tree(f)[g].width <= 1}) = h
    BY <2>1, FirstHeight
  <2> QED
    BY <2>2 DEF MerkleRoot
<1>3. CASE Len(x) = 1
  <2>1. 1 \in 1..Len(x) /\ 1 - 1 = 0
    BY <1>3
  <2>2. Tree(f)[h].node[1 - 1] = x[1]
    BY <2>1, TreeIsLevels
  <2>3. <<MerkleRoot(f)>> = <<x[1]>>
    BY <1>2, <2>1, <2>2
  <2> HIDE DEF x
  <2>4. x = <<x[1]>> /\ x # <<>>
    <3> DEFINE y == <<x[1]>>
    <3>1. x = [i \in 1..1 |-> x[i]] /\ x # <<>>
      <4>1. Len(<<>>) # 1
        OBVIOUS
      <4>2. x # <<>>
        BY <1>3, <4>1, Zenon
      <4>3. x = [i \in 1..1 |-> x[i]]
        BY <1>1, <1>3, Zenon
      <4> QED
        BY <4>2, <4>3
    <3>2. y = [i \in 1..1 |-> y[i]] /\ \A i \in 1..1 : x[i] = y[i]
      OBVIOUS
    <3> HIDE DEF y
    <3>3. x = y
      BY <3>1, <3>2, SameSeq
    <3> QED
      BY <3>1, <3>3 DEF y
  <2> QED
    BY <2>3, <2>4 DEF x
<1>4. CASE Len(x) = 0
  <2>1. x = <<>>
    <3> HIDE DEF x
    <3> QED
      BY <1>1, <1>4
  <2>2. h = 0
    <3> SUFFICES ASSUME h # 0 PROVE FALSE
      OBVIOUS
    <3> DEFINE y == Levels(f)[h - 1]
               n == Len(y)
    <3>1. h - 1 \in Nat /\ h - 1 \in 0..(h - 1) /\ (h - 1) + 1 = h
      OBVIOUS
    <3>2. n \in Nat /\ y = [i \in 1..n |-> y[i]] /\ n > 1
      BY <3>1, LevelSeq
    <3>3. x = NextLevel(y)
      BY <3>1, LevelsDefined
    <3> HIDE DEF x, y
    <3>4. Len(x) = (n + 1) \div 2
      BY <3>2, <3>3, NextLevelSeq
    <3> HIDE DEF n
    <3>5. (n + 1) \div 2 >= 1
      BY <3>2
    <3> QED
      BY <1>4, <3>4, <3>5
  <2>3. Len(f) = 0
    <3> DEFINE n == CeilDiv(Len(f), CHUNK_SIZE)
    <3> SUFFICES ASSUME Len(f) # 0 PROVE FALSE
      OBVIOUS
    <3>1. CHUNK_SIZE \in Nat \ {0} /\ Len(f) \in Nat \ {0}
      BY ChunkAssumption
    <3>2. n \in Nat /\ n # 0
      <4>1. PICK q \in Nat, r \in 1..CHUNK_SIZE :
                Len(f) = q * CHUNK_SIZE + r /\ n = q + 1
        BY <3>1, CeilDivExists, Zenon
      <4> QED
        BY <4>1
    <3>3. x = [i \in 1..n |-> x[i]]
      BY <2>2, LevelsDefined DEF ChunkHashes
    <3> HIDE DEF n, x
    <3>4. Len(x) = n
      BY <3>2, <3>3, FunctionIsSeq
    <3> QED
      BY <1>4, <3>2, <3>4
  <2>4. Chunk(f, 0 + 1) = [i \in 1..0 |-> f[0 * CHUNK_SIZE + i]]
    <3>1. ChunkOf(f, 0, 0)
      BY <2>3, ChunkAssumption DEF ChunkOf
    <3> QED
      BY <3>1, ChunkFunction, Zenon
  <2>5. Chunk(f, 0 + 1) = <<>>
    BY <2>4
  <2>6. Tree(f)[0].node = [i \in Nat |-> Sha(Chunk(f, i + 1))]
    <3>1. Tree(f)[0] = Foot(f)
      BY TreeDefined
    <3> QED
      BY <3>1 DEF Foot
  <2>7. Tree(f)[0].node[0] = Sha(Chunk(f, 0 + 1))
    BY <2>6
  <2> QED
    BY <1>2, <2>1, <2>2, <2>5, <2>7
<1> QED
  BY <1>1, <1>3, <1>4

(* hash_file_merkle, whatever its reads return, ends with the Merkle root  *)
(* of the file.                                                            *)
THEOREM RootRight == HashSpec => []RootOfContent
<1>1. HashInv => RootOfContent
  <2> SUFFICES ASSUME HashInv, stage = "done"
               PROVE  level = <<RootOf[content]>>
    BY DEF RootOfContent
  <2>1. PICK h \in Nat :
            /\ FoldedTo(h) /\ Len(Levels(content)[h]) <= 1
            /\ level = IF Levels(content)[h] = <<>> THEN <<Sha(<<>>)>>
                                                    ELSE Levels(content)[h]
    BY DEF HashInv
  <2>2. content \in File /\ Len(content) \in Nat
    BY FileLength DEF HashInv
  <2>3. RootOf[content] = MerkleRoot(content)
    BY <2>2 DEF RootOf
  <2>4. level = <<MerkleRoot(content)>>
    BY <2>1, <2>2, RootFolded DEF FoldedTo
  <2> QED
    BY <2>3, <2>4
<1> QED
  BY <1>1, HashInvariant, PTL

-----------------------------------------------------------------------------
(* The folding of files of one size tells them apart.                      *)

LEMMA SameLengths ==
    ASSUME NEW f, NEW g, Len(f) \in Nat, Len(g) = Len(f), NEW h \in Nat
    PROVE  Len(Levels(f)[h]) = Len(Levels(g)[h])
<1> DEFINE S == {k \in Nat : Len(Levels(f)[k]) = Len(Levels(g)[k])}
<1>1. 0 \in S
  <2> DEFINE n == CeilDiv(Len(f), CHUNK_SIZE)
             x == Levels(f)[0]
             y == Levels(g)[0]
  <2>1. n \in Nat
    BY LeafCount
  <2>2. x = [i \in 1..n |-> x[i]] /\ y = [i \in 1..n |-> y[i]]
    BY LevelsDefined DEF ChunkHashes
  <2> HIDE DEF n, x, y
  <2>3. Len(x) = n /\ Len(y) = n
    BY <2>1, <2>2, FunctionIsSeq
  <2> QED
    BY <2>3 DEF x, y
<1>2. ASSUME NEW k \in S PROVE k + 1 \in S
  <2> DEFINE x == Levels(f)[k]
             y == Levels(g)[k]
             n == Len(x)
  <2>1. /\ n \in Nat /\ Len(y) = n
        /\ x = [i \in 1..n |-> x[i]] /\ y = [i \in 1..n |-> y[i]]
    BY LevelSeq
  <2>2. /\ Levels(f)[k + 1] = NextLevel(x) /\ Levels(g)[k + 1] = NextLevel(y)
        /\ k + 1 \in Nat
    BY LevelsDefined
  <2> HIDE DEF x, y, n
  <2>3. Len(NextLevel(x)) = (n + 1) \div 2 /\ Len(NextLevel(y)) = (n + 1) \div 2
    BY <2>1, NextLevelSeq
  <2> QED
    BY <2>2, <2>3
<1> HIDE DEF S
<1>3. S \in SUBSET Nat
  BY DEF S
<1>4. S = Nat
  BY <1>1, <1>2, <1>3, TreeRec!NatSetInduction
<1> QED
  BY <1>4 DEF S

LEMMA ShaInjective ==
    ASSUME NEW x, NEW y, Sha(x) = Sha(y)
    PROVE  x = y
  BY DEF Sha

LEMMA NextLevelInjective ==
    ASSUME NEW n \in Nat, NEW x, NEW y, x = [i \in 1..n |-> x[i]],
           y = [i \in 1..n |-> y[i]], NextLevel(x) = NextLevel(y)
    PROVE  x = y
<1> DEFINE k == (n + 1) \div 2
           over(z, i) == IF 2 * i <= n THEN z[2 * i] ELSE z[2 * i - 1]
           u == NextLevel(x)
           v == NextLevel(y)
<1>1. /\ \A i \in 1..k : u[i] = Sha(<<x[2 * i - 1], over(x, i)>>)
      /\ \A i \in 1..k : v[i] = Sha(<<y[2 * i - 1], over(y, i)>>)
  BY NextLevelSeq
<1>2. u = v
  OBVIOUS
<1>3. k \in Nat /\ 2 * k <= n + 1 /\ n <= 2 * k
  OBVIOUS
<1> HIDE DEF u, v, over
<1>4. ASSUME NEW i \in 1..k
      PROVE  x[2 * i - 1] = y[2 * i - 1] /\ over(x, i) = over(y, i)
  <2>1. Sha(<<x[2 * i - 1], over(x, i)>>) = Sha(<<y[2 * i - 1], over(y, i)>>)
    BY <1>1, <1>2
  <2>2. <<x[2 * i - 1], over(x, i)>> = <<y[2 * i - 1], over(y, i)>>
    BY <2>1, ShaInjective
  <2> QED
    BY <2>2
<1> HIDE DEF k
<1>5. ASSUME NEW j \in 1..n PROVE x[j] = y[j]
  <2>1. PICK i \in Int : j = 2 * i \/ j = 2 * i - 1
    <3> DEFINE b == j \div 2
    <3>1. j \in Nat
      OBVIOUS
    <3>2. b \in Int /\ 2 * b <= j /\ j < 2 * b + 2
      BY <3>1
    <3> HIDE DEF b
    <3>3. b + 1 \in Int /\ (j = 2 * b \/ j = 2 * (b + 1) - 1)
      BY <3>1, <3>2
    <3> QED
      BY <3>2, <3>3
  <2>2. i \in 1..k
    BY <1>3, <2>1
  <2>3. CASE j = 2 * i - 1
    BY <1>4, <2>2, <2>3
  <2>4. CASE j = 2 * i
    <3>1. over(x, i) = x[j] /\ over(y, i) = y[j]
      BY <2>4 DEF over
    <3> QED
      BY <1>4, <2>2, <3>1
  <2> QED
    BY <2>1, <2>3, <2>4
<1> QED
  BY <1>5, SameSeq

LEMMA SameLeaves ==
    ASSUME NEW f, NEW g, Len(f) \in Nat, Len(g) = Len(f), NEW h \in Nat,
           Levels(f)[h] = Levels(g)[h]
    PROVE  ChunkHashes(f) = ChunkHashes(g)
<1> DEFINE S == {k \in Nat : Levels(f)[k] = Levels(g)[k]
                                => ChunkHashes(f) = ChunkHashes(g)}
<1>1. 0 \in S
  BY LevelsDefined
<1>2. ASSUME NEW k \in S PROVE k + 1 \in S
  <2> SUFFICES ASSUME Levels(f)[k + 1] = Levels(g)[k + 1]
               PROVE  Levels(f)[k] = Levels(g)[k]
    OBVIOUS
  <2> DEFINE x == Levels(f)[k]
             y == Levels(g)[k]
             n == Len(x)
  <2>1. /\ n \in Nat /\ x = [i \in 1..n |-> x[i]] /\ y = [i \in 1..n |-> y[i]]
    <3>1. k \in Nat
      OBVIOUS
    <3>2. n \in Nat /\ x = [i \in 1..n |-> x[i]]
      BY <3>1, LevelSeq
    <3>3. Len(y) = n
      BY <3>1, SameLengths
    <3>4. y = [i \in 1..Len(y) |-> y[i]]
      BY <3>1, LevelSeq
    <3> QED
      BY <3>2, <3>3, <3>4
  <2>2. NextLevel(x) = NextLevel(y)
    BY LevelsDefined
  <2> HIDE DEF x, y, n
  <2>3. x = y
    BY <2>1, <2>2, NextLevelInjective
  <2> QED
    BY <2>3 DEF x, y
<1> HIDE DEF S
<1>3. S \in SUBSET Nat
  BY DEF S
<1>4. S = Nat
  BY <1>1, <1>2, <1>3, TreeRec!NatSetInduction
<1> QED
  BY <1>4 DEF S

LEMMA SameFile ==
    ASSUME NEW n \in Nat, NEW f \in [1..n -> Byte], NEW g \in [1..n -> Byte],
           ChunkHashes(f) = ChunkHashes(g)
    PROVE  f = g
<1> DEFINE C == CHUNK_SIZE
<1>0. Len(f) = n /\ Len(g) = n /\ C \in Nat \ {0} /\ C \in Nat
  BY FileSeq, ChunkAssumption
<1>1. ASSUME NEW i \in 1..n PROVE f[i] = g[i]
  <2>0. i \in Nat \ {0} /\ n \in Nat \ {0}
    OBVIOUS
  <2>1. PICK q \in Nat, r \in 1..C : i = q * C + r /\ CeilDiv(i, C) = q + 1
    BY <1>0, <2>0, CeilDivExists, Zenon
  <2>2. PICK p \in Nat, t \in 1..C : n = p * C + t /\ CeilDiv(n, C) = p + 1
    BY <1>0, <2>0, CeilDivExists, Zenon
  <2>3. q * C \in Nat /\ p * C \in Nat
    BY <1>0
  <2>4. q <= p
    <3> SUFFICES ASSUME q >= p + 1 PROVE FALSE
      OBVIOUS
    <3>1. q * C >= (p + 1) * C /\ (p + 1) * C = p * C + C
      BY <1>0
    <3> HIDE DEF C
    <3> QED
      BY <1>0, <2>1, <2>2, <2>3, <3>1
  <2> DEFINE w == IF q = p THEN t ELSE C
  <2>5. /\ w \in 0..C /\ r \in 1..w /\ q * C <= n
        /\ (w = C /\ q * C + w <= n) \/ q * C + w = n
    <3>1. CASE q = p
      <4> HIDE DEF C
      <4> QED
        BY <1>0, <2>1, <2>2, <2>3, <3>1
    <3>2. CASE q # p
      <4>1. p >= q + 1 /\ p * C >= (q + 1) * C /\ (q + 1) * C = q * C + C
        BY <1>0, <2>4, <3>2
      <4> HIDE DEF C
      <4> QED
        BY <1>0, <2>1, <2>2, <2>3, <3>2, <4>1
    <3> QED
      BY <3>1, <3>2
  <2> HIDE DEF w
  <2>6. /\ Chunk(f, q + 1) = [j \in 1..w |-> f[q * C + j]]
        /\ Chunk(g, q + 1) = [j \in 1..w |-> g[q * C + j]]
    <3>1. ChunkOf(f, q, w) /\ ChunkOf(g, q, w)
      BY <1>0, <2>5 DEF ChunkOf
    <3> QED
      BY <3>1, ChunkFunction
  <2>7. Chunk(f, q + 1) = Chunk(g, q + 1)
    <3>1. q + 1 \in 1..CeilDiv(n, C)
      BY <2>2, <2>4
    <3>2. /\ ChunkHashes(f)[q + 1] = Sha(Chunk(f, q + 1))
          /\ ChunkHashes(g)[q + 1] = Sha(Chunk(g, q + 1))
      BY <1>0, <3>1 DEF ChunkHashes
    <3> QED
      BY <3>2, ShaInjective
  <2>8. Chunk(f, q + 1)[r] = f[i] /\ Chunk(g, q + 1)[r] = g[i]
    BY <2>1, <2>5, <2>6
  <2> QED
    BY <2>7, <2>8
<1> QED
  BY <1>1

(* Of two files of one size that fold to the same root there is only one,  *)
(* for every size: when hash_file_merkle returns, no other file of the     *)
(* size of the one that was read has its root.                             *)
THEOREM RootIdentifies == HashSpec => []RootIdentifiesModel
<1>1. HashInv => RootIdentifiesModel
  <2> SUFFICES ASSUME HashInv, stage = "done",
                      NEW f \in [1..Len(content) -> Byte],
                      level = Collapsed[f]
               PROVE  f = content
    BY DEF RootIdentifiesModel
  <2>1. /\ content \in File /\ Len(content) \in 0..MaxBytes
        /\ Len(content) \in Nat /\ content \in [1..Len(content) -> Byte]
    BY FileLength DEF HashInv
  <2>2. PICK h \in Nat :
            /\ FoldedTo(h) /\ Len(Levels(content)[h]) <= 1
            /\ level = IF Levels(content)[h] = <<>> THEN <<Sha(<<>>)>>
                                                    ELSE Levels(content)[h]
    BY DEF HashInv
  <2>3. f \in File /\ Len(f) = Len(content)
    BY <2>1, FileSeq DEF File
  <2>4. \A g \in Nat : Len(Levels(f)[g]) = Len(Levels(content)[g])
    BY <2>1, <2>3, SameLengths
  <2>5. Collapsed[f] = Levels(f)[h]
    <3>1. /\ h + Len(Levels(f)[h]) <= Len(f) /\ Len(Levels(f)[h]) <= 1
          /\ \A g \in 0..(h - 1) : Len(Levels(f)[g]) > 1
      BY <2>2, <2>3, <2>4 DEF FoldedTo
    <3>2. Min({g \in 0..Len(f) : Len(Levels(f)[g]) <= 1}) = h
      BY <2>1, <2>3, <3>1, FirstHeight
    <3> QED
      BY <2>3, <3>2 DEF Collapsed
  <2>6. Levels(f)[h] = Levels(content)[h]
    <3> DEFINE x == Levels(f)[h]
               y == Levels(content)[h]
    <3>1. /\ Len(x) \in Nat /\ x = [i \in 1..Len(x) |-> x[i]]
          /\ Len(y) = Len(x) /\ y = [i \in 1..Len(y) |-> y[i]]
      BY <2>1, <2>3, <2>4, LevelSeq
    <3>2. x = IF y = <<>> THEN <<Sha(<<>>)>> ELSE y
      BY <2>2, <2>5
    <3> HIDE DEF x, y
    <3>3. CASE y = <<>>
      <4>1. x = <<Sha(<<>>)>>
        BY <3>2, <3>3
      <4>2. Len(x) = 1 /\ Len(y) = 0
        BY <3>3, <4>1
      <4> QED
        BY <3>1, <4>2
    <3> QED
      BY <3>2, <3>3 DEF x, y
  <2>7. ChunkHashes(f) = ChunkHashes(content)
    BY <2>1, <2>3, <2>6, SameLeaves
  <2> QED
    BY <2>1, <2>7, SameFile
<1> QED
  BY <1>1, HashInvariant, PTL

=============================================================================
