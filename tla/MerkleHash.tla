------------------------------ MODULE MerkleHash ------------------------------
(***************************************************************************)
(* compute_model_hash (crates/veriai-core/src/hashing.rs): a model file is *)
(* read into one buffer, by reads that may return less than they are asked *)
(* for, hashed chunk by chunk, and the hashes are folded to a root.        *)
(* SHA-256 is perfect: it is a constructor.                                *)
(***************************************************************************)
EXTENDS Integers, Sequences, FiniteSetsExt

CONSTANTS
    Byte,         \* bytes
    Zero,         \* the byte the buffer is filled with
    CHUNK_SIZE,   \* 4 MiB
    MaxBytes      \* bound on the size of a file

ASSUME ByteAssumption == Zero \in Byte
ASSUME ChunkAssumption == CHUNK_SIZE \in Nat \ {0} /\ MaxBytes \in Nat

File == UNION {[1..n -> Byte] : n \in 0..MaxBytes}

Sha(x) == <<"sha256", x>>

VARIABLES
    content,      \* the model file
    pos,          \* how far it has been read
    buffer,
    bytes_read,   \* how much of the buffer is of this chunk
    level,        \* leaves, then current_level
    stage         \* "reading", "folding", "done" or "failed"

hashVars == <<content, pos, buffer, bytes_read, level, stage>>

HashInit ==
    /\ content \in File
    /\ pos = 0
    /\ buffer = [k \in 1..CHUNK_SIZE |-> Zero]
    /\ bytes_read = 0
    /\ level = <<>>
    /\ stage = "reading"

(* file.read returns n > 0 bytes.                                          *)
Read(n) ==
    /\ stage = "reading"
    /\ n \in 1..(CHUNK_SIZE - bytes_read) /\ pos + n <= Len(content)
    /\ buffer' = [k \in 1..CHUNK_SIZE |->
                     IF k \in (bytes_read + 1)..(bytes_read + n)
                     THEN content[pos + k - bytes_read]
                     ELSE buffer[k]]
    /\ bytes_read' = bytes_read + n
    /\ pos' = pos + n
    /\ UNCHANGED <<content, level, stage>>

ReadFails ==
    /\ stage = "reading" /\ bytes_read < CHUNK_SIZE
    /\ stage' = "failed"
    /\ UNCHANGED <<content, pos, buffer, bytes_read, level>>

(* Mutant: the whole buffer is hashed, with what an earlier chunk left.    *)
ChunkHashStale == Sha(buffer)

(* The hash of &buffer[..bytes_read].                                      *)
ChunkHash == Sha(SubSeq(buffer, 1, bytes_read))

(* A full chunk; then the next.                                            *)
PushChunk ==
    /\ stage = "reading" /\ bytes_read = CHUNK_SIZE
    /\ level' = Append(level, ChunkHash)
    /\ bytes_read' = 0
    /\ UNCHANGED <<content, pos, buffer, stage>>

(* file.read returns 0: what is left is the last chunk, if it is anything. *)
EndOfFile ==
    /\ stage = "reading" /\ bytes_read < CHUNK_SIZE /\ pos = Len(content)
    /\ level' = IF bytes_read = 0 THEN level ELSE Append(level, ChunkHash)
    /\ stage' = "folding"
    /\ UNCHANGED <<content, pos, buffer, bytes_read>>

(* Mutant: the remainder of chunks_exact is forgotten.                     *)
NextLevelWithoutRemainder(nodes) ==
    [i \in 1..(Len(nodes) \div 2) |-> Sha(<<nodes[2 * i - 1], nodes[2 * i]>>)]

(* Pairs are hashed together, and an odd node with itself.                 *)
NextLevel(nodes) ==
    [i \in 1..((Len(nodes) + 1) \div 2) |->
        Sha(<<nodes[2 * i - 1],
              IF 2 * i <= Len(nodes) THEN nodes[2 * i] ELSE nodes[2 * i - 1]>>)]

Fold ==
    /\ stage = "folding" /\ Len(level) > 1
    /\ level' = NextLevel(level)
    /\ UNCHANGED <<content, pos, buffer, bytes_read, stage>>

(* Ok(current_level[0]); an empty file has no leaf.                        *)
ReturnRoot ==
    /\ stage = "folding" /\ Len(level) <= 1
    /\ level' = IF level = <<>> THEN <<Sha(<<>>)>> ELSE level
    /\ stage' = "done"
    /\ UNCHANGED <<content, pos, buffer, bytes_read>>

HashNext ==
    \/ \E n \in 1..CHUNK_SIZE : Read(n)
    \/ ReadFails
    \/ PushChunk
    \/ EndOfFile
    \/ Fold
    \/ ReturnRoot

HashSpec == HashInit /\ [][HashNext]_hashVars

-----------------------------------------------------------------------------
(* What the root of a file is, said from the top.                          *)

CeilDiv(a, b) == (a + b - 1) \div b

Chunk(f, k) == SubSeq(f, (k - 1) * CHUNK_SIZE + 1,
                      Min({k * CHUNK_SIZE, Len(f)}))

(* The nodes at the foot of the tree over f, counted from zero, and those  *)
(* one height above: the last of an odd number is its own neighbour.       *)
Foot(f) ==
    [width |-> CeilDiv(Len(f), CHUNK_SIZE),
     node |-> [i \in Nat |-> Sha(Chunk(f, i + 1))]]

Above(below) ==
    [width |-> CeilDiv(below.width, 2),
     node |-> [i \in Nat |->
                  LET right == IF 2 * i + 1 < below.width THEN 2 * i + 1
                                                          ELSE 2 * i
                  IN  Sha(<<below.node[2 * i], below.node[right]>>)]]

Tree(f) ==
    LET tree[h \in Nat] == IF h = 0 THEN Foot(f) ELSE Above(tree[h - 1])
    IN  tree

(* The one node at the first height that has no more.                      *)
MerkleRoot(f) ==
    LET height == Min({h \in 0..Len(f) : Tree(f)[h].width <= 1})
    IN  Tree(f)[height].node[0]

RootOf == [f \in File |-> MerkleRoot(f)]

(* What the code's own folding makes of the chunks of a file.              *)
ChunkHashes(f) ==
    [k \in 1..CeilDiv(Len(f), CHUNK_SIZE) |-> Sha(Chunk(f, k))]

Levels(f) ==
    LET fold[h \in Nat] == IF h = 0 THEN ChunkHashes(f)
                                    ELSE NextLevel(fold[h - 1])
    IN  fold

Collapsed ==
    [f \in File |->
        Levels(f)[Min({h \in 0..Len(f) : Len(Levels(f)[h]) <= 1})]]

-----------------------------------------------------------------------------
(* Properties.                                                             *)

(* The root that is returned is the root of the file, however its reads    *)
(* were cut, and whatever the buffer still held.                           *)
RootOfContent == stage = "done" => level = <<RootOf[content]>>

(* The root tells models of one size apart.  Of different sizes it does    *)
(* not: a file that ends in a repeated chunk may have the root of the file *)
(* without it, as the comment on hash_file_merkle says.                    *)
RootIdentifiesModel ==
    stage = "done" =>
        \A f \in [1..Len(content) -> Byte] :
            level = Collapsed[f] => f = content

=============================================================================
