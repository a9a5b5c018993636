--------------------------- MODULE EnvelopeFormat ---------------------------
(***************************************************************************)
(* Chunks, ciphertexts and manifests of the envelope transfer              *)
(* (common/chunk_crypto.py, common/manifest.py, the chunk arithmetic of    *)
(* both programs).                                                         *)
(*                                                                         *)
(* SHA-256 is taken to be injective, and the nonce is derived, so what a   *)
(* chunk encrypts to is determined by the data key, the index and the      *)
(* plaintext, and nothing else decrypts to it: a ciphertext is modelled by *)
(* these three.  A manifest's hashes are modelled by the bytes they were   *)
(* computed from.                                                          *)
(***************************************************************************)
EXTENDS TransferFiles, FiniteSets

CONSTANTS
  Inputs,      \* the contents the input file may have
  Deks,        \* data encryption keys
  ChunkSize,   \* --chunk-size, in units
  Garbled      \* a small file that a power failure has made unreadable

ASSUME FormatAssumption ==
  /\ Inputs # {} /\ Inputs \subseteq Seq(Byte)
  /\ <<>> \notin Inputs
  /\ ChunkSize \in Nat \ {0}

\* _chunk_count
ChunkCount(size) == (size + ChunkSize - 1) \div ChunkSize

\* Where a chunk begins: every chunk before it has the full length.
Offset(i) == i * ChunkSize

\* How many units chunk i of a file of this size has.
ChunkLength(i, size) ==
  IF ChunkSize < size - Offset(i) THEN ChunkSize ELSE size - Offset(i)

\* Chunk i of the bytes in f, when f is taken to have this size.
PlainChunk(f, i, size) == SubSeq(f, Offset(i) + 1, Offset(i) + ChunkLength(i, size))

\* _offset_before_index: the length of the chunks of m before chunk i.
OffsetBefore(m, i) == IF Offset(i) < Len(m.plain) THEN Offset(i) ELSE Len(m.plain)

\* Any chunk index of any of the files.
Indices == UNION { 0..ChunkCount(Len(f)) - 1 : f \in Inputs }

Ciphertext == [dek : Deks, index : Nat, data : Seq(Byte)]
Manifest   == [dek : Deks, plain : Seq(Byte)]

ASSUME GarbledAssumption ==
  /\ Garbled \notin Ciphertext \cup Manifest \cup Nat \cup {Absent}
  /\ Absent \notin Ciphertext \cup Manifest \cup Nat

\* encrypt_chunk
Encrypt(dek, i, data) == [dek |-> dek, index |-> i, data |-> data]

\* The ciphertext whose hash manifest m lists for chunk i.
Listed(m, i) == Encrypt(m.dek, i, PlainChunk(m.plain, i, Len(m.plain)))
=============================================================================
