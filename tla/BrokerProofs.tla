---------------------------- MODULE BrokerProofs ----------------------------
(***************************************************************************)
(* Facts about the chunks of a file and about the broker's own steps that  *)
(* hold whichever programs are its clients.                                *)
(***************************************************************************)
EXTENDS Broker, TransferFileProofs, FiniteSetTheorems

-----------------------------------------------------------------------------
(* Chunks.                                                                 *)

\* The chunks follow each other (sender_encrypt_upload.py:72-83).
LEMMA OffsetSteps ==
  ASSUME NEW i \in Nat
  PROVE  Offset(i) \in Nat /\ Offset(i + 1) = Offset(i) + ChunkSize
BY FormatAssumption, TimesMonotonic DEF Offset

\* A later chunk begins later.
LEMMA OffsetOrder ==
  ASSUME NEW i \in Nat, NEW j \in Nat
  PROVE  i < j <=> Offset(i) < Offset(j)
<1>1. ChunkSize \in Nat /\ ChunkSize > 0
  BY FormatAssumption
<1>2. Offset(i) \in Nat /\ Offset(j) \in Nat /\ Offset(i + 1) = Offset(i) + ChunkSize
  BY OffsetSteps
<1>3. CASE i < j
  <2>1. (i + 1) * ChunkSize <= j * ChunkSize
    BY <1>1, <1>3, TimesMonotonic
  <2> QED
    BY <1>1, <1>2, <1>3, <2>1 DEF Offset
<1>4. CASE j <= i
  <2>1. j * ChunkSize <= i * ChunkSize
    BY <1>1, <1>4, TimesMonotonic
  <2> QED
    BY <1>2, <1>4, <2>1 DEF Offset
<1> QED
  BY <1>3, <1>4

\* A chunk is one of the file's if and only if it begins before its end
\* (_chunk_count of both programs).
LEMMA ChunkCounted ==
  ASSUME NEW s \in Nat, NEW i \in Nat
  PROVE  ChunkCount(s) \in Nat /\ (i < ChunkCount(s) <=> Offset(i) < s)
<1> DEFINE q == ChunkCount(s)
<1>1. ChunkSize \in Nat /\ ChunkSize > 0
  BY FormatAssumption
<1>2. q \in Nat /\ s <= Offset(q) /\ Offset(q) < s + ChunkSize
  BY <1>1, CeilingDivision DEF ChunkCount, Offset
<1> HIDE DEF q
<1>3. Offset(i) \in Nat /\ Offset(q) \in Nat /\ Offset(i + 1) = Offset(i) + ChunkSize
  BY <1>2, OffsetSteps
<1>4. CASE i < q
  <2>1. i + 1 <= q /\ i + 1 \in Nat
    BY <1>2, <1>4
  <2>2. Offset(i + 1) <= Offset(q)
    BY <1>1, <1>2, <2>1, TimesMonotonic DEF Offset
  <2> QED
    BY <1>1, <1>2, <1>3, <1>4, <2>2 DEF q
<1>5. CASE q <= i
  <2>1. Offset(q) <= Offset(i)
    BY <1>1, <1>2, <1>5, TimesMonotonic DEF Offset
  <2> QED
    BY <1>1, <1>2, <1>3, <1>5, <2>1 DEF q
<1> QED
  BY <1>2, <1>4, <1>5 DEF q

\* The chunks before the one at Offset(i) are i chunks.
LEMMA ChunksBeforeOffset == ASSUME NEW i \in Nat PROVE ChunkCount(Offset(i)) = i
<1> DEFINE q == ChunkCount(Offset(i))
<1>1. Offset(i) \in Nat
  BY OffsetSteps
<1>2. q \in Nat /\ ~(i < q)
  BY <1>1, ChunkCounted
<1>3. q < i <=> Offset(q) < Offset(i)
  BY <1>2, OffsetOrder
<1>4. q < q <=> Offset(q) < Offset(i)
  BY <1>1, <1>2, ChunkCounted
<1> QED
  BY <1>2, <1>3, <1>4

\* A chunk of the file ends where the next one begins, or with the file.
LEMMA ChunkEnds ==
  ASSUME NEW s \in Nat, NEW i \in Nat, i < ChunkCount(s)
  PROVE  /\ ChunkLength(i, s) \in Nat /\ ChunkLength(i, s) > 0
         /\ Offset(i) \in Nat /\ Offset(i + 1) \in Nat /\ Offset(i) < s
         /\ Offset(i) + ChunkLength(i, s) = IF Offset(i + 1) < s THEN Offset(i + 1) ELSE s
<1>1. ChunkSize \in Nat /\ ChunkSize > 0
  BY FormatAssumption
<1>2. Offset(i) \in Nat /\ Offset(i + 1) = Offset(i) + ChunkSize /\ Offset(i) < s
  BY OffsetSteps, ChunkCounted
<1> QED
  BY <1>1, <1>2 DEF ChunkLength

\* A chunk of the bytes in f, which are as many as it needs.
LEMMA ChunkOfFile ==
  ASSUME NEW f \in Seq(Byte), NEW s \in Nat, NEW i \in Nat, i < ChunkCount(s),
         Offset(i) + ChunkLength(i, s) <= Len(f)
  PROVE  /\ PlainChunk(f, i, s) \in Seq(Byte)
         /\ Len(PlainChunk(f, i, s)) = ChunkLength(i, s)
         /\ SubSeq(f, 1, Offset(i)) \o PlainChunk(f, i, s)
              = SubSeq(f, 1, Offset(i) + ChunkLength(i, s))
<1>1. ChunkLength(i, s) \in Nat /\ Offset(i) \in Nat
  BY ChunkEnds
<1> QED
  BY <1>1, NextPiece DEF PlainChunk

\* A chunk of an input file has an index the broker knows.
LEMMA ChunkIndex ==
  ASSUME NEW f \in Inputs, NEW i \in Nat, i < ChunkCount(Len(f))
  PROVE  i \in Indices
<1>1. Len(f) \in Nat
  BY FormatAssumption
<1>2. ChunkCount(Len(f)) \in Nat
  BY <1>1, ChunkCounted
<1>3. i \in 0..ChunkCount(Len(f)) - 1
  BY <1>2
<1> QED
  BY <1>3 DEF Indices

\* Where the chunks of a manifest begin and end (_offset_before_index).
LEMMA PrefixOfChunks ==
  ASSUME NEW m \in Manifest, NEW i \in Nat
  PROVE  /\ OffsetBefore(m, i) \in Nat /\ OffsetBefore(m, i) <= Len(m.plain)
         /\ OffsetBefore(m, 0) = 0
         /\ i < ChunkCount(Len(m.plain)) =>
              /\ OffsetBefore(m, i) = Offset(i)
              /\ OffsetBefore(m, i + 1) = Offset(i) + ChunkLength(i, Len(m.plain))
         /\ ~(i < ChunkCount(Len(m.plain))) => OffsetBefore(m, i) = Len(m.plain)
<1>1. Len(m.plain) \in Nat
  BY DEF Manifest
<1>2. Offset(i) \in Nat /\ (i < ChunkCount(Len(m.plain)) <=> Offset(i) < Len(m.plain))
  BY <1>1, OffsetSteps, ChunkCounted
<1>3. Offset(0) = 0
  BY FormatAssumption DEF Offset
<1>4. i < ChunkCount(Len(m.plain)) =>
        Offset(i) + ChunkLength(i, Len(m.plain))
          = IF Offset(i + 1) < Len(m.plain) THEN Offset(i + 1) ELSE Len(m.plain)
  BY <1>1, ChunkEnds
<1> QED
  BY <1>1, <1>2, <1>3, <1>4 DEF OffsetBefore
-----------------------------------------------------------------------------
(* The broker's own steps.                                                 *)

BrokerOwnStep ==
  ServeStray \/ BrokerFault

BrokerInv == BrokerTypeOK /\ IsFiniteSet(stray)

\* Nothing is stored, nothing is on its way.
LEMMA BrokerInitInv == BrokerInit => BrokerInv
<1>1. IsFiniteSet({}) /\ Cardinality({}) = 0
  BY FS_EmptySet
<1> QED
  BY <1>1, BrokerAssumption DEF BrokerInit, BrokerInv, BrokerTypeOK

\* There may be fewer stray requests, never other ones.
LEMMA FewerStray ==
  ASSUME BrokerInv, NEW S \in SUBSET stray
  PROVE  IsFiniteSet(S) /\ S \subseteq Put /\ Cardinality(S) <= MaxStray
<1>1. IsFiniteSet(S) /\ Cardinality(S) <= Cardinality(stray)
  BY FS_Subset DEF BrokerInv
<1>2. Cardinality(S) \in Nat /\ Cardinality(stray) \in Nat
  BY <1>1, FS_CardinalityType DEF BrokerInv
<1> QED
  BY <1>1, <1>2, BrokerAssumption DEF BrokerInv, BrokerTypeOK

\* A client that gives up leaves at most one request behind.
LEMMA OneMoreStray ==
  ASSUME BrokerInv, Cardinality(stray) < MaxStray, NEW r \in Put
  PROVE  /\ IsFiniteSet(stray \cup {r}) /\ stray \cup {r} \subseteq Put
         /\ Cardinality(stray \cup {r}) <= MaxStray
<1>1. /\ IsFiniteSet(stray \cup {r})
      /\ Cardinality(stray \cup {r}) = IF r \in stray THEN Cardinality(stray)
                                       ELSE Cardinality(stray) + 1
  BY FS_AddElement DEF BrokerInv
<1>2. Cardinality(stray) \in Nat
  BY FS_CardinalityType DEF BrokerInv
<1> QED
  BY <1>1, <1>2, BrokerAssumption DEF BrokerInv, BrokerTypeOK

\* PUT_CHUNK and PUT_MANIFEST store what they carry (broker_server.py:95-105, 126-140).
LEMMA ServeStore ==
  ASSUME BrokerInv, NEW r \in Put, Serve(r)
  PROVE  /\ chunks' \in [Indices -> Ciphertext \cup {Absent, Garbled}]
         /\ manifest' \in Manifest \cup {Absent, Garbled}
         /\ signature' \in {"valid", "invalid", Absent}
         /\ ManifestVerifies' =>
              \/ ManifestVerifies /\ manifest' = manifest
              \/ r.cmd = "PUT_MANIFEST" /\ r.manifest = manifest'
<1>1. CASE r.cmd = "PUT_CHUNK"
  <2>1. r.index \in Indices /\ r.ct \in Ciphertext
    BY <1>1 DEF Put, PutChunk, PutManifest
  <2>2. chunks' = [chunks EXCEPT ![r.index] = r.ct] /\ manifest' = manifest
          /\ signature' = signature
    BY <1>1 DEF Serve, StoreChunk
  <2> QED
    BY <2>1, <2>2 DEF BrokerInv, BrokerTypeOK, ManifestVerifies
<1>2. CASE r.cmd = "PUT_MANIFEST"
  <2>1. r.manifest \in Manifest
    BY <1>2 DEF Put, PutChunk, PutManifest
  <2>2. chunks' = chunks /\ manifest' = r.manifest /\ signature' = "valid"
    BY <1>2 DEF Serve, StoreManifest
  <2> QED
    BY <1>2, <2>1, <2>2 DEF BrokerInv, BrokerTypeOK
<1> QED
  BY <1>1, <1>2 DEF Serve

\* Half a PUT_MANIFEST leaves a manifest that does not verify (broker_server.py:138-139).
LEMMA HalfStored ==
  ASSUME BrokerInv, NEW m \in Manifest, HalfManifest(m)
  PROVE  /\ chunks' \in [Indices -> Ciphertext \cup {Absent, Garbled}]
         /\ manifest' \in Manifest \cup {Absent, Garbled}
         /\ signature' \in {"valid", "invalid", Absent}
         /\ ~ManifestVerifies'
<1>1. chunks' = chunks /\ manifest' = m /\ signature' \in {Absent, "invalid"}
  BY DEF HalfManifest
<1>2. signature' # "valid"
  BY BrokerAssumption DEF HalfManifest
<1> QED
  BY <1>1, <1>2 DEF BrokerInv, BrokerTypeOK, ManifestVerifies

(***************************************************************************)
(* What the broker does on its own, serving late requests or failing,      *)
(* makes no manifest verify but one that did or that a late request        *)
(* carries (broker_server.py:69-140).                                      *)
(***************************************************************************)
THEOREM BrokerStepInv ==
  ASSUME BrokerInv, BrokerOwnStep
  PROVE  /\ BrokerInv'
         /\ stray' \subseteq stray
         /\ ManifestVerifies' =>
              \/ ManifestVerifies /\ manifest' = manifest
              \/ \E r \in stray : r.cmd = "PUT_MANIFEST" /\ r.manifest = manifest'
<1>1. CASE ServeStray
  <2>1. PICK r \in stray : Serve(r) /\ stray' = stray \ {r} /\ UNCHANGED connected
    BY <1>1 DEF ServeStray
  <2>2. r \in Put /\ stray' \in SUBSET stray
    BY <2>1 DEF BrokerInv, BrokerTypeOK
  <2>3. IsFiniteSet(stray') /\ stray' \subseteq Put /\ Cardinality(stray') <= MaxStray
    BY <2>2, FewerStray
  <2> QED
    BY <2>1, <2>2, <2>3, ServeStore DEF BrokerInv, BrokerTypeOK
<1>2. CASE BrokerKilled
  <2>1. stray' = {} /\ connected' = {}
    BY <1>2 DEF BrokerKilled
  <2>2. IsFiniteSet(stray') /\ stray' \subseteq Put /\ Cardinality(stray') <= MaxStray
    BY <2>1, FewerStray
  <2>3. CASE UNCHANGED store
    BY <2>1, <2>2, <2>3 DEF BrokerInv, BrokerTypeOK, store, ManifestVerifies
  <2>4. ASSUME NEW r \in stray, r.cmd = "PUT_MANIFEST", HalfManifest(r.manifest)
        PROVE  BrokerInv' /\ ~ManifestVerifies'
    <3>1. r.manifest \in Manifest
      BY <2>4 DEF Put, PutChunk, PutManifest, BrokerInv, BrokerTypeOK
    <3> QED
      BY <2>1, <2>2, <2>4, <3>1, HalfStored DEF BrokerInv, BrokerTypeOK
  <2> QED
    BY <1>2, <2>1, <2>3, <2>4 DEF BrokerKilled
<1>3. CASE BrokerPowerLoss
  <2>1. stray' = {} /\ connected' = {} /\ manifest' \in Unsynced(manifest)
          /\ signature' \in {signature, IF signature = Absent THEN Absent ELSE "invalid"}
    BY <1>3 DEF BrokerPowerLoss
  <2>2. IsFiniteSet(stray') /\ stray' \subseteq Put /\ Cardinality(stray') <= MaxStray
    BY <2>1, FewerStray
  <2>3. chunks' \in [Indices -> Ciphertext \cup {Absent, Garbled}]
    BY <1>3 DEF BrokerPowerLoss, BrokerInv, BrokerTypeOK
  <2>4. /\ manifest' \in Manifest \cup {Absent, Garbled}
        /\ manifest' \in Manifest => manifest' = manifest
    BY <2>1, GarbledAssumption DEF Unsynced, BrokerInv, BrokerTypeOK
  <2>5. signature' \in {"valid", "invalid", Absent} /\ (signature' = "valid" => signature = "valid")
    BY <2>1 DEF BrokerInv, BrokerTypeOK
  <2> QED
    BY <2>1, <2>2, <2>3, <2>4, <2>5 DEF BrokerInv, BrokerTypeOK, ManifestVerifies
<1>4. CASE \E c \in Clients : Disconnect(c)
  BY <1>4 DEF Disconnect, store, BrokerInv, BrokerTypeOK, ManifestVerifies
<1>5. CASE StrayHalfDone
  <2>1. PICK r \in stray : HalfManifest(r.manifest) /\ r.cmd = "PUT_MANIFEST"
                           /\ stray' = stray \ {r} /\ connected' = connected
    BY <1>5 DEF StrayHalfDone
  <2>2. IsFiniteSet(stray') /\ stray' \subseteq Put /\ Cardinality(stray') <= MaxStray
    BY <2>1, FewerStray
  <2>3. r.manifest \in Manifest
    BY <2>1 DEF Put, PutChunk, PutManifest, BrokerInv, BrokerTypeOK
  <2> QED
    BY <2>1, <2>2, <2>3, HalfStored DEF BrokerInv, BrokerTypeOK
<1> QED
  BY <1>1, <1>2, <1>3, <1>4, <1>5 DEF BrokerOwnStep, BrokerFault
=============================================================================
