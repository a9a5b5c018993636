----------------------- MODULE EnvelopeTransferProofs -----------------------
(***************************************************************************)
(* Theorems about the envelope transfer: it implements AtomicDelivery      *)
(* however its two programs, its broker and its user interleave and fail,  *)
(* and in the documented use every honest upload is complete and accepted. *)
(***************************************************************************)
EXTENDS EnvelopeTransfer, BrokerProofs
-----------------------------------------------------------------------------
(* The inductive invariant.                                                *)

\* A run has a size that some version of the input has, and has done whole
\* chunks of it, one after the other.
UploadInOrder ==
  /\ upPc # "upload" => upHashed = <<>>
  /\ upPc \in UpActive =>
       /\ \E f \in Inputs : upSize = Len(f)
       /\ Len(upHashed) <= upSize
       /\ Len(upHashed) = upSize \/ Len(upHashed) = Offset(Next_i)

\* What a signed manifest lists was published: the one on the broker, and those
\* on their way to it.
SignedIsPublished ==
  /\ published \subseteq FileContents
  /\ ManifestVerifies => manifest.plain \in published
  /\ \A r \in stray : r.cmd = "PUT_MANIFEST" => r.manifest.plain \in published

\* So was what a download goes by, and what it has delivered.
FetchedIsPublished ==
  /\ dnManifest # Absent => dnManifest.plain \in published
  /\ delivered \subseteq published

\* The download writes through the file that has the name, and nobody else does.
PartIsOpen ==
  /\ fd \in [Clients -> {"part", "none"}]
  /\ \A c \in Clients : fd[c] = "part" <=> c = Downloader /\ dnPc \in Writing

\* Where a run has verified the manifest, and not yet failed.
WithManifest == {"begin", "discardState", "mode", "openOld", "openNew", "promoted", "ok"}
                  \cup Receiving

\* The running hash ends where the next chunk begins.
HashedSoFar ==
  /\ dnPc \in {"manifest", "begin", "discardState", "mode", "openOld", "openNew"} =>
       dnHashed = <<>>
  /\ dnPc \in {"manifest", "begin", "discardState"} => dnIndex = 0
  /\ dnPc = "mode" => dnIndex = 0 \/ Covers(dnIndex)
  /\ dnPc = "openNew" => Prefix(dnIndex) = 0
  /\ dnPc = "hash" => Len(dnHashed) < Prefix(dnIndex)
  /\ dnPc = "chunk" => Len(dnHashed) = Prefix(dnIndex)
  /\ dnPc = "save" => Len(dnHashed) = Prefix(dnIndex + 1)
  /\ dnPc = "verify" => Len(dnHashed) = Len(dnManifest.plain)
  /\ HashCoversPartial

\* What is about to be renamed has passed every check, and what was renamed is
\* what the manifest lists.
PromotionIsChecked ==
  /\ dnPc = "promote" => DnVerified /\ DnMayInstall
  /\ dnPc \in {"promoted", "ok"} => dnManifest.plain \in delivered

\* As long as fsync works, what is checked and what is delivered is on the disk.
CheckedIsDurable ==
  ~FsyncMayFail =>
    /\ dnPc \in {"verify", "promote"} => part.synced = Len(part.data)
    /\ Exists(out) => out.synced = Len(out.data)

UploadInv == BrokerInv /\ UpTypeOK /\ UploadInOrder

DownloadInv ==
  /\ DnTypeOK
  /\ dnPc \in WithManifest => dnManifest # Absent
  /\ PartIsOpen
  /\ HashedSoFar
  /\ PromotionIsChecked
  /\ CheckedIsDurable

TransferInv ==
  /\ UploadInv
  /\ DownloadInv
  /\ SignedIsPublished
  /\ FetchedIsPublished

-----------------------------------------------------------------------------
(* The inductive invariant of the documented use.                          *)

\* One session id per upload, and an input nobody edits.
SingleUpload == (\A f, g \in Inputs : f = g) /\ ~ReuseSession

\* And hosts that keep files.
DocumentedUse ==
  /\ SingleUpload
  /\ ~BrokerPowerMayFail /\ ~PowerMayFail /\ ~UnlinkMayFail

\* The one manifest there can be, and what its chunks encrypt to.
Ours == [dek |-> sidecar.dek, plain |-> input]

\* There is one key, that of the sidecar, and nothing before there is one.
OneKey ==
  /\ sidecar # Absent => usedDeks # {}
  /\ upPc \in UpActive => sidecar # Absent /\ upDek = sidecar.dek /\ upSize = Len(input)
  /\ sidecar = Absent => stray = {} /\ manifest = Absent /\ dnManifest = Absent
                          /\ \A i \in Indices : chunks[i] = Absent

\* All there is, and all that is on its way, is part of the one upload.
AllIsOurs ==
  /\ upHashed = SubSeq(input, 1, Len(upHashed))
  /\ sidecar # Absent =>
       /\ \A i \in Indices : chunks[i] \in {Absent, Garbled, Listed(Ours, i)}
       /\ manifest \in {Absent, Garbled, Ours}
       /\ dnManifest \in {Absent, Ours}
       /\ \A r \in stray : IF r.cmd = "PUT_CHUNK" THEN r.ct = Listed(Ours, r.index)
                            ELSE r.manifest = Ours

\* The first n chunks are on the broker.
Have(n) == \A i \in Indices : i < n => chunks[i] # Absent

\* A chunk that is done is there, and all are before there is a manifest.
DoneIsThere ==
  /\ upPc = "upload" => Have(Next_i)
  /\ manifest # Absent \/ dnManifest # Absent \/ (\E r \in stray : r.cmd = "PUT_MANIFEST")
       => Have(ChunkCount(Len(input)))

UploadedInv == OneKey /\ AllIsOurs /\ DoneIsThere

\* The hosts have kept what is not fsynced.
NothingGarbled == nextIndex # Garbled /\ \A i \in Indices : chunks[i] # Garbled

\* The partial file is the beginning of the input, at least the chunks counted.
PartIsPrefix ==
  Exists(part) =>
    /\ Len(part.data) <= Len(input)
    /\ part.data = SubSeq(input, 1, Len(part.data))
    /\ nextIndex \in Nat => OffsetBefore([plain |-> input], nextIndex) <= Len(part.data)

\* A run that opens the partial file has discarded what it does not resume.
StateIsResumed ==
  dnPc \in {"mode", "openOld", "openNew"} => nextIndex \in {Absent, dnIndex}

DocumentedInv == UploadedInv /\ NothingGarbled /\ PartIsPrefix /\ StateIsResumed
-----------------------------------------------------------------------------
(* The uploading program.                                                  *)

\* The next chunk of a run (sender_encrypt_upload.py:193-199).
LEMMA NextChunk ==
  ASSUME UploadInv, upPc = "upload", MoreChunks
  PROVE  /\ Next_i \in Nat /\ Next_i \in Indices
         /\ upSize \in Nat /\ Next_i < ChunkCount(upSize)
         /\ Len(upHashed) = Offset(Next_i)
<1>1. upHashed \in Seq(Byte) /\ Len(upHashed) \in Nat /\ upSize \in Nat
  BY DEF UploadInv, UpTypeOK
<1>2. PICK f \in Inputs : upSize = Len(f)
  BY DEF UploadInv, UploadInOrder, UpActive
<1>3. Next_i \in Nat /\ Next_i < ChunkCount(upSize)
  BY <1>1, ChunkCounted DEF Next_i, MoreChunks
<1>4. Len(upHashed) # upSize
  BY <1>1, <1>3 DEF Next_i
<1>5. Len(upHashed) = Offset(Next_i)
  BY <1>4 DEF UploadInv, UploadInOrder, UpActive
<1>6. Next_i \in Indices
  BY <1>2, <1>3, ChunkIndex
<1> QED
  BY <1>1, <1>3, <1>5, <1>6

\* What a run reads for it, when the file is long enough.
LEMMA NextPlain ==
  ASSUME UploadInv, upPc = "upload", MoreChunks, Readable
  PROVE  /\ Plain \in Seq(Byte) /\ Len(Plain) = ChunkLength(Next_i, upSize)
         /\ SubSeq(input, 1, Offset(Next_i)) \o Plain
              = SubSeq(input, 1, Offset(Next_i) + ChunkLength(Next_i, upSize))
         /\ Cipher \in Ciphertext
<1>1. input \in Seq(Byte) /\ upDek \in Deks
  BY FormatAssumption DEF UploadInv, UpTypeOK, UpActive
<1>2. Next_i \in Nat /\ upSize \in Nat /\ Next_i < ChunkCount(upSize)
  BY NextChunk
<1>3. /\ Plain \in Seq(Byte) /\ Len(Plain) = ChunkLength(Next_i, upSize)
      /\ SubSeq(input, 1, Offset(Next_i)) \o Plain
           = SubSeq(input, 1, Offset(Next_i) + ChunkLength(Next_i, upSize))
  BY <1>1, <1>2, ChunkOfFile DEF Plain, Readable
<1>4. Cipher \in Ciphertext
  BY <1>1, <1>2, <1>3 DEF Cipher, Encrypt, Ciphertext
<1> QED
  BY <1>3, <1>4

\* After it the run has come to the next chunk, or to the end.
LEMMA ChunkDoneOrder ==
  ASSUME UploadInv, upPc = "upload", MoreChunks, Readable, ChunkDone
  PROVE  /\ UpTypeOK' /\ UploadInOrder'
         /\ Len(upHashed') = Offset(Next_i) + ChunkLength(Next_i, upSize)
         /\ Next_i' = Next_i + 1
<1> DEFINE i == Next_i
           n == Offset(i) + ChunkLength(i, upSize)
<1>1. i \in Nat /\ upSize \in Nat /\ i < ChunkCount(upSize) /\ Len(upHashed) = Offset(i)
  BY NextChunk
<1>2. Plain \in Seq(Byte) /\ Len(Plain) = ChunkLength(i, upSize)
  BY NextPlain
<1>3. upHashed' = upHashed \o Plain /\ upHashed \in Seq(Byte)
  BY DEF ChunkDone, UploadInv, UpTypeOK
<1>4. upHashed' \in Seq(Byte) /\ Len(upHashed') = n
  BY <1>1, <1>2, <1>3, ConcatProperties
<1>5. UNCHANGED <<input, sidecar, usedDeks, upPc, upDek, upSize, upOnBroker, published>>
  BY DEF ChunkDone
<1>6. UpTypeOK'
  BY <1>4, <1>5 DEF UploadInv, UpTypeOK
<1>7. /\ Offset(i) \in Nat /\ Offset(i + 1) \in Nat /\ Offset(i) < upSize
      /\ ChunkLength(i, upSize) \in Nat
      /\ n = IF Offset(i + 1) < upSize THEN Offset(i + 1) ELSE upSize
  BY <1>1, ChunkEnds
<1>8. Next_i' = ChunkCount(n)
  BY <1>4 DEF Next_i
<1>9. Next_i' = i + 1
  <2>1. CASE n = Offset(i + 1)
    BY <1>1, <1>8, <2>1, ChunksBeforeOffset
  <2>2. CASE n = upSize /\ upSize <= Offset(i + 1)
    <3>1. i < ChunkCount(n) /\ ChunkCount(n) \in Nat
      BY <1>1, <2>2, ChunkCounted
    <3>2. ~(i + 1 < ChunkCount(n))
      BY <1>1, <1>7, <2>2, ChunkCounted
    <3> QED
      BY <1>1, <1>8, <3>1, <3>2
  <2> QED
    BY <1>1, <1>7, <2>1, <2>2
<1>10. Len(upHashed') = upSize \/ Len(upHashed') = Offset(Next_i')
  BY <1>4, <1>7, <1>9
<1>11. UploadInOrder'
  BY <1>1, <1>4, <1>5, <1>7, <1>10 DEF UploadInv, UploadInOrder, UpActive
<1> QED
  BY <1>4, <1>6, <1>9, <1>11

\* After the last chunk a run has hashed as many bytes as the file had.
LEMMA WholeFile ==
  ASSUME UploadInv, upPc = "upload", ~MoreChunks
  PROVE  /\ Len(upHashed) = upSize /\ upHashed \in FileContents
         /\ Signed \in Manifest
<1>1. upHashed \in Seq(Byte) /\ Len(upHashed) \in Nat /\ upSize \in Nat /\ upDek \in Deks
  BY DEF UploadInv, UpTypeOK, UpActive
<1>2. PICK f \in Inputs : upSize = Len(f)
  BY DEF UploadInv, UploadInOrder, UpActive
<1>3. Next_i \in Nat /\ ChunkCount(upSize) \in Nat /\ ~(Next_i < ChunkCount(upSize))
  BY <1>1, ChunkCounted DEF Next_i, MoreChunks
<1>4. ~(Offset(Next_i) < upSize)
  BY <1>1, <1>3, ChunkCounted
<1>5. Len(upHashed) <= upSize /\ (Len(upHashed) = upSize \/ Len(upHashed) = Offset(Next_i))
  BY DEF UploadInv, UploadInOrder, UpActive
<1>6. Len(upHashed) = upSize
  BY <1>1, <1>4, <1>5
<1>7. upHashed \in [1..Len(f) -> Byte]
  BY <1>1, <1>2, <1>6, LenProperties
<1> QED
  BY <1>1, <1>2, <1>6, <1>7 DEF FileContents, Signed, Manifest

\* Nothing is stored or sent: only connections may come and go.
LEMMA BrokerUntouched ==
  ASSUME BrokerInv, UNCHANGED <<store, stray>>, connected' \subseteq Clients
  PROVE  BrokerInv' /\ ManifestVerifies' = ManifestVerifies
BY DEF BrokerInv, BrokerTypeOK, store, ManifestVerifies

\* What was signed before still is published.
LEMMA NothingSigned ==
  ASSUME SignedIsPublished, UNCHANGED <<manifest, signature, stray>>, UNCHANGED published
  PROVE  SignedIsPublished'
BY DEF SignedIsPublished, ManifestVerifies

\* A run that ends (SystemExit, an exception, or exit code 0).
LEMMA UpExitInv ==
  ASSUME UploadInv, NEW state \in {"off", "ok"}, UpExit(state),
         UNCHANGED <<input, sidecar, usedDeks>>, published' \subseteq Seq(Byte)
  PROVE  UpTypeOK' /\ UploadInOrder' /\ connected' \subseteq Clients
BY DEF UploadInv, BrokerInv, BrokerTypeOK, UpExit, UpTypeOK, UploadInOrder, UpActive

\* A run that ends without having stored or sent anything.
LEMMA UpLeaves ==
  ASSUME UploadInv, SignedIsPublished, UpExit("off"),
         UNCHANGED <<input, sidecar, usedDeks, published, store, stray>>
  PROVE  UploadInv' /\ SignedIsPublished'
<1>1. published' \subseteq Seq(Byte)
  BY DEF UploadInv, UpTypeOK
<1>2. UpTypeOK' /\ UploadInOrder' /\ connected' \subseteq Clients
  BY <1>1, UpExitInv
<1>3. BrokerInv'
  BY <1>2, BrokerUntouched DEF UploadInv
<1> QED
  BY <1>2, <1>3, NothingSigned DEF UploadInv, store

\* A run begins (sender_encrypt_upload.py:128-180).
LEMMA UpBeginInv ==
  ASSUME UploadInv, SignedIsPublished, NEW dek \in Deks, UpBegin(dek),
         sidecar' \in Sidecar, usedDeks' \subseteq Deks
  PROVE  UploadInv' /\ SignedIsPublished' /\ UNCHANGED published
<1>1. dek # Absent
  BY SidecarAssumption
<1>2. input \in Inputs /\ input \in Seq(Byte) /\ Len(input) \in Nat
  BY FormatAssumption DEF UploadInv, UpTypeOK
<1>3. UpTypeOK'
  BY <1>1, <1>2 DEF UpBegin, UploadInv, UpTypeOK, UpActive
<1>4. UploadInOrder'
  <2>1. upHashed' = <<>> /\ Len(<<>>) = 0
    BY DEF UpBegin, UploadInv, UploadInOrder
  <2>2. Next_i' = ChunkCount(Offset(0)) /\ Offset(0) = 0
    BY <2>1, FormatAssumption DEF Next_i, Offset
  <2>3. Offset(Next_i') = 0
    BY <2>2, ChunksBeforeOffset
  <2> QED
    BY <1>2, <2>1, <2>3 DEF UpBegin, UploadInOrder
<1>5. connected' \subseteq Clients
  BY SenderAssumption DEF UpBegin, UploadInv, BrokerInv, BrokerTypeOK
<1>6. BrokerInv'
  BY <1>5, BrokerUntouched DEF UpBegin, UploadInv
<1> QED
  BY <1>3, <1>4, <1>6, NothingSigned DEF UploadInv, UpBegin, store

\* UpStart and UpResume.
LEMMA UploadBegins ==
  ASSUME UploadInv, SignedIsPublished, Upload
  PROVE  UploadInv' /\ SignedIsPublished' /\ UNCHANGED published
<1>1. Len(input) \in Nat
  BY FormatAssumption DEF UploadInv, UpTypeOK
<1>2. ASSUME NEW dek \in Deks, UpStart(dek)
      PROVE  UploadInv' /\ SignedIsPublished' /\ UNCHANGED published
  <2>1. sidecar' \in Sidecar /\ usedDeks' \subseteq Deks /\ UpBegin(dek)
    BY <1>1, <1>2 DEF UpStart, Sidecar, UploadInv, UpTypeOK
  <2> QED
    BY <2>1, UpBeginInv
<1>3. CASE UpResume
  <2>1. sidecar \in Sidecar
    BY <1>3 DEF UpResume, UploadInv, UpTypeOK
  <2>2. ResumeDek \in Deks /\ sidecar' \in Sidecar /\ usedDeks' \subseteq Deks
          /\ UpBegin(ResumeDek)
    BY <1>3, <2>1 DEF UpResume, ResumeDek, Sidecar, UploadInv, UpTypeOK
  <2> QED
    BY <2>2, UpBeginInv
<1> QED
  BY <1>2, <1>3 DEF Upload

\* LIST (sender_encrypt_upload.py:186).
LEMMA ListInv ==
  ASSUME UploadInv, SignedIsPublished, UpList
  PROVE  UploadInv' /\ SignedIsPublished' /\ UNCHANGED published
<1>1. UNCHANGED <<input, sidecar, usedDeks, upDek, upSize, upHashed, published, store,
                  stray, connected>>
  BY DEF UpList, brokerVars
<1>2. upPc = "list" /\ upPc' = "upload" /\ upOnBroker' \subseteq Indices
  BY DEF UpList, Stored
<1>3. UpTypeOK' /\ UploadInOrder'
  BY <1>1, <1>2 DEF UploadInv, UpTypeOK, UploadInOrder, UpActive, Next_i
<1>4. BrokerInv'
  BY <1>1, BrokerUntouched DEF UploadInv, BrokerInv, BrokerTypeOK
<1> QED
  BY <1>1, <1>3, <1>4, NothingSigned DEF UploadInv, store

\* The broker has the chunk and it is the same (sender_encrypt_upload.py:200-206).
LEMMA CompareInv ==
  ASSUME UploadInv, SignedIsPublished, UpCompare
  PROVE  UploadInv' /\ SignedIsPublished' /\ UNCHANGED published
<1>1. UpTypeOK' /\ UploadInOrder'
  BY ChunkDoneOrder DEF UpCompare
<1>2. UNCHANGED <<published, store, stray, connected>>
  BY DEF UpCompare, ChunkDone, brokerVars
<1>3. BrokerInv'
  BY <1>2, BrokerUntouched DEF UploadInv, BrokerInv, BrokerTypeOK
<1> QED
  BY <1>1, <1>2, <1>3, NothingSigned DEF UploadInv, store

\* PUT_CHUNK (sender_encrypt_upload.py:208-212).
LEMMA PutInv ==
  ASSUME UploadInv, SignedIsPublished, UpPut
  PROVE  UploadInv' /\ SignedIsPublished' /\ UNCHANGED published
<1>1. UpTypeOK' /\ UploadInOrder'
  BY ChunkDoneOrder DEF UpPut
<1>2. Cipher \in Ciphertext
  BY NextPlain DEF UpPut
<1>3. chunks' = [chunks EXCEPT ![Next_i] = Cipher]
        /\ UNCHANGED <<published, manifest, signature, stray, connected>>
  BY DEF UpPut, StoreChunk, ChunkDone
<1>4. BrokerInv'
  BY <1>2, <1>3 DEF UploadInv, BrokerInv, BrokerTypeOK
<1> QED
  BY <1>1, <1>3, <1>4, NothingSigned DEF UploadInv

\* PUT_MANIFEST is carried out, with or without its second half, and the run ends.
Publishing == UpPublish \/ UpPublishCut \/ UpPublishHalf

LEMMA PublishingEffect ==
  ASSUME Publishing
  PROVE  /\ upPc = "upload" /\ ~MoreChunks
         /\ published' = published \cup {upHashed}
         /\ manifest' = Signed
         /\ UNCHANGED <<input, sidecar, usedDeks, chunks, stray>>
         /\ \E state \in {"off", "ok"} : UpExit(state)
         /\ signature' = "valid" \/ signature' \in {Absent, "invalid"}
<1>1. PICK state \in {"off", "ok"} : UpEnd(state)
  BY DEF Publishing, UpPublish, UpPublishCut, UpPublishHalf
<1>2. /\ manifest' = Signed /\ UNCHANGED <<sidecar, chunks>>
      /\ signature' = "valid" \/ signature' \in {Absent, "invalid"}
  BY DEF Publishing, UpPublish, UpPublishCut, UpPublishHalf, StoreManifest, HalfManifest
<1> QED
  BY <1>1, <1>2 DEF UpEnd

\* PUT_MANIFEST (sender_encrypt_upload.py:227-250).
LEMMA PublishInv ==
  ASSUME UploadInv, SignedIsPublished, Publishing
  PROVE  /\ UploadInv' /\ SignedIsPublished'
         /\ upHashed \in FileContents /\ published' = published \cup {upHashed}
<1>1. upHashed \in FileContents /\ Signed \in Manifest /\ upHashed \in Seq(Byte)
  BY PublishingEffect, WholeFile DEF UploadInv, UpTypeOK
<1>2. /\ manifest' = Signed /\ signature' \in {"valid", "invalid", Absent}
      /\ published' = published \cup {upHashed}
      /\ UNCHANGED <<input, sidecar, usedDeks, chunks, stray>>
      /\ \E state \in {"off", "ok"} : UpExit(state)
  BY PublishingEffect
<1>3. published' \subseteq Seq(Byte)
  BY <1>1, <1>2 DEF UploadInv, UpTypeOK
<1>4. UpTypeOK' /\ UploadInOrder' /\ connected' \subseteq Clients
  BY <1>2, <1>3, UpExitInv
<1>5. BrokerInv'
  BY <1>1, <1>2, <1>4 DEF UploadInv, BrokerInv, BrokerTypeOK
<1>6. manifest'.plain = upHashed
  BY <1>2 DEF Signed
<1>7. SignedIsPublished'
  BY <1>1, <1>2, <1>6 DEF SignedIsPublished
<1> QED
  BY <1>1, <1>2, <1>4, <1>5, <1>7 DEF UploadInv

\* What a run may leave behind: a chunk of the file, or the manifest of all.
LEMMA OutstandingPut ==
  ASSUME UploadInv, NEW r \in Outstanding
  PROVE  /\ r \in Put /\ upPc = "upload"
         /\ \/ /\ r = [cmd |-> "PUT_MANIFEST", manifest |-> Signed]
               /\ ~MoreChunks
            \/ /\ r = [cmd |-> "PUT_CHUNK", index |-> Next_i, ct |-> Cipher]
               /\ MoreChunks /\ Readable
<1>1. upPc = "upload"
  BY DEF Outstanding
<1>2. CASE ~MoreChunks
  <2>1. r = [cmd |-> "PUT_MANIFEST", manifest |-> Signed]
    BY <1>1, <1>2 DEF Outstanding
  <2>2. Signed \in Manifest
    BY <1>1, <1>2, WholeFile
  <2> QED
    BY <1>1, <1>2, <2>1, <2>2 DEF Put, PutManifest
<1>3. CASE MoreChunks
  <2>1. Readable /\ r = [cmd |-> "PUT_CHUNK", index |-> Next_i, ct |-> Cipher]
    BY <1>1, <1>3 DEF Outstanding
  <2>2. Next_i \in Indices /\ Cipher \in Ciphertext
    BY <1>1, <1>3, <2>1, NextChunk, NextPlain
  <2> QED
    BY <1>1, <1>3, <2>1, <2>2 DEF Put, PutChunk
<1> QED
  BY <1>2, <1>3

\* Killed or timed out after a request was sent.
LEMMA FailSentInv ==
  ASSUME UploadInv, SignedIsPublished, UpFailSent
  PROVE  /\ UploadInv' /\ SignedIsPublished'
         /\ \/ UNCHANGED published
            \/ upHashed \in FileContents /\ published' = published \cup {upHashed}
<1>1. PICK r \in Outstanding :
        /\ stray' = stray \cup {r}
        /\ published' = IF r.cmd = "PUT_MANIFEST" THEN published \cup {upHashed}
                        ELSE published
  BY DEF UpFailSent
<1>2. UpExit("off") /\ UNCHANGED <<input, sidecar, usedDeks, store>>
        /\ Cardinality(stray) < MaxStray
  BY DEF UpFailSent
<1>3. r \in Put /\ upPc = "upload"
  BY OutstandingPut
<1>4. r.cmd = "PUT_MANIFEST" => r.manifest.plain = upHashed /\ upHashed \in FileContents
  <2>1. CASE ~MoreChunks /\ r = [cmd |-> "PUT_MANIFEST", manifest |-> Signed]
    BY <1>3, <2>1, WholeFile DEF Signed
  <2>2. CASE r = [cmd |-> "PUT_CHUNK", index |-> Next_i, ct |-> Cipher]
    BY <2>2
  <2> QED
    BY <2>1, <2>2, OutstandingPut
<1>5. published' \subseteq Seq(Byte) /\ published \subseteq published'
  BY <1>1 DEF UploadInv, UpTypeOK
<1>6. UpTypeOK' /\ UploadInOrder' /\ connected' \subseteq Clients
  BY <1>2, <1>5, UpExitInv
<1>7. BrokerInv'
  <2>1. BrokerInv
    BY DEF UploadInv
  <2>2. IsFiniteSet(stray') /\ stray' \subseteq Put /\ Cardinality(stray') <= MaxStray
    BY <1>1, <1>2, <1>3, <2>1, OneMoreStray
  <2> QED
    BY <1>2, <1>6, <2>1, <2>2 DEF BrokerInv, BrokerTypeOK, store
<1>8. SignedIsPublished'
  BY <1>1, <1>2, <1>4, <1>5 DEF SignedIsPublished, ManifestVerifies, store
<1> QED
  BY <1>1, <1>4, <1>6, <1>7, <1>8 DEF UploadInv

\* The steps of the uploading program, of its user and its faults.
UploadAct == Upload \/ EditInput \/ UpStep \/ UpFault

(***************************************************************************)
(* Whatever the uploading program does, and wherever it ends, what is      *)
(* signed is a content as long as a version of the input                   *)
(* (sender_encrypt_upload.py:128-245).                                     *)
(***************************************************************************)
THEOREM UploadActInv ==
  ASSUME UploadInv, SignedIsPublished, UploadAct
  PROVE  /\ UploadInv' /\ SignedIsPublished'
         /\ \/ UNCHANGED published
            \/ \E c \in FileContents : published' = published \cup {c}
<1>1. CASE EditInput
  <2>1. input' \in Inputs /\ UNCHANGED <<sidecar, usedDeks, upPc, upLocal, published,
                                         store, stray, connected>>
    BY <1>1 DEF EditInput, brokerVars
  <2>2. UpTypeOK' /\ UploadInOrder'
    BY <2>1 DEF UploadInv, UpTypeOK, UploadInOrder, upLocal, Next_i
  <2>3. BrokerInv'
    BY <2>1, BrokerUntouched DEF UploadInv, BrokerInv, BrokerTypeOK
  <2> QED
    BY <2>1, <2>2, <2>3, NothingSigned DEF UploadInv, store
<1>2. CASE UpMismatch \/ UpShortRead \/ UpFail
  BY <1>2, UpLeaves DEF UpMismatch, UpShortRead, UpFail
<1> QED
  BY <1>1, <1>2, UploadBegins, ListInv, CompareInv, PutInv, PublishInv, FailSentInv
  DEF UploadAct, UpStep, UpFault, Publishing
-----------------------------------------------------------------------------
(* The downloading program.                                                *)

\* The type of the open files, from which of them there are.
LEMMA OpenFiles ==
  ASSUME PartIsOpen'
  PROVE  /\ fd' \in [Clients -> {"part", "out", "gone", "none"}]
         /\ (fd'[Downloader] = "none") = (dnPc' \notin Writing)
BY ReceiverAssumption DEF PartIsOpen

\* A run opens the partial file, closes it, or does neither.
LEMMA OpenOrClosed ==
  ASSUME PartIsOpen,
         \/ fd' = Opened /\ dnPc' \in Writing
         \/ fd' = Closed /\ dnPc' \notin Writing
         \/ fd' = fd /\ (dnPc \in Writing <=> dnPc' \in Writing)
  PROVE  PartIsOpen'
<1>1. CASE fd' = Opened /\ dnPc' \in Writing
  BY <1>1, ReceiverAssumption DEF PartIsOpen, Opened
<1>2. CASE fd' = Closed /\ dnPc' \notin Writing
  BY <1>2, ReceiverAssumption DEF PartIsOpen, Closed
<1>3. CASE fd' = fd /\ (dnPc \in Writing <=> dnPc' \in Writing)
  BY <1>3 DEF PartIsOpen
<1> QED
  BY <1>1, <1>2, <1>3

\* Removing or renaming a file that no run has open changes no open file.
LEMMA NobodyWrites ==
  ASSUME PartIsOpen, dnPc \notin Writing
  PROVE  FdsUnlinked = fd /\ FdsRenamed = fd
BY DEF PartIsOpen, FdsUnlinked, FdsRenamed

\* Where no file is being received there is only its type to show.
LEMMA IdleInv ==
  ASSUME DownloadInv,
         dnPc' \in {"off", "fail", "failState"}, PartIsOpen',
         part' \in File \cup {Absent}, out' \in File \cup {Absent},
         nextIndex' \in Nat \cup {Absent, Garbled}, UNCHANGED delivered,
         dnResume' \in BOOLEAN, dnManifest' \in Manifest \cup {Absent},
         dnIndex' \in Nat, dnHashed' \in Seq(Byte),
         ~FsyncMayFail => (Exists(out) => out.synced = Len(out.data))'
  PROVE  DownloadInv'
<1>1. DnTypeOK'
  <2>1. /\ fd' \in [Clients -> {"part", "out", "gone", "none"}]
        /\ (fd'[Downloader] = "none") = (dnPc' \notin Writing)
    BY ReceiverAssumption DEF PartIsOpen
  <2> QED
    BY <2>1 DEF DownloadInv, DnTypeOK, Idle, DnActive
<1>2. HashedSoFar' /\ PromotionIsChecked' /\ CheckedIsDurable'
  BY DEF HashedSoFar, HashCoversPartial, PromotionIsChecked, CheckedIsDurable, Receiving,
         Writing
<1>3. dnPc' \notin WithManifest
  BY DEF WithManifest, Receiving, Writing
<1> QED
  BY <1>1, <1>2, <1>3 DEF DownloadInv

\* A process that has ended keeps no locals.
LEMMA Forgotten ==
  ASSUME DnForget
  PROVE  /\ dnPc' = "off" /\ dnResume' \in BOOLEAN /\ dnManifest' \in Manifest \cup {Absent}
         /\ dnIndex' \in Nat /\ dnHashed' \in Seq(Byte) /\ dnManifest' = Absent
<1>1. dnPc' = "off" /\ dnManifest' = Absent /\ dnIndex' = 0 /\ dnHashed' = <<>>
  BY DEF DnForget
<1>2. dnResume' \in BOOLEAN
  BY Zenon DEF DnForget
<1> QED
  BY <1>1, <1>2

\* SystemExit (receiver_download_decrypt.py:286-294).
LEMMA StopInv == ASSUME DownloadInv, DnStop PROVE DownloadInv'
<1>1. DnForget /\ fd' = Closed /\ UNCHANGED <<part, nextIndex, out, delivered>>
  BY DEF DnStop, DnExit
<1>2. PartIsOpen'
  BY <1>1, Forgotten, OpenOrClosed DEF DownloadInv, Writing
<1>3. part' \in File \cup {Absent} /\ out' \in File \cup {Absent}
        /\ nextIndex' \in Nat \cup {Absent, Garbled}
        /\ (~FsyncMayFail => (Exists(out) => out.synced = Len(out.data))')
  BY <1>1 DEF DownloadInv, DnTypeOK, CheckedIsDurable
<1> QED
  BY <1>1, <1>2, <1>3, Forgotten, IdleInv

\* Any other exception (receiver_download_decrypt.py:286-289).
LEMMA RaiseInv == ASSUME DownloadInv, DnRaise PROVE DownloadInv'
<1>1. /\ dnPc' = "fail" /\ fd' = Closed
      /\ UNCHANGED <<part, nextIndex, out, delivered, dnResume, dnManifest, dnIndex, dnHashed>>
  BY DEF DnRaise, dnLocal
<1>2. PartIsOpen'
  BY <1>1, OpenOrClosed DEF DownloadInv, Writing
<1> QED
  BY <1>1, <1>2, IdleInv DEF DownloadInv, DnTypeOK, CheckedIsDurable

\* A run begins (receiver_download_decrypt.py:126-138).
LEMMA StartInv == ASSUME DownloadInv, Download PROVE DownloadInv'
<1>1. PICK resume \in BOOLEAN : DnStart(resume)
  BY DEF Download
<1>2. /\ dnPc \in Idle /\ dnPc' = "manifest" /\ dnResume' = resume /\ dnManifest' = Absent
      /\ dnIndex' = 0 /\ dnHashed' = <<>>
      /\ UNCHANGED <<part, nextIndex, out, fd, delivered>>
  BY <1>1 DEF DnStart, dnDisk
<1>3. PartIsOpen'
  BY <1>2, OpenOrClosed DEF DownloadInv, Writing, Idle
<1>4. DnTypeOK'
  BY <1>2, <1>3 DEF DownloadInv, DnTypeOK, DnActive, Writing, Idle
<1>5. HashedSoFar' /\ PromotionIsChecked' /\ CheckedIsDurable' /\ dnPc' \notin WithManifest
  BY <1>2 DEF DownloadInv, HashedSoFar, HashCoversPartial, PromotionIsChecked,
              CheckedIsDurable, WithManifest, Receiving, Writing
<1> QED
  BY <1>3, <1>4, <1>5 DEF DownloadInv

\* GET_MANIFEST (receiver_download_decrypt.py:139-164).
LEMMA GetManifestInv == ASSUME DownloadInv, DnGetManifest PROVE DownloadInv'
<1>1. /\ dnPc = "manifest" /\ dnPc' = "begin" /\ dnManifest' = manifest
      /\ manifest \in Manifest
      /\ UNCHANGED <<part, nextIndex, out, fd, delivered, dnResume, dnIndex, dnHashed>>
  BY DEF DnGetManifest, ManifestVerifies, dnDisk
<1>2. dnManifest' # Absent
  BY <1>1, GarbledAssumption
<1>3. PartIsOpen'
  BY <1>1, OpenOrClosed DEF DownloadInv, Writing
<1>4. DnTypeOK'
  BY <1>1, <1>3 DEF DownloadInv, DnTypeOK, DnActive, Writing
<1>5. HashedSoFar' /\ PromotionIsChecked' /\ CheckedIsDurable'
  BY <1>1 DEF DownloadInv, HashedSoFar, HashCoversPartial, PromotionIsChecked,
              CheckedIsDurable, Receiving, Writing
<1> QED
  BY <1>2, <1>3, <1>4, <1>5 DEF DownloadInv

\* Discarding what an earlier run left (receiver_download_decrypt.py:179-187).
LEMMA DiscardInv == ASSUME DownloadInv, DnDiscardOld \/ DnDiscardState PROVE DownloadInv'
<1>1. CASE DnDiscardOld
  <2>1. /\ dnPc = "begin" /\ dnPc' = "discardState" /\ part' \in {part, Absent}
        /\ fd' = IF part' = Absent THEN FdsUnlinked ELSE fd
        /\ UNCHANGED <<nextIndex, out, delivered, dnResume, dnManifest, dnIndex, dnHashed>>
    BY <1>1 DEF DnDiscardOld, UnlinkPart, Unlinked, dnLocal
  <2>2. fd' = fd
    BY <2>1, NobodyWrites DEF DownloadInv, Writing
  <2>3. PartIsOpen'
    BY <2>1, <2>2, OpenOrClosed DEF DownloadInv, Writing
  <2>4. DnTypeOK'
    BY <2>1, <2>2, <2>3 DEF DownloadInv, DnTypeOK, DnActive, Writing
  <2>5. HashedSoFar' /\ PromotionIsChecked' /\ CheckedIsDurable' /\ dnManifest' # Absent
    BY <2>1 DEF DownloadInv, HashedSoFar, HashCoversPartial, PromotionIsChecked,
                CheckedIsDurable, Receiving, Writing, WithManifest
  <2> QED
    BY <2>3, <2>4, <2>5 DEF DownloadInv
<1>2. CASE DnDiscardState
  <2>1. /\ dnPc = "discardState" /\ dnPc' = "mode" /\ nextIndex' \in {nextIndex, Absent}
        /\ UNCHANGED <<part, fd, out, delivered, dnResume, dnManifest, dnIndex, dnHashed>>
    BY <1>2 DEF DnDiscardState, Unlinked, dnLocal
  <2>2. PartIsOpen'
    BY <2>1, OpenOrClosed DEF DownloadInv, Writing
  <2>3. DnTypeOK'
    BY <2>1, <2>2 DEF DownloadInv, DnTypeOK, DnActive, Writing
  <2>4. HashedSoFar' /\ PromotionIsChecked' /\ CheckedIsDurable' /\ dnManifest' # Absent
    BY <2>1 DEF DownloadInv, HashedSoFar, HashCoversPartial, PromotionIsChecked,
                CheckedIsDurable, Receiving, Writing, WithManifest
  <2> QED
    BY <2>2, <2>3, <2>4 DEF DownloadInv
<1> QED
  BY <1>1, <1>2

\* Resuming (receiver_download_decrypt.py:166-185).
LEMMA ResumableInv == ASSUME DownloadInv, DnResumable PROVE DownloadInv'
<1>1. /\ dnPc = "begin" /\ dnPc' = "mode" /\ nextIndex \in Nat /\ dnIndex' = nextIndex
      /\ Covers(nextIndex)
      /\ UNCHANGED <<part, nextIndex, fd, out, delivered, dnResume, dnManifest, dnHashed>>
  BY DEF DnResumable, dnDisk
<1>2. PartIsOpen'
  BY <1>1, OpenOrClosed DEF DownloadInv, Writing
<1>3. DnTypeOK'
  BY <1>1, <1>2 DEF DownloadInv, DnTypeOK, DnActive, Writing
<1>4. Covers(dnIndex)'
  BY <1>1 DEF Covers, Prefix
<1>5. HashedSoFar' /\ PromotionIsChecked' /\ CheckedIsDurable' /\ dnManifest' # Absent
  BY <1>1, <1>4 DEF DownloadInv, HashedSoFar, HashCoversPartial, PromotionIsChecked,
                    CheckedIsDurable, Receiving, Writing, WithManifest
<1> QED
  BY <1>2, <1>3, <1>5 DEF DownloadInv

\* Choosing the mode (receiver_download_decrypt.py:192).
LEMMA ModeInv == ASSUME DownloadInv, DnMode PROVE DownloadInv'
<1>1. /\ dnPc = "mode"
      /\ dnPc' = IF Exists(part) /\ part.data # <<>> THEN "openOld" ELSE "openNew"
      /\ UNCHANGED <<part, nextIndex, fd, out, delivered, dnResume, dnManifest, dnIndex,
                     dnHashed>>
  BY DEF DnMode, dnDisk, dnLocal
<1>2. PartIsOpen'
  BY <1>1, OpenOrClosed DEF DownloadInv, Writing
<1>3. DnTypeOK'
  BY <1>1, <1>2 DEF DownloadInv, DnTypeOK, DnActive, Writing
<1>4. dnManifest \in Manifest /\ dnManifest # Absent
  BY <1>1 DEF DownloadInv, DnTypeOK, WithManifest
<1>5. dnPc' = "openNew" => Prefix(dnIndex) = 0
  <2>1. dnIndex \in Nat /\ (dnIndex = 0 \/ Covers(dnIndex)) /\ part \in File \cup {Absent}
    BY <1>1 DEF DownloadInv, DnTypeOK, HashedSoFar
  <2>2. Prefix(dnIndex) \in Nat /\ Prefix(0) = 0
    BY <1>4, <2>1, PrefixOfChunks DEF Prefix
  <2>3. dnPc' = "openNew" /\ Covers(dnIndex) => Prefix(dnIndex) <= 0
    BY <1>1 DEF Covers
  <2> QED
    BY <2>1, <2>2, <2>3
<1>6. HashedSoFar' /\ PromotionIsChecked' /\ CheckedIsDurable'
  BY <1>1, <1>5 DEF DownloadInv, HashedSoFar, HashCoversPartial, PromotionIsChecked,
                    CheckedIsDurable, Receiving, Writing, Prefix
<1> QED
  BY <1>1, <1>2, <1>3, <1>4, <1>6 DEF DownloadInv

\* Opening the partial file (receiver_download_decrypt.py:194-204).
LEMMA OpenInv == ASSUME DownloadInv, DnOpenNew \/ DnOpenOld PROVE DownloadInv'
<1>1. CASE DnOpenNew
  <2>1. /\ dnPc = "openNew" /\ dnPc' = "chunk" /\ part' = EmptyFile /\ fd' = Opened
        /\ UNCHANGED <<nextIndex, out, delivered, dnResume, dnManifest, dnIndex, dnHashed>>
    BY <1>1 DEF DnOpenNew, dnLocal
  <2>2. PartIsOpen'
    BY <2>1, OpenOrClosed DEF DownloadInv, Writing
  <2>3. EmptyFile \in File /\ Exists(EmptyFile) /\ EmptyFile.data = <<>> /\ Len(<<>>) = 0
    BY EmptyFileFacts
  <2>4. DnTypeOK'
    BY <2>1, <2>2, <2>3, OpenFiles DEF DownloadInv, DnTypeOK, DnActive, Receiving, Writing
  <2>5. dnHashed' = <<>> /\ Len(dnHashed') = Prefix(dnIndex)' /\ dnManifest' # Absent
    BY <2>1, <2>3 DEF DownloadInv, HashedSoFar, Prefix, WithManifest
  <2>6. SubSeq(part'.data, 1, Len(dnHashed')) = dnHashed' /\ Len(dnHashed') <= Len(part'.data)
          /\ Exists(part')
    BY <2>1, <2>3, <2>5, SubSeqEmpty
  <2>7. HashedSoFar'
    BY <2>1, <2>5, <2>6 DEF HashedSoFar, HashCoversPartial
  <2>8. PromotionIsChecked' /\ CheckedIsDurable'
    BY <2>1 DEF DownloadInv, PromotionIsChecked, CheckedIsDurable
  <2> QED
    BY <2>2, <2>4, <2>5, <2>7, <2>8 DEF DownloadInv
<1>2. CASE DnOpenOld
  <2>1. /\ dnPc = "openOld" /\ dnPc' = AfterHashing(0) /\ fd' = Opened /\ Exists(part)
        /\ UNCHANGED <<part, nextIndex, out, delivered, dnResume, dnManifest, dnIndex, dnHashed>>
    BY <1>2 DEF DnOpenOld, dnLocal
  <2>2. dnPc' \in {"hash", "chunk"}
    BY <2>1 DEF AfterHashing
  <2>3. PartIsOpen'
    BY <2>1, <2>2, OpenOrClosed DEF DownloadInv, Writing
  <2>4. dnManifest \in Manifest /\ dnManifest # Absent /\ dnIndex \in Nat /\ part \in File
    BY <2>1 DEF DownloadInv, DnTypeOK, WithManifest, Exists
  <2>5. Prefix(dnIndex) \in Nat /\ Len(part.data) \in Nat
    BY <2>4, PrefixOfChunks DEF Prefix, File
  <2>6. DnTypeOK'
    BY <2>1, <2>2, <2>3, OpenFiles DEF DownloadInv, DnTypeOK, DnActive, Receiving, Writing
  <2>7. dnHashed' = <<>> /\ Len(<<>>) = 0 /\ SubSeq(part.data, 1, 0) = <<>>
    BY <2>1, <2>4, SubSeqEmpty DEF DownloadInv, HashedSoFar, File
  <2>8. /\ dnPc' = "hash" => Len(dnHashed') < Prefix(dnIndex)'
        /\ dnPc' = "chunk" => Len(dnHashed') = Prefix(dnIndex)'
    BY <2>1, <2>5, <2>7 DEF AfterHashing, Prefix
  <2>9. HashedSoFar'
    BY <2>1, <2>2, <2>5, <2>7, <2>8 DEF HashedSoFar, HashCoversPartial
  <2>10. PromotionIsChecked' /\ CheckedIsDurable'
    BY <2>1, <2>2 DEF DownloadInv, PromotionIsChecked, CheckedIsDurable
  <2> QED
    BY <2>1, <2>3, <2>4, <2>6, <2>9, <2>10 DEF DownloadInv
<1> QED
  BY <1>1, <1>2

\* A unit of the prefix is read and hashed (receiver_download_decrypt.py:196-204).
LEMMA HashInv == ASSUME DownloadInv, DnHash PROVE DownloadInv'
<1> DEFINE n == Len(dnHashed)
<1>1. /\ dnPc = "hash" /\ dnPc' = AfterHashing(n + 1)
      /\ UNCHANGED <<part, nextIndex, out, delivered, fd, dnResume, dnManifest, dnIndex>>
  BY DEF DnHash, dnDisk
<1>2. PICK b \in Byte : Reads(n + 1, b) /\ dnHashed' = Append(dnHashed, b)
  BY DEF DnHash
<1>3. dnPc' \in {"hash", "chunk"}
  BY <1>1 DEF AfterHashing
<1>4. /\ part \in File /\ Exists(part) /\ dnHashed \in Seq(Byte) /\ n \in Nat
      /\ dnHashed = SubSeq(part.data, 1, n)
      /\ dnManifest \in Manifest /\ dnManifest # Absent /\ dnIndex \in Nat
      /\ n < Prefix(dnIndex)
  BY <1>1 DEF DownloadInv, DnTypeOK, HashedSoFar, HashCoversPartial, WithManifest, Receiving,
              Writing, Exists
<1>5. fd[Downloader] = "part"
  BY <1>1, ReceiverAssumption DEF DownloadInv, PartIsOpen, Writing
<1>6. n + 1 <= Len(part.data) /\ b = part.data[n + 1]
  BY <1>2, <1>5 DEF Reads
<1>7. part.data \in Seq(Byte) /\ Len(part.data) \in Nat /\ n < Len(part.data)
  BY <1>4, <1>6 DEF File
<1>8. dnHashed' = SubSeq(part.data, 1, n + 1)
  BY <1>2, <1>4, <1>6, <1>7, LongerPiece
<1>9. dnHashed' \in Seq(Byte) /\ Len(dnHashed') = n + 1
  BY <1>4, <1>6, <1>7, <1>8, FirstPiece
<1>10. PartIsOpen'
  BY <1>1, <1>3, OpenOrClosed DEF DownloadInv, Writing
<1>11. DnTypeOK'
  BY <1>1, <1>3, <1>9, <1>10, OpenFiles DEF DownloadInv, DnTypeOK, DnActive, Receiving, Writing
<1>12. Prefix(dnIndex) \in Nat /\ Prefix(dnIndex)' = Prefix(dnIndex)
  BY <1>1, <1>4, PrefixOfChunks DEF Prefix
<1>13. /\ dnPc' = "hash" => Len(dnHashed') < Prefix(dnIndex)'
       /\ dnPc' = "chunk" => Len(dnHashed') = Prefix(dnIndex)'
  BY <1>1, <1>4, <1>9, <1>12 DEF AfterHashing
<1>14. /\ Len(dnHashed') <= Len(part'.data) /\ Exists(part')
       /\ SubSeq(part'.data, 1, Len(dnHashed')) = dnHashed'
  BY <1>1, <1>4, <1>6, <1>8, <1>9
<1>15. HashedSoFar'
  BY <1>3, <1>13, <1>14 DEF HashedSoFar, HashCoversPartial
<1>16. PromotionIsChecked' /\ CheckedIsDurable'
  BY <1>1, <1>3 DEF DownloadInv, PromotionIsChecked, CheckedIsDurable
<1> QED
  BY <1>1, <1>4, <1>10, <1>11, <1>15, <1>16 DEF DownloadInv

\* The next chunk of a run, when it is the listed one
\* (receiver_download_decrypt.py:213-230).
LEMMA ListedChunk ==
  ASSUME DownloadInv, dnPc = "chunk", DnMoreChunks, Genuine
  PROVE  LET data == chunks[dnIndex].data
         IN  /\ data = DnPlain
             /\ data \in Seq(Byte)
             /\ dnManifest \in Manifest /\ dnIndex \in Nat
             /\ part \in File /\ Exists(part)
             /\ Prefix(dnIndex) \in Nat /\ Prefix(dnIndex) = Len(dnHashed)
             /\ Prefix(dnIndex) <= Len(part.data)
             /\ Prefix(dnIndex + 1) = Prefix(dnIndex) + Len(data)
             /\ Prefix(dnIndex + 1) <= Len(dnManifest.plain)
             /\ SubSeq(dnManifest.plain, 1, Prefix(dnIndex)) \o data
                  = SubSeq(dnManifest.plain, 1, Prefix(dnIndex + 1))
<1> DEFINE data == chunks[dnIndex].data
           p == dnManifest.plain
<1>1. dnManifest \in Manifest /\ dnIndex \in Nat /\ dnIndex + 1 \in Nat /\ p \in Seq(Byte)
        /\ Len(p) \in Nat
  BY DEF DownloadInv, DnTypeOK, WithManifest, Receiving, Writing, Manifest
<1>2. Exists(part) /\ part \in File /\ Len(dnHashed) = Prefix(dnIndex)
        /\ Len(dnHashed) <= Len(part.data)
  BY DEF DownloadInv, DnTypeOK, HashedSoFar, HashCoversPartial, Receiving, Writing, Exists
<1>3. data = DnPlain
  BY DEF Genuine, Listed, Encrypt, DnPlain
<1>4. dnIndex < ChunkCount(Len(p))
  BY DEF DnMoreChunks
<1>5. Prefix(dnIndex) = Offset(dnIndex)
        /\ Prefix(dnIndex + 1) = Offset(dnIndex) + ChunkLength(dnIndex, Len(p))
        /\ Prefix(dnIndex) \in Nat /\ Prefix(dnIndex + 1) <= Len(p)
  BY <1>1, <1>4, PrefixOfChunks DEF Prefix
<1>6. /\ DnPlain \in Seq(Byte) /\ Len(DnPlain) = ChunkLength(dnIndex, Len(p))
      /\ SubSeq(p, 1, Offset(dnIndex)) \o DnPlain
           = SubSeq(p, 1, Offset(dnIndex) + ChunkLength(dnIndex, Len(p)))
  BY <1>1, <1>4, <1>5, ChunkOfFile DEF DnPlain
<1> QED
  BY <1>1, <1>2, <1>3, <1>5, <1>6

\* A write of the run goes to the partial file, which keeps what was hashed.
LEMMA WriteInv ==
  ASSUME DownloadInv, dnPc = "chunk", DnMoreChunks, Genuine,
         NEW data \in Seq(Byte), Write(data)
  PROVE  /\ part' = WriteAt(part, Prefix(dnIndex), data) /\ part' \in File /\ Exists(part')
         /\ UNCHANGED out
         /\ Len(dnHashed \o data) <= Len(part'.data)
         /\ SubSeq(part'.data, 1, Len(dnHashed \o data)) = dnHashed \o data
<1> DEFINE n == Len(dnHashed)
<1>1. part \in File /\ n \in Nat /\ n = Prefix(dnIndex) /\ n <= Len(part.data)
        /\ dnHashed \in Seq(Byte)
  BY ListedChunk DEF DownloadInv, DnTypeOK
<1>2. fd[Downloader] = "part"
  BY ReceiverAssumption DEF DownloadInv, PartIsOpen, Writing
<1>3. part' = WriteAt(part, n, data) /\ out' = out
  BY <1>1, <1>2 DEF Write, Prefix
<1>4. SubSeq(part.data, 1, n) = dnHashed
  BY DEF DownloadInv, HashedSoFar, HashCoversPartial, Receiving, Writing
<1>5. /\ part' \in File
      /\ SubSeq(part'.data, 1, n + Len(data)) = dnHashed \o data
      /\ n + Len(data) <= Len(part'.data)
  <2> DEFINE w == WriteAt(part, n, data)
  <2> HIDE DEF n
  <2>0. part \in File /\ n \in Nat /\ n <= Len(part.data) /\ data \in Seq(Byte)
    BY <1>1
  <2>1. /\ w \in File
        /\ SubSeq(w.data, 1, n + Len(data)) = SubSeq(part.data, 1, n) \o data
        /\ Len(w.data) = IF Len(part.data) > n + Len(data) THEN Len(part.data)
                         ELSE n + Len(data)
    BY <2>0, WriteAtInside
  <2> HIDE DEF w
  <2>2. Len(part.data) \in Nat /\ Len(data) \in Nat
    BY <1>1 DEF File
  <2>3. part' = w
    BY <1>3 DEF w
  <2>4. n + Len(data) <= Len(w.data)
    BY <1>1, <2>1, <2>2
  <2> QED
    BY <1>4, <2>1, <2>3, <2>4 DEF n
<1>6. Len(dnHashed \o data) = n + Len(data)
  BY <1>1, ConcatProperties
<1>7. part' # Absent
  BY <1>5, FilesAssumption
<1> QED
  BY <1>1, <1>3, <1>5, <1>6, <1>7 DEF Exists

\* A chunk is decrypted, written and hashed (receiver_download_decrypt.py:213-236).
LEMMA DownloadChunkInv == ASSUME DownloadInv, DnChunk PROVE DownloadInv'
<1> DEFINE data == chunks[dnIndex].data
<1>1. /\ dnPc = "chunk" /\ dnPc' = "save" /\ DnMoreChunks /\ Genuine /\ Write(data)
      /\ dnHashed' = dnHashed \o data
      /\ UNCHANGED <<nextIndex, fd, delivered, dnResume, dnManifest, dnIndex>>
  BY DEF DnChunk
<1>2. /\ data \in Seq(Byte) /\ dnManifest \in Manifest /\ Prefix(dnIndex) = Len(dnHashed)
      /\ Prefix(dnIndex + 1) = Prefix(dnIndex) + Len(data)
  BY <1>1, ListedChunk
<1>3. /\ part' \in File /\ Exists(part') /\ UNCHANGED out
      /\ Len(dnHashed') <= Len(part'.data)
      /\ SubSeq(part'.data, 1, Len(dnHashed')) = dnHashed'
  BY <1>1, <1>2, WriteInv
<1>4. dnHashed' \in Seq(Byte) /\ Len(dnHashed') = Prefix(dnIndex + 1)
  <2>1. dnHashed \in Seq(Byte)
    BY DEF DownloadInv, DnTypeOK
  <2> QED
    BY <1>1, <1>2, <2>1, ConcatProperties
<1>5. PartIsOpen'
  BY <1>1, OpenOrClosed DEF DownloadInv, Writing
<1>6. DnTypeOK'
  BY <1>1, <1>3, <1>4, <1>5 DEF DownloadInv, DnTypeOK, DnActive, Receiving, Writing
<1>7. Len(dnHashed') = Prefix(dnIndex + 1)'
  BY <1>1, <1>4 DEF Prefix
<1>8. HashedSoFar'
  BY <1>1, <1>3, <1>7 DEF HashedSoFar, HashCoversPartial
<1>9. PromotionIsChecked' /\ CheckedIsDurable' /\ dnManifest' # Absent
  BY <1>1, <1>2, <1>3, GarbledAssumption DEF DownloadInv, PromotionIsChecked, CheckedIsDurable
<1> QED
  BY <1>5, <1>6, <1>8, <1>9 DEF DownloadInv

\* The chunk is counted (receiver_download_decrypt.py:238-247).
LEMMA SaveInv == ASSUME DownloadInv, DnSave PROVE DownloadInv'
<1>1. /\ dnPc = "save" /\ dnPc' = "chunk" /\ nextIndex' = dnIndex + 1 /\ dnIndex' = dnIndex + 1
      /\ UNCHANGED <<part, out, fd, delivered, dnResume, dnManifest, dnHashed>>
  BY DEF DnSave, SavedIndex
<1>2. PartIsOpen'
  BY <1>1, OpenOrClosed DEF DownloadInv, Writing
<1>3. DnTypeOK'
  BY <1>1, <1>2 DEF DownloadInv, DnTypeOK, DnActive, Receiving, Writing
<1>4. Len(dnHashed') = Prefix(dnIndex)'
  BY <1>1 DEF DownloadInv, HashedSoFar, Prefix
<1>5. HashedSoFar'
  BY <1>1, <1>4 DEF DownloadInv, HashedSoFar, HashCoversPartial, Receiving, Writing
<1>6. PromotionIsChecked' /\ CheckedIsDurable' /\ dnManifest' # Absent
  BY <1>1 DEF DownloadInv, PromotionIsChecked, CheckedIsDurable, WithManifest, Receiving,
              Writing
<1> QED
  BY <1>2, <1>3, <1>5, <1>6 DEF DownloadInv

\* fsync and close (receiver_download_decrypt.py:252-255).
LEMMA SyncInv == ASSUME DownloadInv, DnSync PROVE DownloadInv'
<1>1. /\ dnPc = "chunk" /\ dnPc' = "verify" /\ ~DnMoreChunks /\ fd' = Closed
      /\ UNCHANGED <<nextIndex, delivered, dnResume, dnManifest, dnIndex, dnHashed>>
  BY DEF DnSync, dnLocal
<1>2. part \in File /\ Exists(part) /\ dnManifest \in Manifest /\ dnIndex \in Nat
        /\ dnManifest # Absent
  BY <1>1 DEF DownloadInv, DnTypeOK, HashedSoFar, HashCoversPartial, Receiving, Writing, Exists,
              WithManifest
<1>3. /\ out' = out /\ (part' = part \/ part' = Synced(part))
      /\ ~FsyncMayFail => part' = Synced(part)
  <2>1. fd[Downloader] = "part"
    BY <1>1, ReceiverAssumption DEF DownloadInv, PartIsOpen, Writing
  <2> QED
    BY <2>1 DEF DnSync
<1>4. part' \in File /\ part'.data = part.data /\ (~FsyncMayFail => part'.synced = Len(part'.data))
  BY <1>2, <1>3, SyncedFile
<1>5. PartIsOpen'
  BY <1>1, OpenOrClosed DEF DownloadInv, Writing
<1>6. DnTypeOK'
  BY <1>1, <1>3, <1>4, <1>5, OpenFiles DEF DownloadInv, DnTypeOK, DnActive, Receiving, Writing
<1>7. Len(dnHashed') = Len(dnManifest'.plain)
  <2>1. Prefix(dnIndex) = Len(dnManifest.plain)
    BY <1>1, <1>2, PrefixOfChunks DEF DnMoreChunks, Prefix
  <2> QED
    BY <1>1, <2>1 DEF DownloadInv, HashedSoFar
<1>8. Exists(part')
  BY <1>4, FilesAssumption DEF Exists
<1>9. HashedSoFar'
  BY <1>1, <1>4, <1>7, <1>8 DEF DownloadInv, HashedSoFar, HashCoversPartial, Receiving, Writing
<1>10. PromotionIsChecked' /\ CheckedIsDurable'
  BY <1>1, <1>3, <1>4 DEF DownloadInv, PromotionIsChecked, CheckedIsDurable
<1> QED
  BY <1>1, <1>2, <1>5, <1>6, <1>9, <1>10 DEF DownloadInv

\* A file that passed the checks is what the manifest lists
\* (receiver_download_decrypt.py:257-261).
LEMMA VerifiedContent ==
  ASSUME DownloadInv, dnPc = "promote"
  PROVE  part \in File /\ part.data = dnManifest.plain
<1>1. dnPc \in Receiving
  BY DEF Receiving, Writing
<1>2. part \in File /\ part.data \in Seq(Byte)
  BY <1>1 DEF DownloadInv, DnTypeOK, HashedSoFar, HashCoversPartial, Exists, File
<1>3. dnHashed = dnManifest.plain /\ Len(part.data) = Len(dnManifest.plain)
  BY DEF DownloadInv, PromotionIsChecked, DnVerified
<1>4. SubSeq(part.data, 1, Len(part.data)) = dnHashed
  BY <1>1, <1>3 DEF DownloadInv, HashedSoFar, HashCoversPartial
<1>5. SubSeq(part.data, 1, Len(part.data)) = part.data
  BY <1>2, SubSeqFull
<1> QED
  BY <1>2, <1>3, <1>4, <1>5

\* The checks (receiver_download_decrypt.py:257-264).
LEMMA VerifyInv == ASSUME DownloadInv, DnVerifyOk PROVE DownloadInv'
<1>1. /\ dnPc = "verify" /\ dnPc' = "promote" /\ DnVerified /\ DnMayInstall
      /\ UNCHANGED <<part, nextIndex, out, fd, delivered, dnResume, dnManifest, dnIndex, dnHashed>>
  BY DEF DnVerifyOk, dnDisk, dnLocal
<1>2. PartIsOpen'
  BY <1>1, OpenOrClosed DEF DownloadInv, Writing
<1>3. DnTypeOK'
  BY <1>1, <1>2 DEF DownloadInv, DnTypeOK, DnActive, Receiving, Writing
<1>4. HashedSoFar' /\ CheckedIsDurable' /\ dnManifest' # Absent
  BY <1>1 DEF DownloadInv, HashedSoFar, HashCoversPartial, CheckedIsDurable, Receiving, Writing,
              WithManifest
<1>5. PromotionIsChecked'
  BY <1>1 DEF PromotionIsChecked, DnVerified, DnMayInstall
<1> QED
  BY <1>2, <1>3, <1>4, <1>5 DEF DownloadInv

\* The rename (receiver_download_decrypt.py:267).
LEMMA DownloadPromoteInv ==
  ASSUME DownloadInv, DnPromote
  PROVE  /\ DownloadInv'
         /\ out'.data = dnManifest.plain /\ Exists(out')
         /\ delivered' = delivered \cup {dnManifest.plain}
<1>1. /\ dnPc = "promote" /\ dnPc' = "promoted" /\ Exists(part) /\ out' = part
      /\ fd' = FdsRenamed /\ delivered' = delivered \cup {part.data} /\ part' = Absent
      /\ UNCHANGED <<nextIndex, dnResume, dnManifest, dnIndex, dnHashed>>
  BY DEF DnPromote, dnLocal
<1>2. part \in File /\ part.data = dnManifest.plain /\ part.data \in Seq(Byte)
  BY <1>1, VerifiedContent DEF File
<1>3. fd' = fd
  BY <1>1, NobodyWrites DEF DownloadInv, Writing
<1>4. PartIsOpen'
  BY <1>1, <1>3, OpenOrClosed DEF DownloadInv, Writing
<1>5. DnTypeOK'
  BY <1>1, <1>2, <1>4, OpenFiles DEF DownloadInv, DnTypeOK, DnActive, Receiving, Writing
<1>6. HashedSoFar' /\ dnManifest' # Absent
  BY <1>1 DEF DownloadInv, HashedSoFar, HashCoversPartial, Receiving, Writing, WithManifest
<1>7. PromotionIsChecked' /\ CheckedIsDurable'
  BY <1>1, <1>2 DEF DownloadInv, PromotionIsChecked, CheckedIsDurable
<1> QED
  BY <1>1, <1>2, <1>4, <1>5, <1>6, <1>7 DEF DownloadInv

\* The state file goes (receiver_download_decrypt.py:271-275).
LEMMA FinishInv == ASSUME DownloadInv, DnFinish PROVE DownloadInv'
<1>1. /\ dnPc = "promoted" /\ dnPc' = "ok" /\ nextIndex' = Absent
      /\ UNCHANGED <<part, out, fd, delivered, dnResume, dnManifest, dnIndex, dnHashed>>
  BY DEF DnFinish, dnLocal
<1>2. PartIsOpen'
  BY <1>1, OpenOrClosed DEF DownloadInv, Writing
<1>3. DnTypeOK'
  BY <1>1, <1>2 DEF DownloadInv, DnTypeOK, Idle, DnActive, Receiving, Writing
<1>4. HashedSoFar' /\ dnManifest' # Absent
  BY <1>1 DEF DownloadInv, HashedSoFar, HashCoversPartial, Receiving, Writing, WithManifest
<1>5. PromotionIsChecked' /\ CheckedIsDurable'
  BY <1>1 DEF DownloadInv, PromotionIsChecked, CheckedIsDurable
<1> QED
  BY <1>2, <1>3, <1>4, <1>5 DEF DownloadInv

\* _fail_closed (receiver_download_decrypt.py:96-102).
LEMMA FailClosedInv == ASSUME DownloadInv, DnFailClosed \/ DnFailState PROVE DownloadInv'
<1>1. CASE DnFailClosed
  <2>1. /\ dnPc = "fail" /\ dnPc' = "failState" /\ part' \in {part, Absent}
        /\ fd' = IF part' = Absent THEN FdsUnlinked ELSE fd
        /\ UNCHANGED <<nextIndex, out, delivered, dnResume, dnManifest, dnIndex, dnHashed>>
    BY <1>1 DEF DnFailClosed, UnlinkPart, Unlinked, dnLocal
  <2>2. fd' = fd
    BY <2>1, NobodyWrites DEF DownloadInv, Writing
  <2>3. PartIsOpen'
    BY <2>1, <2>2, OpenOrClosed DEF DownloadInv, Writing
  <2> QED
    BY <2>1, <2>3, IdleInv DEF DownloadInv, DnTypeOK, CheckedIsDurable
<1>2. CASE DnFailState
  <2>1. /\ dnPc = "failState" /\ dnPc' = "off" /\ nextIndex' \in {nextIndex, Absent}
        /\ UNCHANGED <<part, out, fd, delivered>> /\ DnForget
    BY <1>2, Forgotten DEF DnFailState, Unlinked, DnExit
  <2>2. PartIsOpen'
    BY <2>1, OpenOrClosed DEF DownloadInv, Writing
  <2>3. part' \in File \cup {Absent} /\ out' \in File \cup {Absent}
          /\ nextIndex' \in Nat \cup {Absent, Garbled}
          /\ (~FsyncMayFail => (Exists(out) => out.synced = Len(out.data))')
    BY <2>1 DEF DownloadInv, DnTypeOK, CheckedIsDurable
  <2> QED
    BY <2>1, <2>2, <2>3, Forgotten, IdleInv
<1> QED
  BY <1>1, <1>2

\* A write that stops half way (disk full, killed).
LEMMA DownloadPartWriteInv == ASSUME DownloadInv, DnPartWrite PROVE DownloadInv'
<1>1. PICK n \in 1..Len(chunks[dnIndex].data) : Write(SubSeq(chunks[dnIndex].data, 1, n))
  BY DEF DnPartWrite
<1>2. dnPc = "chunk" /\ DnMoreChunks /\ Genuine /\ fd' = Closed
        /\ UNCHANGED <<nextIndex, delivered>>
  BY DEF DnPartWrite
<1>3. chunks[dnIndex].data \in Seq(Byte)
  BY <1>2, ListedChunk
<1>4. SubSeq(chunks[dnIndex].data, 1, n) \in Seq(Byte)
  BY <1>1, <1>3, FirstPiece
<1>5. part' \in File /\ UNCHANGED out
  BY <1>1, <1>2, <1>4, WriteInv
<1>6. dnPc' \in {"off", "fail"} /\ dnManifest' \in Manifest \cup {Absent} /\ dnIndex' \in Nat
        /\ dnHashed' \in Seq(Byte)
        /\ dnResume' \in BOOLEAN
  <2>1. CASE DnForget
    BY <2>1, Forgotten
  <2>2. CASE dnPc' = "fail" /\ UNCHANGED dnLocal
    BY <2>2 DEF dnLocal, DownloadInv, DnTypeOK
  <2> QED
    BY <2>1, <2>2 DEF DnPartWrite, DnExit
<1>7. PartIsOpen'
  BY <1>2, <1>6, OpenOrClosed DEF DownloadInv, Writing
<1>8. part' \in File \cup {Absent} /\ out' \in File \cup {Absent}
          /\ nextIndex' \in Nat \cup {Absent, Garbled}
          /\ (~FsyncMayFail => (Exists(out) => out.synced = Len(out.data))')
  BY <1>2, <1>5 DEF DownloadInv, DnTypeOK, CheckedIsDurable
<1> QED
  BY <1>2, <1>6, <1>7, <1>8, IdleInv

\* A power loss damages what is not on the disk, which the output is.
LEMMA DownloadPowerLossInv ==
  ASSUME DownloadInv, DnPowerLoss
  PROVE  /\ DownloadInv' /\ dnPc' = "off" /\ UNCHANGED delivered
         /\ (Exists(out') <=> Exists(out)) /\ (~FsyncMayFail => UNCHANGED out)
<1>1. /\ part' \in Torn(part) /\ out' \in Torn(out) /\ nextIndex' \in {nextIndex, Absent, Garbled}
      /\ fd' = [c \in Clients |-> "none"] /\ UNCHANGED delivered
  BY DEF DnPowerLoss, DnDiskLosesPower, Unsynced
<1>2. DnForget /\ dnPc' = "off"
  BY Forgotten DEF DnPowerLoss, DnExit
<1>3. part \in File \cup {Absent} /\ out \in File \cup {Absent}
        /\ (~FsyncMayFail => (Exists(out) => out.synced = Len(out.data)))
  BY DEF DownloadInv, DnTypeOK, CheckedIsDurable
<1>4. part' \in File \cup {Absent}
  BY <1>1, <1>3, TornFile
<1>5. /\ out' \in File \cup {Absent} /\ (Exists(out') <=> Exists(out))
      /\ (Exists(out) => out'.synced = Len(out'.data))
      /\ (Exists(out) /\ out.synced = Len(out.data) => out' = out)
  BY <1>1, <1>3, TornFile
<1>6. ~Exists(out) => out' = out
  BY <1>5 DEF Exists
<1>7. PartIsOpen'
  BY <1>1, <1>2 DEF PartIsOpen, Writing
<1>8. nextIndex' \in Nat \cup {Absent, Garbled}
  BY <1>1, <1>2 DEF DownloadInv, DnTypeOK
<1>9. DownloadInv'
  BY <1>1, <1>2, <1>4, <1>5, <1>7, <1>8, Forgotten, IdleInv
<1> QED
  BY <1>1, <1>2, <1>3, <1>5, <1>6, <1>9

\* The user takes the output away, or puts it back.
LEMMA UserOutputInv == ASSUME DownloadInv, DnTakeOutput \/ DnReturnOutput PROVE DownloadInv'
<1>1. /\ dnPc' = dnPc /\ UNCHANGED <<part, nextIndex, delivered, dnResume, dnManifest, dnIndex,
                                     dnHashed>>
  BY DEF DnTakeOutput, DnReturnOutput, dnLocal
<1>2. fd' = fd
  BY DEF DnTakeOutput, DnReturnOutput, DownloadInv, PartIsOpen
<1>3. /\ out' \in File \cup {Absent}
      /\ Exists(out') => out'.synced = Len(out'.data)
      /\ dnPc = "promote" => ~Exists(out')
  <2>1. CASE DnTakeOutput
    BY <2>1 DEF DnTakeOutput, Exists
  <2>2. CASE DnReturnOutput
    <3>1. PICK c \in delivered : out' = [data |-> c, synced |-> Len(c)]
      BY <2>2 DEF DnReturnOutput
    <3>2. c \in Seq(Byte) /\ Len(c) \in Nat
      BY DEF DownloadInv, DnTypeOK
    <3> QED
      BY <2>2, <3>1, <3>2 DEF DnReturnOutput, File
  <2> QED
    BY <2>1, <2>2
<1>4. PartIsOpen'
  BY <1>1, <1>2, OpenOrClosed DEF DownloadInv
<1>5. DnTypeOK'
  BY <1>1, <1>2, <1>3 DEF DownloadInv, DnTypeOK
<1>6. HashedSoFar'
  BY <1>1 DEF DownloadInv, HashedSoFar, HashCoversPartial, Covers, Prefix
<1>7. PromotionIsChecked' /\ CheckedIsDurable'
  BY <1>1, <1>3 DEF DownloadInv, PromotionIsChecked, DnVerified, DnMayInstall, CheckedIsDurable
<1> QED
  BY <1>1, <1>4, <1>5, <1>6, <1>7 DEF DownloadInv

\* The steps of the downloading program, of its user and its faults.
DownloadAct == Download \/ DnTakeOutput \/ DnReturnOutput \/ DnStep \/ DnFault

(***************************************************************************)
(* The downloading program keeps its part of the invariant whatever the    *)
(* broker answers.                                                         *)
(***************************************************************************)
THEOREM DownloadActInv == ASSUME DownloadInv, DownloadAct PROVE DownloadInv'
<1>1. CASE Download \/ DnTakeOutput \/ DnReturnOutput
  BY <1>1, StartInv, UserOutputInv
<1>2. CASE DnStop \/ DnRaise
  BY <1>2, StopInv, RaiseInv
<1>3. CASE DnFault
  BY <1>2, <1>3, DownloadPartWriteInv, DownloadPowerLossInv
  DEF DnFault, DnError, DnStopped, DnKill
<1>4. CASE DnStep
  <2>1. CASE DnGetManifest \/ DnDiscardOld \/ DnDiscardState \/ DnResumable \/ DnMode
               \/ DnOpenNew \/ DnOpenOld \/ DnHash
    BY <2>1, GetManifestInv, DiscardInv, ResumableInv, ModeInv, OpenInv, HashInv
  <2>2. CASE DnChunk \/ DnSave \/ DnSync \/ DnVerifyOk \/ DnPromote \/ DnFinish
               \/ DnFailClosed \/ DnFailState
    BY <2>2, DownloadChunkInv, SaveInv, SyncInv, VerifyInv, DownloadPromoteInv, FinishInv,
       FailClosedInv
  <2>3. CASE DnNoManifest \/ DnBadManifest \/ DnCannotResume \/ DnUnreadableState
               \/ DnOpenFails \/ DnShortPrefix \/ DnNoChunk \/ DnBadChunk \/ DnVerifyMismatch
               \/ DnVerifyBlocked \/ DnNothingToPromote \/ DnDisconnected
    BY <1>2, <2>3
    DEF DnNoManifest, DnBadManifest, DnCannotResume, DnUnreadableState, DnOpenFails,
        DnShortPrefix, DnNoChunk, DnBadChunk, DnVerifyMismatch, DnVerifyBlocked,
        DnNothingToPromote, DnDisconnected
  <2> QED
    BY <1>4, <2>1, <2>2, <2>3 DEF DnStep
<1> QED
  BY <1>1, <1>3, <1>4 DEF DownloadAct

(***************************************************************************)
(* What a step of the downloading program may do that others see: it asks  *)
(* the broker and changes nothing there, it goes by a manifest that        *)
(* verified, and it renames.                                               *)
(***************************************************************************)
LEMMA DownloadEffects ==
  ASSUME DownloadInv, DownloadAct
  PROVE  /\ UNCHANGED <<store, stray>>
         /\ connected' \subseteq connected \cup {Downloader}
         /\ \/ dnManifest' \in {dnManifest, Absent}
            \/ ManifestVerifies /\ dnManifest' = manifest
         /\ delivered' = delivered \/ DnPromote
<1> USE DEF brokerVars, dnLocal, dnDisk
<1>1. CASE Download \/ DnTakeOutput \/ DnReturnOutput
  BY <1>1 DEF Download, DnStart, DnTakeOutput, DnReturnOutput
<1>2. CASE DnStop \/ DnRaise
  BY <1>2 DEF DnStop, DnExit, DnForget, DnRaise
<1>3. CASE DnFault
  BY <1>2, <1>3
  DEF DnFault, DnError, DnStopped, DnKill, DnPartWrite, DnPowerLoss, DnDiskLosesPower, DnExit,
      DnForget
<1>4. CASE DnStep
  <2>1. CASE DnGetManifest \/ DnDiscardOld \/ DnDiscardState \/ DnResumable \/ DnMode
               \/ DnOpenNew \/ DnOpenOld \/ DnHash
    BY <2>1 DEF DnGetManifest, DnDiscardOld, DnDiscardState, DnResumable, DnMode, DnOpenNew,
                DnOpenOld, DnHash
  <2>2. CASE DnChunk \/ DnSave \/ DnSync \/ DnVerifyOk \/ DnPromote \/ DnFinish
               \/ DnFailClosed \/ DnFailState
    BY <2>2 DEF DnChunk, DnSave, DnSync, DnVerifyOk, DnPromote, DnFinish, DnFailClosed,
                DnFailState, DnExit, DnForget
  <2>3. CASE DnNoManifest \/ DnBadManifest \/ DnCannotResume \/ DnUnreadableState
               \/ DnOpenFails \/ DnShortPrefix \/ DnNoChunk \/ DnBadChunk \/ DnVerifyMismatch
               \/ DnVerifyBlocked \/ DnNothingToPromote \/ DnDisconnected
    BY <1>2, <2>3
    DEF DnNoManifest, DnBadManifest, DnCannotResume, DnUnreadableState, DnOpenFails,
        DnShortPrefix, DnNoChunk, DnBadChunk, DnVerifyMismatch, DnVerifyBlocked,
        DnNothingToPromote, DnDisconnected
  <2> QED
    BY <1>4, <2>1, <2>2, <2>3 DEF DnStep
<1> QED
  BY <1>1, <1>3, <1>4 DEF DownloadAct

\* Only the rename leads to where a run has renamed.
LEMMA OnlyPromotes ==
  ASSUME DownloadAct, dnPc # "promoted", dnPc' = "promoted"
  PROVE  DnPromote
<1>1. ~DnStop /\ ~DnRaise /\ ~DnExit
  BY DEF DnStop, DnExit, DnForget, DnRaise
<1>2. ~Download /\ ~DnTakeOutput /\ ~DnReturnOutput
  BY DEF Download, DnStart, DnTakeOutput, DnReturnOutput
<1>3. ~DnFault
  BY <1>1 DEF DnFault, DnError, DnStopped, DnKill, DnPartWrite, DnPowerLoss
<1>4. DnStep => DnPromote
  BY <1>1
  DEF DnStep, DnGetManifest, DnDiscardOld, DnDiscardState, DnResumable, DnMode, DnOpenNew,
      DnOpenOld, DnHash, AfterHashing, DnShortPrefix, DnChunk, DnSave, DnSync, DnVerifyOk,
      DnFinish, DnFailClosed, DnFailState, DnNoManifest, DnBadManifest, DnCannotResume,
      DnUnreadableState, DnOpenFails, DnNoChunk,
      DnBadChunk, DnVerifyMismatch, DnVerifyBlocked, DnNothingToPromote, DnDisconnected
<1> QED
  BY <1>2, <1>3, <1>4 DEF DownloadAct

-----------------------------------------------------------------------------
(* The whole transfer.                                                     *)

\* Before the first run of either program.
LEMMA InitTransfer == Init => TransferInv
<1> SUFFICES ASSUME Init PROVE TransferInv
  OBVIOUS
<1>1. BrokerInit /\ UpInit /\ DnInit
  BY DEF Init
<1>2. UploadInv
  <2>1. UpTypeOK /\ UploadInOrder
    BY <1>1 DEF UpInit, UpTypeOK, UploadInOrder, UpActive
  <2> QED
    BY <1>1, <2>1, BrokerInitInv DEF UploadInv
<1>3. DownloadInv
  <2>1. PartIsOpen
    BY <1>1, ReceiverAssumption DEF DnInit, PartIsOpen, Writing
  <2>2. dnResume \in BOOLEAN
    BY <1>1, Zenon DEF DnInit
  <2>3. fd \in [Clients -> {"part", "out", "gone", "none"}]
          /\ (fd[Downloader] = "none") = (dnPc \notin Writing)
    BY <1>1, ReceiverAssumption DEF DnInit, Writing
  <2>4. DnTypeOK
    BY <1>1, <2>2, <2>3 DEF DnInit, DnTypeOK, Idle
  <2>5. HashedSoFar /\ PromotionIsChecked /\ CheckedIsDurable /\ dnPc \notin WithManifest
    BY <1>1 DEF DnInit, HashedSoFar, HashCoversPartial, PromotionIsChecked, CheckedIsDurable,
                WithManifest, Receiving, Writing, Exists
  <2> QED
    BY <2>1, <2>4, <2>5 DEF DownloadInv
<1>4. SignedIsPublished /\ FetchedIsPublished
  BY <1>1, GarbledAssumption
  DEF BrokerInit, UpInit, DnInit, SignedIsPublished, FetchedIsPublished, ManifestVerifies
<1> QED
  BY <1>2, <1>3, <1>4 DEF TransferInv

\* Whose step it is.
LEMMA NextCases ==
  ASSUME [Next]_vars
  PROVE  \/ UploadAct /\ UNCHANGED dnVars
         \/ DownloadAct /\ UNCHANGED upVars
         \/ BrokerOwnStep /\ UNCHANGED <<upVars, dnVars>>
         \/ UNCHANGED vars
BY DEF Next, User, Programs, Fault, UploadAct, DownloadAct, BrokerOwnStep

\* A step of one program leaves the invariant of the other alone.
LEMMA OthersUntouched ==
  /\ DownloadInv /\ UNCHANGED dnVars => DownloadInv'
  /\ UpTypeOK /\ UploadInOrder /\ UNCHANGED upVars => UpTypeOK' /\ UploadInOrder'
<1>1. ASSUME DownloadInv, UNCHANGED dnVars PROVE DownloadInv'
  BY <1>1 DEF dnVars, dnDisk, dnLocal, DownloadInv, DnTypeOK, PartIsOpen, HashedSoFar,
              HashCoversPartial, PromotionIsChecked, DnVerified, DnMayInstall, CheckedIsDurable,
              Covers, Prefix
<1>2. ASSUME UpTypeOK, UploadInOrder, UNCHANGED upVars PROVE UpTypeOK' /\ UploadInOrder'
  BY <1>2 DEF upVars, upLocal, UpTypeOK, UploadInOrder, Next_i
<1> QED
  BY <1>1, <1>2

\* What a step may add to what is published: one content, if the sender signs it.
LEMMA NextPublished ==
  ASSUME TransferInv, [Next]_vars
  PROVE  /\ published \subseteq published'
         /\ ~UNCHANGED published =>
              UNCHANGED dnVars /\ \E c \in FileContents : published' = published \cup {c}
<1>1. CASE UploadAct /\ UNCHANGED dnVars
  BY <1>1, UploadActInv DEF TransferInv
<1>2. CASE UNCHANGED upVars
  BY <1>2 DEF upVars
<1>3. CASE UNCHANGED vars
  BY <1>3 DEF vars, upVars
<1> QED
  BY <1>1, <1>2, <1>3, NextCases

\* TransferInv is inductive.
LEMMA NextTransfer == TransferInv /\ [Next]_vars => TransferInv'
<1> SUFFICES ASSUME TransferInv, [Next]_vars PROVE TransferInv'
  OBVIOUS
<1>1. CASE UploadAct /\ UNCHANGED dnVars
  <2>1. UploadInv' /\ SignedIsPublished' /\ published \subseteq published'
    BY <1>1, UploadActInv DEF TransferInv
  <2>2. DownloadInv'
    BY <1>1, OthersUntouched DEF TransferInv
  <2>3. FetchedIsPublished'
    BY <1>1, <2>1 DEF TransferInv, FetchedIsPublished, dnVars, dnDisk, dnLocal
  <2> QED
    BY <2>1, <2>2, <2>3 DEF TransferInv
<1>2. CASE DownloadAct /\ UNCHANGED upVars
  <2>1. DownloadInv'
    BY <1>2, DownloadActInv DEF TransferInv
  <2>2. /\ UNCHANGED <<store, stray>> /\ connected' \subseteq connected \cup {Downloader}
        /\ \/ dnManifest' \in {dnManifest, Absent}
           \/ ManifestVerifies /\ dnManifest' = manifest
        /\ delivered' = delivered \/ DnPromote
    BY <1>2, DownloadEffects DEF TransferInv
  <2>3. connected' \subseteq Clients
    BY <2>2, ReceiverAssumption DEF TransferInv, UploadInv, BrokerInv, BrokerTypeOK
  <2>4. BrokerInv'
    BY <2>2, <2>3, BrokerUntouched DEF TransferInv, UploadInv
  <2>5. UploadInv'
    BY <1>2, <2>4, OthersUntouched DEF TransferInv, UploadInv
  <2>6. UNCHANGED published
    BY <1>2 DEF upVars
  <2>7. SignedIsPublished'
    BY <2>2, <2>6, NothingSigned DEF TransferInv, store
  <2>8. dnManifest' # Absent => dnManifest'.plain \in published'
    BY <2>2, <2>6 DEF TransferInv, FetchedIsPublished, SignedIsPublished
  <2>9. delivered' \subseteq published'
    <3>1. CASE DnPromote
      <4>1. delivered' = delivered \cup {dnManifest.plain} /\ dnManifest # Absent
        BY <3>1, DownloadPromoteInv
        DEF TransferInv, DownloadInv, DnPromote, WithManifest, Receiving
      <4> QED
        BY <2>6, <4>1 DEF TransferInv, FetchedIsPublished
    <3> QED
      BY <2>2, <2>6, <3>1 DEF TransferInv, FetchedIsPublished
  <2> QED
    BY <2>1, <2>5, <2>7, <2>8, <2>9 DEF TransferInv, FetchedIsPublished
<1>3. CASE BrokerOwnStep /\ UNCHANGED <<upVars, dnVars>>
  <2>1. /\ BrokerInv' /\ stray' \subseteq stray
        /\ ManifestVerifies' =>
             \/ ManifestVerifies /\ manifest' = manifest
             \/ \E r \in stray : r.cmd = "PUT_MANIFEST" /\ r.manifest = manifest'
    BY <1>3, BrokerStepInv DEF TransferInv, UploadInv
  <2>2. UploadInv' /\ DownloadInv'
    BY <1>3, <2>1, OthersUntouched DEF TransferInv, UploadInv
  <2>3. UNCHANGED <<published, dnManifest, delivered>>
    BY <1>3 DEF upVars, dnVars, dnDisk, dnLocal
  <2>4. SignedIsPublished' /\ FetchedIsPublished'
    BY <2>1, <2>3 DEF TransferInv, SignedIsPublished, FetchedIsPublished
  <2> QED
    BY <2>2, <2>4 DEF TransferInv
<1>4. CASE UNCHANGED vars
  <2>1. UNCHANGED <<store, stray, connected>> /\ UNCHANGED upVars /\ UNCHANGED dnVars
    BY <1>4 DEF vars, brokerVars
  <2>2. UNCHANGED <<published, dnManifest, delivered>>
    BY <2>1 DEF upVars, dnVars, dnDisk, dnLocal
  <2>3. BrokerInv'
    BY <2>1, BrokerUntouched DEF TransferInv, UploadInv, BrokerInv, BrokerTypeOK
  <2>4. SignedIsPublished' /\ FetchedIsPublished'
    BY <2>1, <2>2, NothingSigned DEF TransferInv, FetchedIsPublished, store
  <2> QED
    BY <2>1, <2>3, <2>4, OthersUntouched DEF TransferInv, UploadInv
<1> QED
  BY <1>1, <1>2, <1>3, <1>4, NextCases

\* TransferInv holds of every reachable state.
LEMMA TransferIsInvariant == Spec => []TransferInv
BY InitTransfer, NextTransfer, PTL DEF Spec

(***************************************************************************)
(* Every variable of the programs, the broker and the user keeps its type. *)
(***************************************************************************)
THEOREM TypeCorrect == Spec => []TypeOK
<1>1. TransferInv => TypeOK
  BY DEF TransferInv, UploadInv, DownloadInv, BrokerInv, TypeOK
<1> QED
  BY <1>1, TransferIsInvariant, PTL

(***************************************************************************)
(* The running hash is of the bytes the partial file begins with, for any  *)
(* files, chunk size and faults (receiver_download_decrypt.py:195-206,     *)
(* 232-236).                                                               *)
(***************************************************************************)
THEOREM HashIsOfThePartial == Spec => []HashCoversPartial
<1>1. TransferInv => HashCoversPartial
  BY DEF TransferInv, DownloadInv, HashedSoFar
<1> QED
  BY <1>1, TransferIsInvariant, PTL

(***************************************************************************)
(* Without --overwrite no rename finds an output that exists               *)
(* (receiver_download_decrypt.py:127, 263-267).                            *)
(***************************************************************************)
THEOREM NeverReplacedHolds == Spec => OutputNeverReplaced
<1> DEFINE Keeps == ~Overwrite /\ dnPc # "promoted" /\ dnPc' = "promoted" => ~Exists(out)
<1>1. TransferInv /\ [Next]_vars => [Keeps]_dnVars
  <2> SUFFICES ASSUME TransferInv, [Next]_vars, ~UNCHANGED dnVars,
                      ~Overwrite, dnPc # "promoted", dnPc' = "promoted"
               PROVE  ~Exists(out)
    OBVIOUS
  <2>1. DownloadAct
    BY NextCases DEF vars
  <2>2. DnPromote
    BY <2>1, OnlyPromotes
  <2> QED
    BY <2>2 DEF DnPromote, TransferInv, DownloadInv, PromotionIsChecked, DnMayInstall
<1>2. OutputNeverReplaced <=> [][Keeps]_dnVars
  BY PTL DEF OutputNeverReplaced
<1> QED
  BY <1>1, <1>2, TransferIsInvariant, PTL DEF Spec
-----------------------------------------------------------------------------
(* The refinement of AtomicDelivery.                                       *)

\* Nothing is offered, nothing is there.
LEMMA InitRefines == Init => Delivery!Init
BY DEF Init, UpInit, DnInit, Exists, Delivery!Init

\* Offering a content, when the receiver's side stands still.
LEMMA UploadRefines ==
  ASSUME UNCHANGED dnVars,
         UNCHANGED published \/ \E c \in FileContents : published' = published \cup {c}
  PROVE  [Delivery!Next]_Delivery!vars
<1>1. UNCHANGED <<out, delivered, dnPc, dnManifest>>
  BY DEF dnVars, dnDisk, dnLocal
<1>2. CASE UNCHANGED published
  BY <1>1, <1>2 DEF Delivery!vars
<1>3. ASSUME NEW c \in FileContents, published' = published \cup {c}
      PROVE  Delivery!Next
  BY <1>1, <1>3 DEF Delivery!Next, Delivery!Offer
<1> QED
  BY <1>2, <1>3

\* The steps that deliver, take away or report.
LEMMA DownloadRefines ==
  ASSUME TransferInv, UNCHANGED published,
         DnPromote \/ DnTakeOutput \/ DnReturnOutput \/ DnFinish
  PROVE  Delivery!Next
<1>1. DownloadInv /\ delivered \subseteq published /\ published \subseteq FileContents
        /\ (dnManifest # Absent => dnManifest.plain \in published)
  BY DEF TransferInv, FetchedIsPublished, SignedIsPublished
<1>2. CASE DnPromote
  <2>1. /\ out'.data = dnManifest.plain /\ Exists(out')
        /\ delivered' = delivered \cup {dnManifest.plain}
    BY <1>1, <1>2, DownloadPromoteInv
  <2>2. dnPc = "promote" /\ dnPc' = "promoted" /\ (Overwrite \/ ~Exists(out))
    BY <1>1, <1>2 DEF DnPromote, DownloadInv, PromotionIsChecked, DnMayInstall
  <2>3. dnManifest.plain \in published
    BY <1>1, <2>2 DEF DownloadInv, WithManifest, Receiving
  <2>4. Delivery!Deliver(dnManifest.plain)
    BY <2>1, <2>2, <2>3 DEF Delivery!Deliver
  <2> QED
    BY <1>1, <2>3, <2>4 DEF Delivery!Next
<1>3. CASE DnTakeOutput
  <2>1. Exists(out) /\ ~Exists(out') /\ UNCHANGED <<delivered, dnPc, dnManifest>>
    BY <1>3 DEF DnTakeOutput, dnLocal, Exists
  <2>2. out.data \in Seq(Byte)
    BY <1>1, <2>1 DEF DownloadInv, DnTypeOK, Exists, File
  <2>3. out.data # Absent
    BY <2>2, FilesAssumption
  <2>4. Delivery!Take
    BY <2>1, <2>3 DEF Delivery!Take
  <2> QED
    BY <2>4 DEF Delivery!Next
<1>4. CASE DnReturnOutput
  <2>1. PICK c \in delivered : out' = [data |-> c, synced |-> Len(c)]
    BY <1>4 DEF DnReturnOutput
  <2>2. ~Exists(out) /\ UNCHANGED <<delivered, dnPc, dnManifest>>
    BY <1>4 DEF DnReturnOutput, dnLocal
  <2>3. out' \in File /\ out'.data = c
    BY <1>1, <2>1 DEF DownloadInv, DnTypeOK, File
  <2>4. Exists(out')
    BY <2>3, FilesAssumption DEF Exists
  <2>5. Delivery!Deliver(c)
    BY <1>1, <2>1, <2>2, <2>3, <2>4 DEF Delivery!Deliver
  <2> QED
    BY <1>1, <2>1, <2>5 DEF Delivery!Next
<1>5. CASE DnFinish
  <2>1. dnPc = "promoted" /\ dnPc' = "ok" /\ UNCHANGED <<out, delivered, dnManifest>>
    BY <1>5 DEF DnFinish, dnLocal
  <2>2. dnManifest.plain \in delivered
    BY <1>1, <2>1 DEF DownloadInv, PromotionIsChecked
  <2>3. Delivery!Report(dnManifest.plain)
    BY <2>1, <2>2 DEF Delivery!Report
  <2> QED
    BY <1>1, <2>2, <2>3 DEF Delivery!Next
<1> QED
  BY <1>2, <1>3, <1>4, <1>5

\* Every other step of the downloading program leaves the output alone, unless
\* it is a power loss, and does not end in success.
LEMMA QuietDownload ==
  ASSUME ~(FsyncMayFail /\ PowerMayFail), DownloadInv, DownloadAct,
         ~DnPromote, ~DnTakeOutput, ~DnReturnOutput, ~DnFinish
  PROVE  UNCHANGED <<out, delivered>> /\ dnPc' # "ok"
<1> USE DEF dnLocal, dnDisk
<1>1. CASE Download
  BY <1>1 DEF Download, DnStart
<1>2. CASE DnStop \/ DnRaise
  BY <1>2 DEF DnStop, DnExit, DnForget, DnRaise
<1>3. CASE DnPartWrite
  <2>1. PICK n \in 1..Len(chunks[dnIndex].data) : Write(SubSeq(chunks[dnIndex].data, 1, n))
    BY <1>3 DEF DnPartWrite
  <2>2. dnPc = "chunk" /\ DnMoreChunks /\ Genuine /\ UNCHANGED delivered
          /\ dnPc' \in {"off", "fail"}
    BY <1>3 DEF DnPartWrite, DnExit, DnForget
  <2>3. chunks[dnIndex].data \in Seq(Byte)
    BY <2>2, ListedChunk
  <2>4. SubSeq(chunks[dnIndex].data, 1, n) \in Seq(Byte)
    BY <2>1, <2>3, FirstPiece
  <2> QED
    BY <2>1, <2>2, <2>4, WriteInv
<1>4. CASE DnPowerLoss
  <2>1. ~FsyncMayFail
    BY <1>4, ReceiverAssumption DEF DnPowerLoss, DnDiskLosesPower
  <2> QED
    BY <1>4, <2>1, DownloadPowerLossInv
<1>5. CASE DnChunk
  <2>1. dnPc = "chunk" /\ DnMoreChunks /\ Genuine /\ Write(chunks[dnIndex].data)
          /\ UNCHANGED delivered /\ dnPc' = "save"
    BY <1>5 DEF DnChunk
  <2> QED
    BY <2>1, ListedChunk, WriteInv
<1>6. CASE DnSync
  <2>1. fd[Downloader] = "part"
    BY <1>6, ReceiverAssumption DEF DnSync, DownloadInv, PartIsOpen, Writing
  <2> QED
    BY <1>6, <2>1 DEF DnSync
<1>7. CASE DnFault
  BY <1>2, <1>3, <1>4, <1>7 DEF DnFault, DnError, DnStopped, DnKill
<1>8. CASE DnStep
  <2>1. CASE DnGetManifest \/ DnDiscardOld \/ DnDiscardState \/ DnResumable \/ DnMode
               \/ DnOpenNew \/ DnOpenOld \/ DnHash \/ DnSave \/ DnVerifyOk \/ DnFailClosed
               \/ DnFailState
    BY <2>1 DEF DnGetManifest, DnDiscardOld, DnDiscardState, DnResumable, DnMode, DnOpenNew,
                DnOpenOld, DnHash, AfterHashing, DnSave, DnVerifyOk, DnFailClosed, DnFailState,
                DnExit, DnForget
  <2>2. CASE DnNoManifest \/ DnBadManifest \/ DnCannotResume \/ DnUnreadableState
               \/ DnOpenFails \/ DnShortPrefix \/ DnNoChunk \/ DnBadChunk \/ DnVerifyMismatch
               \/ DnVerifyBlocked \/ DnNothingToPromote \/ DnDisconnected
    BY <1>2, <2>2
    DEF DnNoManifest, DnBadManifest, DnCannotResume, DnUnreadableState, DnOpenFails,
        DnShortPrefix, DnNoChunk, DnBadChunk, DnVerifyMismatch, DnVerifyBlocked,
        DnNothingToPromote, DnDisconnected
  <2> QED
    BY <1>5, <1>6, <1>8, <2>1, <2>2 DEF DnStep
<1> QED
  BY <1>1, <1>7, <1>8 DEF DownloadAct

\* Every step maps to a step of AtomicDelivery or to a stutter.
LEMMA NextRefines ==
  ASSUME ~(FsyncMayFail /\ PowerMayFail), TransferInv, [Next]_vars
  PROVE  [Delivery!Next]_Delivery!vars
<1>1. CASE UploadAct /\ UNCHANGED dnVars
  BY <1>1, UploadActInv, UploadRefines DEF TransferInv
<1>2. CASE DownloadAct /\ UNCHANGED upVars
  <2>1. UNCHANGED published
    BY <1>2 DEF upVars
  <2>2. CASE DnPromote \/ DnTakeOutput \/ DnReturnOutput \/ DnFinish
    BY <2>1, <2>2, DownloadRefines
  <2>3. CASE ~DnPromote /\ ~DnTakeOutput /\ ~DnReturnOutput /\ ~DnFinish
    <3>1. UNCHANGED <<out, delivered>> /\ dnPc' # "ok"
      BY <1>2, <2>3, QuietDownload DEF TransferInv
    <3>2. Delivery!Rerun
      BY <2>1, <3>1 DEF Delivery!Rerun
    <3> QED
      BY <3>2 DEF Delivery!Next
  <2> QED
    BY <2>2, <2>3
<1>3. CASE UNCHANGED <<upVars, dnVars>>
  <2>1. UNCHANGED published
    BY <1>3 DEF upVars
  <2> QED
    BY <1>3, <2>1, UploadRefines
<1>4. CASE UNCHANGED vars
  BY <1>3, <1>4 DEF vars
<1> QED
  BY <1>1, <1>2, <1>3, <1>4, NextCases

(***************************************************************************)
(* The envelope transfer implements AtomicDelivery: it starts as it does,  *)
(* and every step is one of its steps or leaves its variables alone.       *)
(* fsync may fail, or the host may lose power, but not both.               *)
(***************************************************************************)
THEOREM TransferImplementsDelivery ==
  ASSUME ~(FsyncMayFail /\ PowerMayFail)
  PROVE  Spec => ImplementsDelivery
<1>1. TransferInv /\ [Next]_vars => [Delivery!Next]_Delivery!vars
  BY NextRefines
<1> QED
  BY <1>1, InitRefines, TransferIsInvariant, PTL
  DEF Spec, ImplementsDelivery, Delivery!Spec
-----------------------------------------------------------------------------
(* The documented use: the upload.                                         *)

\* The one manifest is a manifest, and lists the input's chunks.
LEMMA OursIsManifest ==
  ASSUME UploadInv, sidecar # Absent
  PROVE  /\ Ours \in Manifest /\ Ours # Absent /\ Ours # Garbled
         /\ \A i : Listed(Ours, i) = Encrypt(sidecar.dek, i, PlainChunk(input, i, Len(input)))
<1>1. input \in Seq(Byte) /\ sidecar.dek \in Deks
  BY FormatAssumption DEF UploadInv, UpTypeOK, Sidecar
<1>2. Ours \in Manifest
  BY <1>1 DEF Ours, Manifest
<1>3. Ours.dek = sidecar.dek /\ Ours.plain = input
  BY DEF Ours
<1> QED
  BY <1>2, <1>3, GarbledAssumption DEF Listed

\* What a run uploads or compares is the listed chunk.
LEMMA OurChunk ==
  ASSUME UploadInv, OneKey, upPc = "upload", MoreChunks, Readable
  PROVE  Cipher = Listed(Ours, Next_i) /\ Cipher # Absent
<1>1. sidecar # Absent /\ upDek = sidecar.dek /\ upSize = Len(input)
  BY DEF OneKey, UpActive
<1>2. Cipher \in Ciphertext
  BY NextPlain
<1> QED
  BY <1>1, <1>2, OursIsManifest, GarbledAssumption DEF Cipher, Plain

\* Having done it, a run has done one chunk more of the input.
LEMMA OurChunkDone ==
  ASSUME UploadInv, OneKey, AllIsOurs, upPc = "upload", MoreChunks, Readable, ChunkDone
  PROVE  upHashed' = SubSeq(input, 1, Len(upHashed')) /\ Next_i' = Next_i + 1
<1>1. /\ Len(upHashed') = Offset(Next_i) + ChunkLength(Next_i, upSize)
      /\ Next_i' = Next_i + 1
  BY ChunkDoneOrder
<1>2. upHashed = SubSeq(input, 1, Offset(Next_i))
  BY NextChunk DEF AllIsOurs
<1>3. upHashed' = SubSeq(input, 1, Offset(Next_i)) \o Plain
  BY <1>2 DEF ChunkDone
<1> QED
  BY <1>1, <1>3, NextPlain

\* A run that has done all signs the one manifest.
LEMMA OurManifest ==
  ASSUME UploadInv, UploadedInv, upPc = "upload", ~MoreChunks
  PROVE  Signed = Ours /\ Have(ChunkCount(Len(input)))
<1>1. sidecar # Absent /\ upDek = sidecar.dek /\ upSize = Len(input)
  BY DEF UploadedInv, OneKey, UpActive
<1>2. Len(upHashed) = Len(input)
  BY <1>1, WholeFile
<1>3. input \in Seq(Byte) /\ upHashed = SubSeq(input, 1, Len(input))
  BY <1>2, FormatAssumption DEF UploadedInv, AllIsOurs, UploadInv, UpTypeOK
<1>4. upHashed = input
  BY <1>3, SubSeqFull
<1>5. Have(ChunkCount(Len(input)))
  BY <1>2 DEF UploadedInv, DoneIsThere, Next_i
<1> QED
  BY <1>1, <1>4, <1>5 DEF Signed, Ours

\* A run that is over, and has stored nothing, leaves it all as it is.
LEMMA OurExit ==
  ASSUME UploadInv, UploadedInv, NEW state \in {"off", "ok"}, UpExit(state),
         UNCHANGED <<input, sidecar, usedDeks, store, stray, dnManifest>>
  PROVE  UploadedInv'
<1>1. upHashed' = <<>> /\ upPc' \notin UpActive /\ upPc' # "upload" /\ Len(<<>>) = 0
  BY DEF UpExit, UpActive
<1>2. SubSeq(input, 1, 0) = <<>>
  BY FormatAssumption, SubSeqEmpty DEF UploadInv, UpTypeOK
<1>3. OneKey'
  BY <1>1 DEF UploadedInv, OneKey, store
<1>4. AllIsOurs'
  BY <1>1, <1>2 DEF UploadedInv, AllIsOurs, Ours, store
<1>5. DoneIsThere'
  BY <1>1 DEF UploadedInv, DoneIsThere, Have, store
<1> QED
  BY <1>3, <1>4, <1>5 DEF UploadedInv

\* The first run makes the key, and every other one uses it.
LEMMA OurUploadBegins ==
  ASSUME SingleUpload, UploadInv, UploadedInv, Upload, UNCHANGED dnManifest
  PROVE  UploadedInv'
<1>1. CASE UpResume
  <2>1. /\ sidecar # Absent /\ sidecar.size = Len(input) /\ upDek' = sidecar.dek
        /\ upSize' = Len(input) /\ upPc' = "list"
        /\ UNCHANGED <<input, sidecar, usedDeks, upHashed, chunks, manifest, signature, stray>>
    BY <1>1 DEF UpResume, UpBegin, ResumeDek, store
  <2>2. OneKey' /\ AllIsOurs' /\ DoneIsThere'
    BY <2>1 DEF UploadedInv, OneKey, AllIsOurs, DoneIsThere, Have, Ours
  <2> QED
    BY <2>2 DEF UploadedInv
<1>2. ASSUME NEW dek \in Deks, UpStart(dek) PROVE UploadedInv'
  <2>1. usedDeks = {} /\ sidecar = Absent
    BY <1>2 DEF SingleUpload, UpStart, UploadedInv, OneKey
  <2>2. /\ sidecar' = [dek |-> dek, size |-> Len(input)] /\ usedDeks' = {dek}
        /\ upDek' = dek /\ upSize' = Len(input) /\ upPc' = "list"
        /\ UNCHANGED <<input, upHashed, chunks, manifest, signature, stray>>
    BY <1>2, <2>1 DEF UpStart, UpBegin, store
  <2>3. Len(input) \in Nat
    BY FormatAssumption DEF UploadInv, UpTypeOK
  <2>4. sidecar' # Absent
    BY <2>2, <2>3, SidecarAssumption DEF Sidecar
  <2>5. OneKey' /\ AllIsOurs' /\ DoneIsThere'
    BY <2>1, <2>2, <2>4 DEF UploadedInv, OneKey, AllIsOurs, DoneIsThere
  <2> QED
    BY <2>5 DEF UploadedInv
<1> QED
  BY <1>1, <1>2 DEF Upload

\* LIST: none is done yet.
LEMMA OurList ==
  ASSUME UploadInv, UploadedInv, UpList, UNCHANGED dnManifest
  PROVE  UploadedInv'
<1>1. /\ upPc = "list" /\ upPc' = "upload"
      /\ UNCHANGED <<input, sidecar, usedDeks, upDek, upSize, upHashed, chunks, manifest,
                     signature, stray>>
  BY DEF UpList, brokerVars, store
<1>2. upHashed' = <<>> /\ Len(<<>>) = 0
  BY <1>1 DEF UploadInv, UploadInOrder
<1>3. Next_i' = 0
  BY <1>2, ChunksBeforeOffset, FormatAssumption DEF Next_i, Offset
<1>4. Indices \subseteq Nat
  BY DEF Indices
<1>5. OneKey' /\ AllIsOurs'
  BY <1>1 DEF UploadedInv, OneKey, AllIsOurs, Ours, UpActive
<1>6. DoneIsThere'
  BY <1>1, <1>3, <1>4 DEF UploadedInv, DoneIsThere, Have
<1> QED
  BY <1>5, <1>6 DEF UploadedInv

\* A chunk is compared, or stored.
LEMMA OurChunkStep ==
  ASSUME UploadInv, UploadedInv, UpCompare \/ UpPut, UNCHANGED dnManifest
  PROVE  UploadedInv'
<1>1. /\ upPc = "upload" /\ MoreChunks /\ Readable /\ ChunkDone
      /\ chunks' \in {chunks, [chunks EXCEPT ![Next_i] = Cipher]}
      /\ chunks'[Next_i] = Cipher
      /\ UNCHANGED <<manifest, signature, stray>>
  <2>1. Next_i \in Indices /\ chunks \in [Indices -> Ciphertext \cup {Absent, Garbled}]
    BY NextChunk DEF UpCompare, UpPut, UploadInv, BrokerInv, BrokerTypeOK
  <2> QED
    BY <2>1 DEF UpCompare, UpPut, SameAsStored, StoreChunk, brokerVars, store
<1>2. UNCHANGED <<input, sidecar, usedDeks, upPc, upDek, upSize>>
  BY <1>1 DEF ChunkDone
<1>3. upHashed' = SubSeq(input, 1, Len(upHashed')) /\ Next_i' = Next_i + 1
  BY <1>1, OurChunkDone DEF UploadedInv
<1>4. Cipher = Listed(Ours, Next_i) /\ Cipher # Absent
  BY <1>1, OurChunk DEF UploadedInv
<1>5. Next_i \in Nat /\ Indices \subseteq Nat /\ sidecar # Absent
  BY <1>1, NextChunk DEF Indices, UploadedInv, OneKey, UpActive
<1>6. \A i \in Indices : chunks'[i] = IF i = Next_i THEN Cipher ELSE chunks[i]
  BY <1>1 DEF UploadInv, BrokerInv, BrokerTypeOK
<1>7. OneKey'
  BY <1>1, <1>2, <1>5 DEF UploadedInv, OneKey
<1>8. AllIsOurs'
  BY <1>1, <1>2, <1>3, <1>4, <1>5, <1>6 DEF UploadedInv, AllIsOurs, Ours
<1>9. DoneIsThere'
  BY <1>1, <1>2, <1>3, <1>4, <1>5, <1>6 DEF UploadedInv, DoneIsThere, Have
<1> QED
  BY <1>7, <1>8, <1>9 DEF UploadedInv

\* The manifest is published, or a request is left behind.
LEMMA OurRequest ==
  ASSUME UploadInv, UploadedInv, Publishing \/ UpFailSent, UNCHANGED dnManifest
  PROVE  UploadedInv'
<1>1. upPc = "upload" /\ upHashed' = <<>> /\ upPc' \in {"off", "ok"}
        /\ UNCHANGED <<input, sidecar, usedDeks, chunks>>
  BY OutstandingPut, PublishingEffect DEF UpFailSent, UpExit, store
<1>2. SubSeq(input, 1, 0) = <<>> /\ Len(<<>>) = 0
  BY FormatAssumption, SubSeqEmpty DEF UploadInv, UpTypeOK
<1>3. sidecar # Absent
  BY <1>1 DEF UploadedInv, OneKey, UpActive
<1>4. CASE Publishing
  <2>1. ~MoreChunks /\ manifest' = Signed /\ UNCHANGED stray
    BY <1>4, PublishingEffect
  <2>2. Signed = Ours /\ Have(ChunkCount(Len(input)))
    BY <1>1, <2>1, OurManifest
  <2>3. OneKey' /\ AllIsOurs' /\ DoneIsThere'
    BY <1>1, <1>2, <1>3, <2>1, <2>2
    DEF UploadedInv, OneKey, AllIsOurs, DoneIsThere, Have, Ours, UpActive
  <2> QED
    BY <2>3 DEF UploadedInv
<1>5. CASE UpFailSent
  <2>1. PICK r \in Outstanding : stray' = stray \cup {r}
    BY <1>5 DEF UpFailSent
  <2>2. UNCHANGED manifest
    BY <1>5 DEF UpFailSent, store
  <2>3. \/ r.cmd = "PUT_MANIFEST" /\ r.manifest = Ours /\ Have(ChunkCount(Len(input)))
        \/ r.cmd = "PUT_CHUNK" /\ r.ct = Listed(Ours, r.index)
    BY OutstandingPut, OurManifest, OurChunk DEF UploadedInv
  <2>4. OneKey'
    BY <1>1, <1>3, <2>2 DEF UploadedInv, OneKey, UpActive
  <2>5. AllIsOurs'
    BY <1>1, <1>2, <1>3, <2>1, <2>2, <2>3 DEF UploadedInv, AllIsOurs, Ours
  <2>6. DoneIsThere'
    BY <1>1, <2>1, <2>2, <2>3 DEF UploadedInv, DoneIsThere, Have
  <2> QED
    BY <2>4, <2>5, <2>6 DEF UploadedInv
<1> QED
  BY <1>4, <1>5

\* No step of the uploading program, wherever it ends, puts anything else there.
LEMMA OurUpload ==
  ASSUME SingleUpload, UploadInv, UploadedInv, UploadAct, UNCHANGED dnManifest
  PROVE  UploadedInv'
<1>1. ~EditInput
  BY DEF SingleUpload, EditInput, UploadInv, UpTypeOK
<1>2. CASE UpMismatch \/ UpShortRead \/ UpFail
  BY <1>2, OurExit DEF UpMismatch, UpShortRead, UpFail
<1> QED
  BY <1>1, <1>2, OurUploadBegins, OurList, OurChunkStep, OurRequest
  DEF UploadAct, UpStep, UpFault, Publishing

\* The broker serves requests of the upload, and loses nothing but content.
LEMMA OurBroker ==
  ASSUME UploadInv, UploadedInv, BrokerOwnStep, UNCHANGED <<upVars, dnManifest>>
  PROVE  UploadedInv'
<1>1. UNCHANGED <<input, sidecar, usedDeks, upPc, upDek, upSize, upHashed>> /\ Next_i' = Next_i
  BY DEF upVars, upLocal, Next_i
<1>2. stray' \subseteq stray
  BY BrokerStepInv DEF UploadInv
<1>3. chunks \in [Indices -> Ciphertext \cup {Absent, Garbled}]
  BY DEF UploadInv, BrokerInv, BrokerTypeOK
<1>4. /\ \A i \in Indices : \/ chunks'[i] = chunks[i]
                            \/ chunks'[i] = Garbled /\ chunks[i] # Absent
                            \/ \E r \in stray : r.cmd = "PUT_CHUNK" /\ r.index = i
                                                  /\ chunks'[i] = r.ct
      /\ \/ manifest' = manifest
         \/ manifest' = Garbled /\ manifest # Absent
         \/ \E r \in stray : r.cmd = "PUT_MANIFEST" /\ manifest' = r.manifest
  <2>1. ASSUME NEW r \in stray, Serve(r)
        PROVE  \/ r.cmd = "PUT_CHUNK" /\ manifest' = manifest
                    /\ chunks' = [chunks EXCEPT ![r.index] = r.ct]
               \/ r.cmd = "PUT_MANIFEST" /\ manifest' = r.manifest /\ chunks' = chunks
    BY <2>1 DEF Serve, StoreChunk, StoreManifest
  <2>2. CASE ServeStray
    BY <1>3, <2>1, <2>2 DEF ServeStray
  <2>3. CASE BrokerKilled
    BY <2>3 DEF BrokerKilled, HalfManifest, store
  <2>4. CASE BrokerPowerLoss
    BY <1>3, <2>4 DEF BrokerPowerLoss, Stored, Unsynced
  <2>5. CASE \E c \in Clients : Disconnect(c)
    BY <2>5 DEF Disconnect, store
  <2>6. CASE StrayHalfDone
    BY <2>6 DEF StrayHalfDone, HalfManifest
  <2> QED
    BY <2>2, <2>3, <2>4, <2>5, <2>6 DEF BrokerOwnStep, BrokerFault
<1>5. \A r \in stray : r.cmd = "PUT_CHUNK" => r.ct \in Ciphertext
  BY DEF UploadInv, BrokerInv, BrokerTypeOK, Put, PutChunk, PutManifest
<1>6. OneKey'
  BY <1>1, <1>2, <1>4 DEF UploadedInv, OneKey
<1>7. AllIsOurs'
  BY <1>1, <1>2, <1>4 DEF UploadedInv, OneKey, AllIsOurs, Ours
<1>8. DoneIsThere'
  BY <1>1, <1>2, <1>4, <1>5, GarbledAssumption DEF UploadedInv, DoneIsThere, Have
<1> QED
  BY <1>6, <1>7, <1>8 DEF UploadedInv

\* The download only reads.
LEMMA OurDownload ==
  ASSUME UploadInv, UploadedInv, UNCHANGED <<upVars, store, stray>>,
         \/ dnManifest' \in {dnManifest, Absent}
         \/ ManifestVerifies /\ dnManifest' = manifest
  PROVE  UploadedInv'
<1>1. UNCHANGED <<input, sidecar, usedDeks, upPc, upDek, upSize, upHashed, chunks, manifest,
                  stray>> /\ Next_i' = Next_i
  BY DEF upVars, upLocal, Next_i, store
<1>2. dnManifest' = dnManifest \/ dnManifest' = Absent
        \/ (manifest # Absent /\ manifest # Garbled /\ dnManifest' = manifest)
  BY GarbledAssumption DEF ManifestVerifies
<1>3. OneKey' /\ AllIsOurs' /\ DoneIsThere'
  BY <1>1, <1>2 DEF UploadedInv, OneKey, AllIsOurs, DoneIsThere, Have, Ours
<1> QED
  BY <1>3 DEF UploadedInv

\* UploadedInv is inductive, and holds before the first run.
LEMMA NextUploaded ==
  ASSUME SingleUpload, TransferInv, UploadedInv, [Next]_vars
  PROVE  UploadedInv'
<1>1. UploadInv /\ DownloadInv
  BY DEF TransferInv
<1>2. CASE UploadAct /\ UNCHANGED dnVars
  BY <1>1, <1>2, OurUpload DEF dnVars, dnLocal
<1>3. CASE DownloadAct /\ UNCHANGED upVars
  BY <1>1, <1>3, DownloadEffects, OurDownload
<1>4. CASE BrokerOwnStep /\ UNCHANGED <<upVars, dnVars>>
  BY <1>1, <1>4, OurBroker DEF dnVars, dnLocal
<1>5. CASE UNCHANGED vars
  BY <1>1, <1>5, OurDownload DEF vars, brokerVars, dnVars, dnLocal
<1> QED
  BY <1>2, <1>3, <1>4, <1>5, NextCases

\* Before the first upload there is no sidecar, no chunk and no manifest.
LEMMA InitUploaded == Init => UploadedInv
<1> SUFFICES ASSUME Init PROVE UploadedInv
  OBVIOUS
<1>1. SubSeq(input, 1, 0) = <<>> /\ Len(<<>>) = 0
  BY FormatAssumption, SubSeqEmpty DEF Init, UpInit
<1>2. OneKey /\ AllIsOurs /\ DoneIsThere
  BY <1>1 DEF Init, BrokerInit, UpInit, DnInit, OneKey, AllIsOurs, DoneIsThere, UpActive
<1> QED
  BY <1>2 DEF UploadedInv

(***************************************************************************)
(* With one session id per upload of an input nobody edits, a manifest     *)
(* that verifies finds every chunk it lists on the broker, whatever fails, *)
(* late requests and a power loss of the broker included                   *)
(* (sender_encrypt_upload.py:200-212, broker_server.py:95-105).            *)
(***************************************************************************)
THEOREM PublishedIsCompleteHolds ==
  ASSUME SingleUpload
  PROVE  Spec => []PublishedIsComplete
<1>1. TransferInv /\ UploadedInv /\ [Next]_vars => UploadedInv'
  BY NextUploaded
<1>2. ASSUME TransferInv, UploadedInv, ManifestVerifies PROVE Complete
  <2>1. manifest \in Manifest /\ manifest # Absent /\ manifest # Garbled
    BY <1>2, GarbledAssumption DEF ManifestVerifies
  <2>2. sidecar # Absent /\ manifest = Ours /\ Have(ChunkCount(Len(input)))
    BY <1>2, <2>1 DEF UploadedInv, OneKey, AllIsOurs, DoneIsThere
  <2>3. Ours.plain = input /\ input \in Inputs /\ ChunkCount(Len(input)) \in Nat
    BY <1>2, FormatAssumption, ChunkCounted DEF Ours, TransferInv, UploadInv, UpTypeOK
  <2>4. ASSUME NEW i \in 0..ChunkCount(Len(input)) - 1
        PROVE  chunks[i] \in {Listed(Ours, i), Garbled}
    <3>1. i \in Nat /\ i < ChunkCount(Len(input))
      BY <2>3
    <3>2. i \in Indices
      BY <2>3, <3>1, ChunkIndex
    <3> QED
      BY <1>2, <2>2, <3>1, <3>2 DEF Have, UploadedInv, AllIsOurs
  <2> QED
    BY <2>2, <2>3, <2>4 DEF Complete
<1>3. TransferInv /\ UploadedInv => PublishedIsComplete
  BY <1>2 DEF PublishedIsComplete
<1> QED
  BY <1>1, <1>3, InitUploaded, TransferIsInvariant, PTL DEF Spec
-----------------------------------------------------------------------------
(* The documented use: the download.                                       *)

\* What a run goes by lists the input.
LEMMA ManifestOfInput ==
  ASSUME UploadInv, UploadedInv, dnManifest # Absent
  PROVE  /\ dnManifest = Ours /\ dnManifest.plain = input /\ sidecar # Absent
         /\ \A n : Prefix(n) = OffsetBefore([plain |-> input], n)
<1>1. dnManifest = Ours /\ sidecar # Absent
  BY DEF UploadedInv, OneKey, AllIsOurs
<1>2. dnManifest.plain = input
  BY <1>1 DEF Ours
<1> QED
  BY <1>1, <1>2 DEF Prefix, OffsetBefore

\* As long as nothing is written or counted the partial file stays what it is.
LEMMA KeepsPrefix ==
  ASSUME PartIsPrefix, NothingGarbled, UNCHANGED <<input, chunks>>,
         \/ part' = part \/ ~Exists(part')
         \/ Exists(part) /\ part'.data = part.data,
         nextIndex' \in {nextIndex, Absent}
  PROVE  PartIsPrefix' /\ NothingGarbled'
BY GarbledAssumption DEF PartIsPrefix, NothingGarbled

\* A chunk, or a part of it, is written where it belongs.
LEMMA WriteKeepsPrefix ==
  ASSUME UploadInv, DownloadInv, UploadedInv, PartIsPrefix,
         dnPc = "chunk", DnMoreChunks, Genuine,
         NEW n \in 0..Len(chunks[dnIndex].data),
         Write(SubSeq(chunks[dnIndex].data, 1, n)),
         UNCHANGED <<input, nextIndex>>
  PROVE  PartIsPrefix'
<1> DEFINE c == chunks[dnIndex].data
           off == Prefix(dnIndex)
<1>1. /\ c \in Seq(Byte) /\ part \in File /\ Exists(part)
      /\ off \in Nat /\ off <= Len(part.data)
      /\ Prefix(dnIndex + 1) = off + Len(c) /\ Prefix(dnIndex + 1) <= Len(dnManifest.plain)
      /\ SubSeq(dnManifest.plain, 1, off) \o c
           = SubSeq(dnManifest.plain, 1, Prefix(dnIndex + 1))
      /\ dnManifest \in Manifest
  BY ListedChunk
<1>2. dnManifest.plain = input /\ input \in Seq(Byte)
  <2>1. dnManifest # Absent
    BY <1>1, GarbledAssumption
  <2> QED
    BY <1>1, <2>1, ManifestOfInput DEF Manifest
<1>3. SubSeq(c, 1, n) \in Seq(Byte)
  BY <1>1, FirstPiece
<1>4. part' = WriteAt(part, off, SubSeq(c, 1, n)) /\ part' \in File
  BY <1>3, WriteInv
<1>5. Len(part.data) <= Len(input) /\ part.data = SubSeq(input, 1, Len(part.data))
  BY <1>1 DEF PartIsPrefix
<1>6. /\ Len(part.data) <= Len(part'.data) /\ Len(part'.data) <= Len(input)
      /\ part'.data = SubSeq(input, 1, Len(part'.data))
  <2>1. /\ input \in Seq(Byte) /\ part \in File /\ off \in Nat /\ c \in Seq(Byte)
        /\ Len(part.data) <= Len(input) /\ part.data = SubSeq(input, 1, Len(part.data))
        /\ off <= Len(part.data) /\ off + Len(c) <= Len(input)
        /\ SubSeq(input, 1, off) \o c = SubSeq(input, 1, off + Len(c))
        /\ n \in 0..Len(c)
    BY <1>1, <1>2, <1>5
  <2> HIDE DEF c, off
  <2> QED
    BY <1>4, <2>1, WritePrefix
<1>7. nextIndex \in Nat => /\ OffsetBefore([plain |-> input], nextIndex) \in Nat
                           /\ OffsetBefore([plain |-> input], nextIndex) <= Len(part.data)
  <2>1. \A i \in Nat : Offset(i) \in Nat
    BY OffsetSteps
  <2>2. Len(input) \in Nat
    BY <1>2
  <2> QED
    BY <1>1, <2>1, <2>2 DEF PartIsPrefix, OffsetBefore
<1>8. Len(part.data) \in Nat /\ Len(part'.data) \in Nat
  BY <1>1, <1>4 DEF File
<1> HIDE DEF c, off
<1> QED
  BY <1>6, <1>7, <1>8 DEF PartIsPrefix

\* The chunk that is counted is there (receiver_download_decrypt.py:238-247).
LEMMA SaveKeepsPrefix ==
  ASSUME UploadInv, DownloadInv, UploadedInv, PartIsPrefix, NothingGarbled, DnSave,
         UNCHANGED <<input, chunks>>
  PROVE  PartIsPrefix' /\ NothingGarbled'
<1>1. dnPc = "save" /\ nextIndex' = dnIndex + 1 /\ UNCHANGED part
  BY DEF DnSave, SavedIndex
<1>2. dnManifest # Absent /\ dnIndex \in Nat /\ Len(dnHashed) = Prefix(dnIndex + 1)
        /\ Exists(part) /\ Len(dnHashed) <= Len(part.data)
  BY <1>1
  DEF DownloadInv, DnTypeOK, WithManifest, Receiving, Writing, HashedSoFar, HashCoversPartial
<1>3. OffsetBefore([plain |-> input], nextIndex') <= Len(part.data)
  BY <1>1, <1>2, ManifestOfInput
<1>4. nextIndex' # Garbled
  BY <1>1, <1>2, GarbledAssumption
<1> QED
  BY <1>1, <1>3, <1>4 DEF PartIsPrefix, NothingGarbled

\* A file is emptied only when no chunk is counted.
LEMMA OpenKeepsPrefix ==
  ASSUME UploadInv, DownloadInv, UploadedInv, NothingGarbled, StateIsResumed, DnOpenNew,
         UNCHANGED <<input, chunks>>
  PROVE  PartIsPrefix' /\ NothingGarbled'
<1>1. dnPc = "openNew" /\ part' = EmptyFile /\ UNCHANGED nextIndex
  BY DEF DnOpenNew
<1>2. dnManifest # Absent /\ Prefix(dnIndex) = 0 /\ nextIndex \in {Absent, dnIndex}
  BY <1>1 DEF DownloadInv, WithManifest, HashedSoFar, StateIsResumed
<1>3. nextIndex \in Nat => OffsetBefore([plain |-> input], nextIndex) = 0
  BY <1>2, ManifestOfInput, GarbledAssumption
<1>4. part'.data = <<>> /\ Len(<<>>) = 0 /\ SubSeq(input, 1, 0) = <<>> /\ Len(input) \in Nat
  BY <1>1, EmptyFileFacts, SubSeqEmpty, FormatAssumption DEF UploadInv, UpTypeOK
<1> QED
  BY <1>1, <1>3, <1>4 DEF PartIsPrefix, NothingGarbled

\* Before a run opens the file it has discarded the state file or taken it up.
LEMMA StateStep ==
  ASSUME ~UnlinkMayFail, DownloadInv, DownloadAct, StateIsResumed
  PROVE  StateIsResumed'
<1> USE DEF dnLocal, dnDisk
<1>1. CASE dnPc' \notin {"mode", "openOld", "openNew"}
  BY <1>1 DEF StateIsResumed
<1>2. CASE DnDiscardState
  BY <1>2 DEF DnDiscardState, Unlinked, StateIsResumed
<1>3. CASE DnResumable
  BY <1>3 DEF DnResumable, StateIsResumed
<1>4. CASE DnMode
  BY <1>4 DEF DnMode, StateIsResumed
<1>5. CASE DnTakeOutput \/ DnReturnOutput
  BY <1>5 DEF DnTakeOutput, DnReturnOutput, StateIsResumed
<1>6. CASE Download
  BY <1>1, <1>6 DEF Download, DnStart
<1>7. CASE DnStop \/ DnRaise
  BY <1>1, <1>7 DEF DnStop, DnExit, DnForget, DnRaise
<1>8. CASE DnFault
  BY <1>1, <1>7, <1>8
  DEF DnFault, DnError, DnStopped, DnKill, DnPartWrite, DnPowerLoss, DnExit, DnForget
<1>9. CASE DnStep
  <2>1. CASE DnGetManifest \/ DnDiscardOld \/ DnOpenNew \/ DnOpenOld \/ DnHash \/ DnChunk
               \/ DnSave \/ DnSync \/ DnVerifyOk \/ DnPromote \/ DnFinish \/ DnFailClosed
               \/ DnFailState
    BY <1>1, <2>1
    DEF DnGetManifest, DnDiscardOld, DnOpenNew, DnOpenOld, DnHash, AfterHashing, DnChunk,
        DnSave, DnSync,
        DnVerifyOk, DnPromote, DnFinish, DnFailClosed, DnFailState, DnExit, DnForget
  <2>2. CASE DnNoManifest \/ DnBadManifest \/ DnCannotResume \/ DnUnreadableState
               \/ DnOpenFails \/ DnShortPrefix \/ DnNoChunk \/ DnBadChunk \/ DnVerifyMismatch
               \/ DnVerifyBlocked \/ DnNothingToPromote \/ DnDisconnected
    BY <1>7, <2>2
    DEF DnNoManifest, DnBadManifest, DnCannotResume, DnUnreadableState, DnOpenFails,
        DnShortPrefix, DnNoChunk, DnBadChunk, DnVerifyMismatch, DnVerifyBlocked,
        DnNothingToPromote, DnDisconnected
  <2> QED
    BY <1>2, <1>3, <1>4, <1>9, <2>1, <2>2 DEF DnStep
<1> QED
  BY <1>5, <1>6, <1>8, <1>9 DEF DownloadAct

\* What a step of the downloading program makes of the files it resumes from.
LEMMA PrefixStep ==
  ASSUME ~UnlinkMayFail, ~PowerMayFail,
         UploadInv, DownloadInv, UploadedInv, NothingGarbled, PartIsPrefix, StateIsResumed,
         DownloadAct, UNCHANGED <<input, chunks>>
  PROVE  PartIsPrefix' /\ NothingGarbled'
<1> USE DEF dnLocal, dnDisk
<1>1. CASE /\ part' = part \/ ~Exists(part')
           /\ nextIndex' \in {nextIndex, Absent}
  BY <1>1, KeepsPrefix
<1>2. CASE Download \/ DnTakeOutput \/ DnReturnOutput
  BY <1>1, <1>2 DEF Download, DnStart, DnTakeOutput, DnReturnOutput
<1>3. CASE DnStop \/ DnRaise
  BY <1>1, <1>3 DEF DnStop, DnRaise
<1>4. CASE DnChunk
  <2>1. /\ dnPc = "chunk" /\ DnMoreChunks /\ Genuine /\ Write(chunks[dnIndex].data)
        /\ UNCHANGED nextIndex
    BY <1>4 DEF DnChunk
  <2>2. chunks[dnIndex].data \in Seq(Byte)
    BY <2>1, ListedChunk
  <2>3. SubSeq(chunks[dnIndex].data, 1, Len(chunks[dnIndex].data)) = chunks[dnIndex].data
          /\ Len(chunks[dnIndex].data) \in 0..Len(chunks[dnIndex].data)
    BY <2>2, SubSeqFull
  <2>4. PartIsPrefix'
    BY <2>1, <2>3, WriteKeepsPrefix
  <2> QED
    BY <2>1, <2>4 DEF NothingGarbled
<1>5. CASE DnPartWrite
  <2>1. PICK n \in 1..Len(chunks[dnIndex].data) : Write(SubSeq(chunks[dnIndex].data, 1, n))
    BY <1>5 DEF DnPartWrite
  <2>2. dnPc = "chunk" /\ DnMoreChunks /\ Genuine /\ UNCHANGED nextIndex
    BY <1>5 DEF DnPartWrite
  <2>3. n \in 0..Len(chunks[dnIndex].data)
    BY <2>1
  <2>4. PartIsPrefix'
    BY <2>1, <2>2, <2>3, WriteKeepsPrefix
  <2> QED
    BY <2>2, <2>4 DEF NothingGarbled
<1>6. CASE DnSync
  <2>1. UNCHANGED nextIndex /\ dnPc = "chunk"
    BY <1>6 DEF DnSync
  <2>2. part \in File /\ Exists(part)
    BY <2>1 DEF DownloadInv, DnTypeOK, HashedSoFar, HashCoversPartial, Receiving, Writing, Exists
  <2>3. part' = part \/ part' = Synced(part)
    BY <1>6 DEF DnSync
  <2>4. part'.data = part.data
    BY <2>2, <2>3, SyncedFile
  <2> QED
    BY <2>1, <2>2, <2>4, KeepsPrefix
<1>7. CASE DnFault
  <2>1. ~DnPowerLoss
    BY DEF DnPowerLoss, DnDiskLosesPower
  <2> QED
    BY <1>3, <1>5, <1>7, <2>1 DEF DnFault, DnError, DnStopped, DnKill
<1>8. CASE DnStep
  <2>1. CASE DnGetManifest \/ DnDiscardOld \/ DnDiscardState \/ DnResumable \/ DnMode
               \/ DnOpenOld \/ DnHash \/ DnVerifyOk \/ DnPromote \/ DnFinish \/ DnFailClosed
               \/ DnFailState
    BY <1>1, <2>1
    DEF DnGetManifest, DnDiscardOld, DnDiscardState, DnResumable, DnMode, DnOpenOld, DnHash,
        DnVerifyOk, DnPromote, DnFinish, DnFailClosed, DnFailState, UnlinkPart, Unlinked, Exists
  <2>2. CASE DnNoManifest \/ DnBadManifest \/ DnCannotResume \/ DnUnreadableState
               \/ DnOpenFails \/ DnShortPrefix \/ DnNoChunk \/ DnBadChunk \/ DnVerifyMismatch
               \/ DnVerifyBlocked \/ DnNothingToPromote \/ DnDisconnected
    BY <1>3, <2>2
    DEF DnNoManifest, DnBadManifest, DnCannotResume, DnUnreadableState, DnOpenFails,
        DnShortPrefix, DnNoChunk, DnBadChunk, DnVerifyMismatch, DnVerifyBlocked,
        DnNothingToPromote, DnDisconnected
  <2> QED
    BY <1>4, <1>6, <1>8, <2>1, <2>2, SaveKeepsPrefix, OpenKeepsPrefix DEF DnStep
<1> QED
  BY <1>2, <1>7, <1>8 DEF DownloadAct

\* Nothing becomes unreadable on the broker.
LEMMA StoreReadable ==
  ASSUME ~BrokerPowerMayFail, UploadInv, NothingGarbled, UNCHANGED nextIndex,
         UploadAct \/ BrokerOwnStep
  PROVE  NothingGarbled'
<1>1. chunks \in [Indices -> Ciphertext \cup {Absent, Garbled}]
        /\ \A r \in stray : r.cmd = "PUT_CHUNK" => r.ct # Garbled
  BY GarbledAssumption
  DEF UploadInv, BrokerInv, BrokerTypeOK, Put, PutChunk, PutManifest
<1>2. CASE UNCHANGED chunks
  BY <1>2 DEF NothingGarbled
<1>3. CASE UploadAct
  <2>1. CASE UpPut
    <3>1. Cipher # Garbled /\ chunks' = [chunks EXCEPT ![Next_i] = Cipher]
      BY <2>1, NextPlain, GarbledAssumption DEF UpPut, StoreChunk
    <3> QED
      BY <1>1, <3>1 DEF NothingGarbled
  <2>2. CASE Publishing
    BY <1>2, <2>2, PublishingEffect
  <2> QED
    BY <1>2, <1>3, <2>1, <2>2
    DEF UploadAct, Upload, UpStart, UpResume, UpBegin, EditInput, UpStep, UpFault, Publishing,
        UpList, UpCompare, UpMismatch, UpShortRead, UpFail, UpFailSent, brokerVars, store
<1>4. CASE BrokerOwnStep
  <2>1. CASE ServeStray
    BY <1>1, <2>1 DEF ServeStray, Serve, StoreChunk, StoreManifest, NothingGarbled
  <2> QED
    BY <1>2, <1>4, <2>1
    DEF BrokerOwnStep, BrokerFault, BrokerKilled, StrayHalfDone, HalfManifest,
        BrokerPowerLoss, Disconnect, store
<1> QED
  BY <1>3, <1>4

\* DocumentedInv is inductive, and holds before the first run.
LEMMA NextDocumented ==
  ASSUME DocumentedUse, TransferInv, DocumentedInv, [Next]_vars
  PROVE  DocumentedInv'
<1>1. /\ UploadInv /\ DownloadInv /\ UploadedInv /\ NothingGarbled /\ PartIsPrefix
      /\ StateIsResumed
  BY DEF TransferInv, DocumentedInv
<1>2. SingleUpload /\ ~BrokerPowerMayFail /\ ~PowerMayFail /\ ~UnlinkMayFail
  BY DEF DocumentedUse
<1>3. UploadedInv'
  BY <1>1, <1>2, NextUploaded
<1>4. input' = input
  <2>1. input \in Inputs
    BY <1>1 DEF UploadInv, UpTypeOK
  <2>2. input' \in Inputs
    BY NextTransfer DEF TransferInv, UploadInv, UpTypeOK
  <2> QED
    BY <1>2, <2>1, <2>2 DEF SingleUpload
<1>5. CASE UploadAct /\ UNCHANGED dnVars
  <2>1. UNCHANGED <<part, nextIndex, dnPc, dnIndex>>
    BY <1>5 DEF dnVars, dnDisk, dnLocal
  <2>2. PartIsPrefix' /\ StateIsResumed'
    BY <1>1, <1>4, <2>1 DEF PartIsPrefix, StateIsResumed
  <2> QED
    BY <1>1, <1>2, <1>3, <1>5, <2>1, <2>2, StoreReadable DEF DocumentedInv
<1>6. CASE DownloadAct /\ UNCHANGED upVars
  <2>1. UNCHANGED <<input, chunks>>
    BY <1>1, <1>4, <1>6, DownloadEffects DEF store
  <2>2. PartIsPrefix' /\ NothingGarbled'
    BY <1>1, <1>2, <1>6, <2>1, PrefixStep
  <2>3. StateIsResumed'
    BY <1>1, <1>2, <1>6, StateStep
  <2> QED
    BY <1>3, <2>2, <2>3 DEF DocumentedInv
<1>7. CASE BrokerOwnStep /\ UNCHANGED <<upVars, dnVars>>
  <2>1. UNCHANGED <<part, nextIndex, dnPc, dnIndex>>
    BY <1>7 DEF dnVars, dnDisk, dnLocal
  <2>2. PartIsPrefix' /\ StateIsResumed'
    BY <1>1, <1>4, <2>1 DEF PartIsPrefix, StateIsResumed
  <2> QED
    BY <1>1, <1>2, <1>3, <1>7, <2>1, <2>2, StoreReadable DEF DocumentedInv
<1>8. CASE UNCHANGED vars
  <2>1. UNCHANGED <<part, nextIndex, dnPc, dnIndex, chunks>>
    BY <1>8 DEF vars, brokerVars, store, dnVars, dnDisk, dnLocal
  <2>2. PartIsPrefix' /\ StateIsResumed' /\ NothingGarbled'
    BY <1>1, <1>4, <2>1 DEF PartIsPrefix, StateIsResumed, NothingGarbled
  <2> QED
    BY <1>3, <2>2 DEF DocumentedInv
<1> QED
  BY <1>5, <1>6, <1>7, <1>8, NextCases

\* Nor is there a partial file or a state file.
LEMMA InitDocumented == Init => DocumentedInv
<1> SUFFICES ASSUME Init PROVE DocumentedInv
  OBVIOUS
<1>1. NothingGarbled /\ PartIsPrefix /\ StateIsResumed
  BY GarbledAssumption
  DEF Init, BrokerInit, DnInit, NothingGarbled, PartIsPrefix, StateIsResumed, Exists
<1> QED
  BY <1>1, InitUploaded DEF DocumentedInv

\* In the documented use every reachable state satisfies both invariants.
LEMMA DocumentedIsInvariant ==
  ASSUME DocumentedUse
  PROVE  Spec => [](TransferInv /\ DocumentedInv)
<1>1. TransferInv /\ DocumentedInv /\ [Next]_vars => DocumentedInv'
  BY NextDocumented
<1> QED
  BY <1>1, InitTransfer, InitDocumented, NextTransfer, PTL DEF Spec

(***************************************************************************)
(* In the documented use the receiver never refuses what an honest sender  *)
(* has uploaded, whatever sequence of kills, lost connections and          *)
(* resumptions either program went through: every chunk is the listed one, *)
(* and the assembled file verifies (receiver_download_decrypt.py:217,      *)
(* 257-261).                                                               *)
(***************************************************************************)
THEOREM HonestUploadIsAccepted ==
  ASSUME DocumentedUse
  PROVE  Spec => []HonestUploadAccepted
<1>1. ASSUME TransferInv, DocumentedInv, dnPc = "chunk", DnMoreChunks PROVE Genuine
  <2>1. dnManifest # Absent /\ dnIndex \in Nat /\ dnIndex < ChunkCount(Len(dnManifest.plain))
    BY <1>1 DEF TransferInv, DownloadInv, DnTypeOK, WithManifest, Receiving, Writing, DnMoreChunks
  <2>2. dnManifest = Ours /\ dnManifest.plain = input /\ sidecar # Absent /\ input \in Inputs
    BY <1>1, <2>1, ManifestOfInput DEF TransferInv, DocumentedInv, UploadInv, UpTypeOK
  <2>3. dnIndex \in Indices
    BY <2>1, <2>2, ChunkIndex
  <2>4. chunks[dnIndex] # Absent /\ chunks[dnIndex] # Garbled
    BY <1>1, <2>1, <2>2, <2>3
    DEF DocumentedInv, UploadedInv, DoneIsThere, Have, NothingGarbled
  <2> QED
    BY <1>1, <2>2, <2>3, <2>4 DEF DocumentedInv, UploadedInv, AllIsOurs, Genuine
<1>2. ASSUME TransferInv, DocumentedInv, dnPc = "verify" PROVE DnVerified
  <2>1. /\ dnManifest # Absent /\ dnHashed \in Seq(Byte) /\ part \in File /\ Exists(part)
        /\ Len(dnHashed) = Len(dnManifest.plain) /\ Len(dnHashed) <= Len(part.data)
        /\ SubSeq(part.data, 1, Len(dnHashed)) = dnHashed
    BY <1>2
    DEF TransferInv, DownloadInv, DnTypeOK, WithManifest, HashedSoFar, HashCoversPartial,
        Receiving, Exists
  <2>2. dnManifest.plain = input /\ input \in Seq(Byte)
    BY <1>2, <2>1, ManifestOfInput, FormatAssumption
    DEF TransferInv, DocumentedInv, UploadInv, UpTypeOK
  <2>3. Len(part.data) <= Len(input) /\ part.data = SubSeq(input, 1, Len(part.data))
    BY <1>2, <2>1 DEF DocumentedInv, PartIsPrefix
  <2>4. Len(part.data) = Len(input) /\ part.data \in Seq(Byte)
    BY <2>1, <2>2, <2>3 DEF File
  <2>5. part.data = input /\ dnHashed = part.data
    BY <2>1, <2>2, <2>3, <2>4, SubSeqFull
  <2> QED
    BY <2>1, <2>2, <2>5 DEF DnVerified
<1>3. TransferInv /\ DocumentedInv => HonestUploadAccepted
  BY <1>1, <1>2 DEF HonestUploadAccepted
<1> QED
  BY <1>3, DocumentedIsInvariant, PTL

(***************************************************************************)
(* In the documented use the chunks the state file counts as done are in   *)
(* the partial file, at their place, wherever a run ended                  *)
(* (receiver_download_decrypt.py:232-247).                                 *)
(***************************************************************************)
THEOREM CountedIsThereHolds ==
  ASSUME DocumentedUse
  PROVE  Spec => []CountedIsThere
<1>1. ASSUME TransferInv, DocumentedInv, nextIndex \in Nat, Exists(part)
      PROVE  LET done == OffsetBefore([plain |-> input], nextIndex)
             IN  Len(part.data) >= done /\ SubSeq(part.data, 1, done) = SubSeq(input, 1, done)
  <2> DEFINE done == OffsetBefore([plain |-> input], nextIndex)
             n == Len(part.data)
  <2>1. /\ input \in Seq(Byte) /\ n \in Nat /\ n <= Len(input) /\ done <= n
        /\ part.data = SubSeq(input, 1, n) /\ part.data \in Seq(Byte)
    BY <1>1, FormatAssumption
    DEF DocumentedInv, PartIsPrefix, TransferInv, UploadInv, UpTypeOK, DownloadInv, DnTypeOK,
        Exists, File
  <2>2. done \in Nat /\ Len(input) \in Nat
    BY <1>1, <2>1, OffsetSteps DEF OffsetBefore
  <2> HIDE DEF done
  <2>3. /\ SubSeq(part.data, 1, done) \in Seq(Byte) /\ Len(SubSeq(part.data, 1, done)) = done
        /\ \A i \in 1..done : SubSeq(part.data, 1, done)[i] = part.data[i]
    BY <2>1, <2>2, FirstPiece
  <2>4. /\ SubSeq(input, 1, done) \in Seq(Byte) /\ Len(SubSeq(input, 1, done)) = done
        /\ \A i \in 1..done : SubSeq(input, 1, done)[i] = input[i]
    BY <2>1, <2>2, FirstPiece
  <2>5. \A i \in 1..n : part.data[i] = input[i]
    BY <2>1, FirstPiece
  <2>6. \A i \in 1..done : SubSeq(part.data, 1, done)[i] = SubSeq(input, 1, done)[i]
    BY <2>1, <2>2, <2>3, <2>4, <2>5
  <2>7. SubSeq(part.data, 1, done) = SubSeq(input, 1, done)
    BY <2>3, <2>4, <2>6, SeqEqual
  <2> QED
    BY <2>1, <2>2, <2>7 DEF done
<1>2. TransferInv /\ DocumentedInv => CountedIsThere
  BY <1>1 DEF CountedIsThere
<1> QED
  BY <1>2, DocumentedIsInvariant, PTL
=============================================================================
