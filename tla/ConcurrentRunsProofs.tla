------------------------ MODULE ConcurrentRunsProofs ------------------------
(***************************************************************************)
(* Proofs about two runs of one program: ConcurrentUploads and             *)
(* ConcurrentDownloads.  Both programs of a module are the same, so each   *)
(* specification is first shown to take the steps of one run or the other  *)
(* of a program over functions of the run, which only then is reasoned     *)
(* about.                                                                  *)
(***************************************************************************)
EXTENDS ConcurrentUploads, ConcurrentDownloads, BrokerProofs

-----------------------------------------------------------------------------
(* Two uploads: the two runs are one program, so what follows speaks of a  *)
(* run u, whichever of the two it is.                                      *)

\* The two runs, by the connections they have.
Uploaders == {Uploader, Uploader2}

\* What a run has in memory.
Run(pc, dek, size, onBroker, hashed) ==
  [pc |-> pc, dek |-> dek, size |-> size, onBroker |-> onBroker, hashed |-> hashed]

\* What each run has in memory.
upRun == [u \in Uploaders |->
  IF u = Uploader THEN Run(upPc, upDek, upSize, upOnBroker, upHashed)
                  ELSE Run(upPc2, upDek2, upSize2, upOnBroker2, upHashed2)]

\* One run becomes r, the other one stays what it is.
Becomes(u, r) == upRun'[u] = r /\ \A v \in Uploaders \ {u} : upRun'[v] = upRun[v]

\* A run that has not ended.
Uploading(u) == upRun[u].pc \in UpActive

\* Next_i, MoreChunks, Readable, Plain, Cipher and Signed of a run.
NextOf(u) == ChunkCount(Len(upRun[u].hashed))
MoreOf(u) == NextOf(u) < ChunkCount(upRun[u].size)
ReadableOf(u) ==
  Offset(NextOf(u)) + ChunkLength(NextOf(u), upRun[u].size) <= Len(input)
PlainOf(u) == PlainChunk(input, NextOf(u), upRun[u].size)
CipherOf(u) == Encrypt(upRun[u].dek, NextOf(u), PlainOf(u))
SignedOf(u) == [dek |-> upRun[u].dek, plain |-> upRun[u].hashed]

\* The steps of a run, by what they do to it and to what it shares.
Ends(u, state) ==
  /\ Becomes(u, Run(state, Absent, 0, {}, <<>>))
  /\ connected' = connected \ {u}
  /\ UNCHANGED <<input, usedDeks>>
  /\ \/ UNCHANGED sidecar
     \/ sidecar' = Absent /\ \A v \in Uploaders \ {u} : ~Uploading(v)

\* A run begins: a new upload if there is none, or one that is resumed.
Begins(u) ==
  /\ upRun[u].pc \in {"off", "ok"}
  /\ \/ UNCHANGED <<sidecar, usedDeks>>
     \/ /\ \A v \in Uploaders : ~Uploading(v)
        /\ usedDeks = {} \/ ReuseSession
        /\ \E dek \in Deks : usedDeks' = usedDeks \cup {dek}
                               /\ sidecar' = [dek |-> dek, size |-> Len(input)]
  /\ sidecar' # Absent /\ sidecar'.size = Len(input)
  /\ Becomes(u, Run("list", sidecar'.dek, Len(input), upRun[u].onBroker, upRun[u].hashed))
  /\ connected' = connected \cup {u}
  /\ UNCHANGED <<input, published, store, stray>>

\* It asks which chunks are there (sender_encrypt_upload.py:186).
ListsStored(u) ==
  /\ upRun[u].pc = "list"
  /\ Becomes(u, Run("upload", upRun[u].dek, upRun[u].size, Stored, upRun[u].hashed))
  /\ UNCHANGED <<upShared, brokerVars>>

\* The run goes on with the next chunk: it is there, or is put there.
HasDone(u) ==
  /\ upRun[u].pc = "upload" /\ MoreOf(u) /\ ReadableOf(u)
  /\ Becomes(u, Run("upload", upRun[u].dek, upRun[u].size, upRun[u].onBroker,
                    upRun[u].hashed \o PlainOf(u)))
  /\ UNCHANGED <<upShared, manifest, signature, stray, connected>>

\* A chunk that is there is the same (sender_encrypt_upload.py:200-206).
Compares(u) == HasDone(u) /\ chunks[NextOf(u)] = CipherOf(u) /\ UNCHANGED chunks

\* A chunk that was not there is put there (sender_encrypt_upload.py:208-212).
Puts(u) ==
  /\ HasDone(u)
  /\ NextOf(u) \notin upRun[u].onBroker /\ u \in connected
  /\ chunks' = [chunks EXCEPT ![NextOf(u)] = CipherOf(u)]

\* The manifest is published, or half of it (sender_encrypt_upload.py:227-250).
Publishes(u) ==
  /\ upRun[u].pc = "upload" /\ ~MoreOf(u)
  /\ manifest' = SignedOf(u) /\ signature' \in {"valid", "invalid", Absent}
  /\ published' = published \cup {upRun[u].hashed}
  /\ \E state \in {"off", "ok"} : Ends(u, state)
  /\ UNCHANGED <<chunks, stray>>

\* A run fails.
Leaves(u) == Ends(u, "off") /\ UNCHANGED <<published, store, stray>>

\* What a run may leave behind.
Request(u, r) ==
  \/ ~MoreOf(u) /\ r = [cmd |-> "PUT_MANIFEST", manifest |-> SignedOf(u)]
  \/ /\ MoreOf(u) /\ ReadableOf(u)
     /\ r = [cmd |-> "PUT_CHUNK", index |-> NextOf(u), ct |-> CipherOf(u)]

\* It fails and leaves a request behind, which the broker may still serve.
LeavesSent(u) ==
  /\ upRun[u].pc = "upload"
  /\ Cardinality(stray) < MaxStray
  /\ \E r : Request(u, r) /\ stray' = stray \cup {r}
  /\ published' \in {published, published \cup {upRun[u].hashed}}
  /\ Ends(u, "off")
  /\ UNCHANGED store

\* The steps of a run.
UpActs(u) ==
  \/ Begins(u) \/ ListsStored(u) \/ Compares(u) \/ Puts(u) \/ Publishes(u)
  \/ Leaves(u) \/ LeavesSent(u)

\* The user edits the input.
Edits ==
  /\ ~overlapped
  /\ input' \in Inputs \ {input}
  /\ UNCHANGED <<upRun, sidecar, usedDeks, published, brokerVars>>

\* The broker's own steps, and lost connections.
OnBroker == BrokerOwnStep /\ UNCHANGED <<upRun, upShared>>

\* The history of runs beside each other.
OverlapFollows ==
  overlapped' = \/ \A u \in Uploaders : Uploading(u)'
                \/ overlapped /\ \E u \in Uploaders : Uploading(u)'

\* The steps of the two uploads.
UploadsStep ==
  /\ (\E u \in Uploaders : UpActs(u)) \/ Edits \/ OnBroker
  /\ OverlapFollows
-----------------------------------------------------------------------------
(* Two uploads: types, and the invariant without late requests.            *)

\* The types of what a run has in memory.
TypedRun(u) ==
  /\ upRun[u].pc \in UpActive \cup {"off", "ok"}
  /\ upRun[u].dek \in Deks \cup {Absent}
  /\ (upRun[u].dek # Absent) = Uploading(u)
  /\ upRun[u].size \in Nat
  /\ upRun[u].onBroker \subseteq Indices
  /\ upRun[u].hashed \in Seq(Byte)

\* A run has a size that some version of the input has, and has done whole
\* chunks of it, one after the other.
InOrder(u) ==
  /\ upRun[u].pc # "upload" => upRun[u].hashed = <<>>
  /\ Uploading(u) =>
       /\ \E f \in Inputs : upRun[u].size = Len(f)
       /\ Len(upRun[u].hashed) <= upRun[u].size
       /\ Len(upRun[u].hashed) = upRun[u].size \/ Len(upRun[u].hashed) = Offset(NextOf(u))

\* Types, with the sizes that follow from the loop over the chunks.
RunsTyped ==
  /\ BrokerInv
  /\ input \in Inputs
  /\ sidecar \in Sidecar \cup {Absent}
  /\ usedDeks \subseteq Deks
  /\ published \subseteq Seq(Byte)
  /\ overlapped \in BOOLEAN
  /\ \A u \in Uploaders : TypedRun(u) /\ InOrder(u)

\* A run that goes on works on what the sidecar says.
FromSidecar(u) ==
  Uploading(u) =>
    sidecar # Absent /\ upRun[u].dek = sidecar.dek /\ upRun[u].size = sidecar.size

\* Two runs beside each other are seen.
OverlapSeen == (\A u \in Uploaders : Uploading(u)) => overlapped

\* What a run that reads chunk i now makes of it.
Current(i) == Encrypt(sidecar.dek, i, PlainChunk(input, i, sidecar.size))

\* Every chunk a run has done is on the broker.
DoneIsStored(u) ==
  Uploading(u) =>
    \A i \in Indices : i < NextOf(u) =>
      chunks[i] \in {Encrypt(upRun[u].dek, i,
                             PlainChunk(upRun[u].hashed, i, upRun[u].size)), Garbled}

\* A chunk that was not there when the run looked is still not there, or is the one
\* this run would put there.
AheadIsSame(u) ==
  upRun[u].pc = "upload" /\ u \in connected =>
    \A i \in Indices \ upRun[u].onBroker :
      NextOf(u) <= i /\ i < ChunkCount(upRun[u].size) =>
        chunks[i] = Absent \/ (overlapped /\ chunks[i] = Current(i))

\* What is published has as many chunks as some version of the input.
ManifestOfInput == ManifestVerifies => \E f \in Inputs : Len(manifest.plain) = Len(f)

\* The invariant of the two uploads, if no request arrives late.
UploadsInv ==
  /\ RunsTyped
  /\ OverlapSeen
  /\ ManifestOfInput
  /\ \A u \in Uploaders : FromSidecar(u) /\ DoneIsStored(u) /\ AheadIsSame(u)
  /\ PublishedIsComplete
-----------------------------------------------------------------------------
(* Two uploads: the invariant of one upload.                               *)

\* One version of the input, and no second upload of the session id.
SingleUpload == (\A f, g \in Inputs : f = g) /\ ~ReuseSession

\* The one manifest there can be.
Ours == [dek |-> CHOOSE dek \in usedDeks : TRUE, plain |-> input]

\* The first n chunks are on the broker.
Have(n) == \A i \in Indices : i < n => chunks[i] # Absent

\* A run goes through the one upload, and what it has done is there.
RunIsOurs(u) ==
  /\ Uploading(u) =>
       sidecar # Absent /\ upRun[u].dek = sidecar.dek /\ upRun[u].size = Len(input)
  /\ upRun[u].hashed = SubSeq(input, 1, Len(upRun[u].hashed))
  /\ upRun[u].pc = "upload" => Have(NextOf(u))

\* There is one key, and nothing before there is one.
OneKey ==
  /\ sidecar # Absent => usedDeks = {sidecar.dek}
  /\ usedDeks = {} =>
       stray = {} /\ manifest = Absent /\ \A i \in Indices : chunks[i] = Absent

\* All there is, and all that is on its way, is part of the one upload.
AllIsOurs ==
  usedDeks # {} =>
    /\ \A i \in Indices : chunks[i] \in {Absent, Garbled, Listed(Ours, i)}
    /\ manifest \in {Absent, Garbled, Ours}
    /\ \A r \in stray : IF r.cmd = "PUT_CHUNK" THEN r.ct = Listed(Ours, r.index)
                         ELSE r.manifest = Ours

\* All chunks are there before there is a manifest.
DoneFirst ==
  manifest # Absent \/ (\E r \in stray : r.cmd = "PUT_MANIFEST") => Have(ChunkCount(Len(input)))

\* The invariant of the two uploads, if they are of one upload.
OneUploadInv ==
  /\ RunsTyped
  /\ OneKey /\ AllIsOurs /\ DoneFirst
  /\ \A u \in Uploaders : RunIsOurs(u)
-----------------------------------------------------------------------------
(* Two uploads: both instances of the program take these steps.            *)

\* The two runs.
LEMMA TwoUploaders ==
  /\ Uploaders = {Uploader, Uploader2} /\ Uploader # Uploader2 /\ Uploaders \subseteq Clients
  /\ upRun[Uploader] = Run(upPc, upDek, upSize, upOnBroker, upHashed)
  /\ upRun[Uploader2] = Run(upPc2, upDek2, upSize2, upOnBroker2, upHashed2)
  /\ upRun'[Uploader] = Run(upPc', upDek', upSize', upOnBroker', upHashed')
  /\ upRun'[Uploader2] = Run(upPc2', upDek2', upSize2', upOnBroker2', upHashed2')
BY UploadersAssumption, SenderAssumption DEF Uploaders, upRun, Run

\* The fields of a run.
LEMMA RunFields ==
  ASSUME NEW pc, NEW dek, NEW size, NEW onBroker, NEW hashed
  PROVE  LET r == Run(pc, dek, size, onBroker, hashed)
         IN  r.pc = pc /\ r.dek = dek /\ r.size = size /\ r.onBroker = onBroker
               /\ r.hashed = hashed
BY DEF Run

\* A step of one run leaves the other alone.
LEMMA OneUploads ==
  /\ UNCHANGED secondUp => Becomes(Uploader, Run(upPc', upDek', upSize', upOnBroker', upHashed'))
  /\ UNCHANGED firstUp =>
       Becomes(Uploader2, Run(upPc2', upDek2', upSize2', upOnBroker2', upHashed2'))
  /\ UNCHANGED <<firstUp, secondUp>> => UNCHANGED upRun
<1>1. UNCHANGED <<firstUp, secondUp>> => UNCHANGED upRun
  BY DEF upRun, firstUp, secondUp, upLocal, upLocal2
<1>2. UNCHANGED secondUp => upRun'[Uploader2] = upRun[Uploader2]
  BY TwoUploaders DEF secondUp, upLocal2
<1>3. UNCHANGED firstUp => upRun'[Uploader] = upRun[Uploader]
  BY TwoUploaders DEF firstUp, upLocal
<1> QED
  BY <1>1, <1>2, <1>3, TwoUploaders DEF Becomes

\* What the first run makes of the next chunk.
LEMMA FirstChunk ==
  /\ NextOf(Uploader) = Next_i /\ MoreOf(Uploader) = MoreChunks
  /\ ReadableOf(Uploader) = Readable /\ PlainOf(Uploader) = Plain
  /\ CipherOf(Uploader) = Cipher /\ SignedOf(Uploader) = Signed
  /\ Uploading(Uploader) = (upPc \in UpActive)
<1>1. upRun[Uploader].size = upSize /\ upRun[Uploader].hashed = upHashed
        /\ upRun[Uploader].dek = upDek /\ upRun[Uploader].pc = upPc
  BY TwoUploaders, RunFields
<1> QED
  BY <1>1 DEF NextOf, MoreOf, ReadableOf, PlainOf, CipherOf, SignedOf, Next_i, MoreChunks,
              Readable, Plain, Cipher, Signed, Uploading

\* The second instance has the same operators and constants.
LEMMA SecondFormat ==
  /\ \A s : SecondUp!ChunkCount(s) = ChunkCount(s)
  /\ \A i : SecondUp!Offset(i) = Offset(i)
  /\ \A i, s : SecondUp!ChunkLength(i, s) = ChunkLength(i, s)
  /\ \A f, i, s : SecondUp!PlainChunk(f, i, s) = PlainChunk(f, i, s)
  /\ \A dek, i, d : SecondUp!Encrypt(dek, i, d) = Encrypt(dek, i, d)
  /\ SecondUp!Indices = Indices
BY DEF SecondUp!Indices, Indices, SecondUp!ChunkCount, ChunkCount, SecondUp!Offset, Offset,
       SecondUp!ChunkLength,
       ChunkLength, SecondUp!PlainChunk, PlainChunk, SecondUp!Encrypt, Encrypt

\* And the second one.
LEMMA SecondChunk ==
  /\ NextOf(Uploader2) = SecondUp!Next_i /\ MoreOf(Uploader2) = SecondUp!MoreChunks
  /\ ReadableOf(Uploader2) = SecondUp!Readable /\ PlainOf(Uploader2) = SecondUp!Plain
  /\ CipherOf(Uploader2) = SecondUp!Cipher /\ SignedOf(Uploader2) = SecondUp!Signed
  /\ Uploading(Uploader2) = (upPc2 \in UpActive)
<1>1. upRun[Uploader2].size = upSize2 /\ upRun[Uploader2].hashed = upHashed2
        /\ upRun[Uploader2].dek = upDek2 /\ upRun[Uploader2].pc = upPc2
  BY TwoUploaders, RunFields
<1> QED
  BY <1>1, SecondFormat
  DEF NextOf, MoreOf, ReadableOf, PlainOf, CipherOf, SignedOf, SecondUp!Next_i,
              SecondUp!MoreChunks, SecondUp!Readable, SecondUp!Plain, SecondUp!Cipher,
              SecondUp!Signed, Uploading

\* A run begins (UpStart, UpResume).
LEMMA FirstBegins ==
  ASSUME UNCHANGED secondUp, input \in Inputs, sidecar \in Sidecar \cup {Absent},
         UpResume \/ (upPc2 \notin UpActive /\ \E dek \in Deks : UpStart(dek))
  PROVE  Begins(Uploader)
<1>1. Len(input) \in Nat
  BY FormatAssumption
<1>2. upRun[Uploader].pc = upPc /\ upRun[Uploader].onBroker = upOnBroker
        /\ upRun[Uploader].hashed = upHashed
  BY TwoUploaders, RunFields
<1>3. CASE UpResume
  <2>1. /\ upPc \in {"off", "ok"} /\ sidecar # Absent /\ sidecar.size = Len(input)
        /\ upPc' = "list" /\ upDek' = sidecar.dek /\ upSize' = Len(input)
        /\ connected' = connected \cup {Uploader}
        /\ UNCHANGED <<input, sidecar, usedDeks, upOnBroker, upHashed, published, store, stray>>
    BY <1>3 DEF UpResume, UpBegin, ResumeDek
  <2>2. Becomes(Uploader, Run("list", sidecar'.dek, Len(input), upRun[Uploader].onBroker,
                              upRun[Uploader].hashed))
    BY <1>2, <2>1, OneUploads
  <2> QED
    BY <1>2, <2>1, <2>2 DEF Begins
<1>4. ASSUME NEW dek \in Deks, upPc2 \notin UpActive, UpStart(dek) PROVE Begins(Uploader)
  <2>1. /\ upPc \in {"off", "ok"} /\ (usedDeks = {} \/ ReuseSession)
        /\ usedDeks' = usedDeks \cup {dek} /\ sidecar' = [dek |-> dek, size |-> Len(input)]
        /\ upPc' = "list" /\ upDek' = dek /\ upSize' = Len(input)
        /\ connected' = connected \cup {Uploader}
        /\ UNCHANGED <<input, upOnBroker, upHashed, published, store, stray>>
    BY <1>4 DEF UpStart, UpBegin
  <2>2. sidecar' # Absent /\ sidecar'.dek = dek /\ sidecar'.size = Len(input)
    BY <1>1, <2>1, SidecarAssumption DEF Sidecar
  <2>3. \A v \in Uploaders : ~Uploading(v)
    BY <1>4, <2>1, FirstChunk, SecondChunk, TwoUploaders DEF UpActive
  <2>4. Becomes(Uploader, Run("list", sidecar'.dek, Len(input), upRun[Uploader].onBroker,
                              upRun[Uploader].hashed))
    BY <1>2, <2>1, <2>2, OneUploads
  <2> QED
    BY <1>2, <2>1, <2>2, <2>3, <2>4 DEF Begins
<1> QED
  BY <1>3, <1>4

\* The second instance counts stray requests as the first does.
LEMMA SecondCardinality == \A S : SecondUp!Cardinality(S) = Cardinality(S)
BY DEF SecondUp!Cardinality, Cardinality

\* The second run only ever resumes.
LEMMA SecondBegins ==
  ASSUME UNCHANGED firstUp, SecondUp!UpResume
  PROVE  Begins(Uploader2)
<1>1. upRun[Uploader2].pc = upPc2 /\ upRun[Uploader2].onBroker = upOnBroker2
        /\ upRun[Uploader2].hashed = upHashed2
  BY TwoUploaders, RunFields
<1>2. /\ upPc2 \in {"off", "ok"} /\ sidecar # Absent /\ sidecar.size = Len(input)
      /\ upPc2' = "list" /\ upDek2' = sidecar.dek /\ upSize2' = Len(input)
      /\ connected' = connected \cup {Uploader2}
      /\ UNCHANGED <<input, sidecar, usedDeks, upOnBroker2, upHashed2, published, store, stray>>
  BY DEF SecondUp!UpResume, SecondUp!UpBegin, SecondUp!ResumeDek, SecondUp!store, store
<1>3. Becomes(Uploader2, Run("list", sidecar'.dek, Len(input), upRun[Uploader2].onBroker,
                             upRun[Uploader2].hashed))
  BY <1>1, <1>2, OneUploads
<1> QED
  BY <1>1, <1>2, <1>3 DEF Begins

\* A run ends (UpExit).
LEMMA FirstEnds ==
  ASSUME UNCHANGED secondUp, NEW state, UpExit(state), UNCHANGED <<input, usedDeks>>,
         UNCHANGED sidecar \/ (sidecar' = Absent /\ upPc2 \notin UpActive)
  PROVE  Ends(Uploader, state)
BY OneUploads, SecondChunk, TwoUploaders DEF UpExit, Ends

\* The manifest is published, and the sidecar rewritten or lost (first run).
LEMMA FirstPublishes ==
  ASSUME UNCHANGED secondUp, NEW state \in {"off", "ok"}, UpEnd(state),
         StoreManifest(Signed) \/ HalfManifest(Signed),
         UNCHANGED sidecar \/ (sidecar' = Absent /\ upPc2 \notin UpActive)
  PROVE  UpActs(Uploader)
<1>1. /\ upPc = "upload" /\ ~MoreChunks /\ published' = published \cup {upHashed}
      /\ UpExit(state) /\ UNCHANGED <<input, usedDeks, stray>>
  BY DEF UpEnd
<1>2. Ends(Uploader, state)
  BY <1>1, FirstEnds
<1>3. /\ manifest' = SignedOf(Uploader) /\ signature' \in {"valid", "invalid", Absent}
      /\ chunks' = chunks
  BY FirstChunk DEF StoreManifest, HalfManifest
<1>4. /\ upRun[Uploader].pc = "upload" /\ upRun[Uploader].hashed = upHashed
      /\ ~MoreOf(Uploader)
  BY <1>1, TwoUploaders, RunFields, FirstChunk
<1> QED
  BY <1>1, <1>2, <1>3, <1>4 DEF UpActs, Publishes

\* What a run does with the broker (first run).
LEMMA FirstSteps ==
  ASSUME UNCHANGED secondUp, UpStep \/ UpFault
  PROVE  UpActs(Uploader)
<1>1. /\ upRun[Uploader].pc = upPc /\ upRun[Uploader].dek = upDek
      /\ upRun[Uploader].size = upSize /\ upRun[Uploader].onBroker = upOnBroker
      /\ upRun[Uploader].hashed = upHashed
  BY TwoUploaders, RunFields
<1>2. CASE UpList
  <2>1. /\ upPc = "list" /\ upOnBroker' = Stored /\ upPc' = "upload"
        /\ UNCHANGED <<input, sidecar, usedDeks, upDek, upSize, upHashed, published,
                      brokerVars>>
    BY <1>2 DEF UpList
  <2> QED
    BY <1>1, <2>1, OneUploads DEF UpActs, ListsStored, upShared
<1>3. ASSUME upPc = "upload", MoreChunks, Readable, ChunkDone,
             UNCHANGED <<manifest, signature, stray, connected>>
      PROVE  HasDone(Uploader)
  BY <1>1, <1>3, FirstChunk, OneUploads DEF HasDone, ChunkDone, upShared
<1>4. CASE UpCompare
  <2>1. HasDone(Uploader) /\ UNCHANGED chunks
    BY <1>3, <1>4 DEF UpCompare, brokerVars, store
  <2> QED
    BY <1>4, <2>1, FirstChunk DEF UpCompare, SameAsStored, UpActs, Compares
<1>5. CASE UpPut
  <2>1. /\ Next_i \notin upOnBroker /\ Uploader \in connected
        /\ chunks' = [chunks EXCEPT ![Next_i] = Cipher]
        /\ UNCHANGED <<manifest, signature, stray, connected>>
    BY <1>5 DEF UpPut, StoreChunk
  <2>2. HasDone(Uploader)
    BY <1>3, <1>5, <2>1 DEF UpPut
  <2> QED
    BY <1>1, <2>1, <2>2, FirstChunk DEF UpActs, Puts
<1>6. CASE UpPublish \/ UpPublishCut \/ UpPublishHalf
  BY <1>6, FirstPublishes DEF UpPublish, UpPublishCut, UpPublishHalf
<1>7. CASE UpMismatch \/ UpShortRead \/ UpFail
  <2>1. UpExit("off") /\ UNCHANGED <<input, sidecar, usedDeks, published, store, stray>>
    BY <1>7 DEF UpMismatch, UpShortRead, UpFail
  <2>2. Ends(Uploader, "off")
    BY <2>1, FirstEnds
  <2> QED
    BY <2>1, <2>2 DEF UpActs, Leaves
<1>8. CASE UpFailSent
  <2>1. PICK r \in Outstanding :
          /\ stray' = stray \cup {r}
          /\ published' = IF r.cmd = "PUT_MANIFEST" THEN published \cup {upHashed}
                          ELSE published
    BY <1>8 DEF UpFailSent
  <2>2. /\ Cardinality(stray) < MaxStray /\ UpExit("off")
        /\ UNCHANGED <<input, sidecar, usedDeks, store>>
    BY <1>8 DEF UpFailSent
  <2>3. Ends(Uploader, "off")
    BY <2>2, FirstEnds
  <2>4. upPc = "upload" /\ Request(Uploader, r)
    BY <2>1, FirstChunk DEF Outstanding, Request
  <2>5. published' \in {published, published \cup {upHashed}}
    BY <2>1
  <2> QED
    BY <1>1, <2>1, <2>2, <2>3, <2>4, <2>5 DEF UpActs, LeavesSent
<1> QED
  BY <1>2, <1>4, <1>5, <1>6, <1>7, <1>8 DEF UpStep, UpFault

\* A run ends (the second one).
LEMMA SecondEnds ==
  ASSUME UNCHANGED firstUp, NEW state, SecondUp!UpExit(state), UNCHANGED <<input, usedDeks>>,
         UNCHANGED sidecar \/ (sidecar' = Absent /\ upPc \notin UpActive)
  PROVE  Ends(Uploader2, state)
BY OneUploads, FirstChunk, TwoUploaders DEF SecondUp!UpExit, Ends

\* The manifest is published, and the sidecar rewritten or lost (second run).
LEMMA SecondPublishes ==
  ASSUME UNCHANGED firstUp, NEW state \in {"off", "ok"}, SecondUp!UpEnd(state),
         \/ SecondUp!StoreManifest(SecondUp!Signed)
         \/ SecondUp!HalfManifest(SecondUp!Signed),
         UNCHANGED sidecar \/ (sidecar' = Absent /\ upPc \notin UpActive)
  PROVE  UpActs(Uploader2)
<1>1. /\ upPc2 = "upload" /\ ~SecondUp!MoreChunks /\ published' = published \cup {upHashed2}
      /\ SecondUp!UpExit(state) /\ UNCHANGED <<input, usedDeks, stray>>
  BY DEF SecondUp!UpEnd
<1>2. Ends(Uploader2, state)
  BY <1>1, SecondEnds
<1>3. /\ manifest' = SignedOf(Uploader2) /\ signature' \in {"valid", "invalid", Absent}
      /\ chunks' = chunks
  BY SecondChunk DEF SecondUp!StoreManifest, SecondUp!HalfManifest
<1>4. /\ upRun[Uploader2].pc = "upload" /\ upRun[Uploader2].hashed = upHashed2
      /\ ~MoreOf(Uploader2)
  BY <1>1, TwoUploaders, RunFields, SecondChunk
<1> QED
  BY <1>1, <1>2, <1>3, <1>4 DEF UpActs, Publishes

\* What a run does with the broker (second run).
LEMMA SecondSteps ==
  ASSUME UNCHANGED firstUp, SecondUp!UpStep \/ SecondUp!UpFault
  PROVE  UpActs(Uploader2)
<1>1. /\ upRun[Uploader2].pc = upPc2 /\ upRun[Uploader2].dek = upDek2
      /\ upRun[Uploader2].size = upSize2 /\ upRun[Uploader2].onBroker = upOnBroker2
      /\ upRun[Uploader2].hashed = upHashed2
  BY TwoUploaders, RunFields
<1>2. CASE SecondUp!UpList
  <2>1. /\ upPc2 = "list" /\ upOnBroker2' = Stored /\ upPc2' = "upload"
        /\ UNCHANGED <<input, sidecar, usedDeks, upDek2, upSize2, upHashed2, published,
                      brokerVars>>
    BY <1>2, SecondFormat
    DEF SecondUp!UpList, SecondUp!Stored, Stored, SecondUp!brokerVars, brokerVars,
        SecondUp!store, store
  <2> QED
    BY <1>1, <2>1, OneUploads DEF UpActs, ListsStored, upShared
<1>3. ASSUME upPc2 = "upload", SecondUp!MoreChunks, SecondUp!Readable, SecondUp!ChunkDone,
             UNCHANGED <<manifest, signature, stray, connected>>
      PROVE  HasDone(Uploader2)
  BY <1>1, <1>3, SecondFormat, SecondChunk, OneUploads DEF HasDone, SecondUp!ChunkDone, upShared
<1>4. CASE SecondUp!UpCompare
  <2>1. HasDone(Uploader2) /\ UNCHANGED chunks
    BY <1>3, <1>4 DEF SecondUp!UpCompare, SecondUp!brokerVars, SecondUp!store
  <2> QED
    BY <1>4, <2>1, SecondFormat, SecondChunk
    DEF SecondUp!UpCompare, SecondUp!SameAsStored, UpActs, Compares
<1>5. CASE SecondUp!UpPut
  <2>1. /\ SecondUp!Next_i \notin upOnBroker2 /\ Uploader2 \in connected
        /\ chunks' = [chunks EXCEPT ![SecondUp!Next_i] = SecondUp!Cipher]
        /\ UNCHANGED <<manifest, signature, stray, connected>>
    BY <1>5 DEF SecondUp!UpPut, SecondUp!StoreChunk
  <2>2. HasDone(Uploader2)
    BY <1>3, <1>5, <2>1 DEF SecondUp!UpPut
  <2> QED
    BY <1>1, <2>1, <2>2, SecondFormat, SecondChunk DEF UpActs, Puts
<1>6. CASE SecondUp!UpPublish \/ SecondUp!UpPublishCut \/ SecondUp!UpPublishHalf
  BY <1>6, SecondPublishes
  DEF SecondUp!UpPublish, SecondUp!UpPublishCut, SecondUp!UpPublishHalf
<1>7. CASE SecondUp!UpMismatch \/ SecondUp!UpShortRead \/ SecondUp!UpFail
  <2>1. SecondUp!UpExit("off") /\ UNCHANGED <<input, sidecar, usedDeks, published, store, stray>>
    BY <1>7 DEF SecondUp!UpMismatch, SecondUp!UpShortRead, SecondUp!UpFail, SecondUp!store, store
  <2>2. Ends(Uploader2, "off")
    BY <2>1, SecondEnds
  <2> QED
    BY <2>1, <2>2 DEF UpActs, Leaves
<1>8. CASE SecondUp!UpFailSent
  <2>1. PICK r \in SecondUp!Outstanding :
          /\ stray' = stray \cup {r}
          /\ published' = IF r.cmd = "PUT_MANIFEST" THEN published \cup {upHashed2}
                          ELSE published
    BY <1>8 DEF SecondUp!UpFailSent
  <2>2. /\ SecondUp!Cardinality(stray) < MaxStray /\ SecondUp!UpExit("off")
        /\ UNCHANGED <<input, sidecar, usedDeks, store>>
    BY <1>8 DEF SecondUp!UpFailSent, SecondUp!store, store
  <2>3. Ends(Uploader2, "off")
    BY <2>2, SecondEnds
  <2>4. upPc2 = "upload" /\ Request(Uploader2, r)
    BY <2>1, SecondFormat, SecondChunk DEF SecondUp!Outstanding, Request
  <2>5. published' \in {published, published \cup {upHashed2}}
    BY <2>1
  <2> QED
    BY <1>1, <2>1, <2>2, <2>3, <2>4, <2>5, SecondCardinality DEF UpActs, LeavesSent
<1> QED
  BY <1>2, <1>4, <1>5, <1>6, <1>7, <1>8 DEF SecondUp!UpStep, SecondUp!UpFault

(***************************************************************************)
(* Every step of the two uploads is one of these, of one of the two runs.  *)
(***************************************************************************)
LEMMA UploadsSteps == RunsTyped /\ UploadsNext => UploadsStep
<1> SUFFICES ASSUME RunsTyped, UploadsNext PROVE UploadsStep
  OBVIOUS
<1>1. input \in Inputs /\ sidecar \in Sidecar \cup {Absent}
  BY DEF RunsTyped
<1>2. OverlapFollows
  <2>1. Uploading(Uploader)' = (upPc' \in UpActive) /\ Uploading(Uploader2)' = (upPc2' \in UpActive)
    BY TwoUploaders, RunFields DEF Uploading
  <2> QED
    BY <2>1, TwoUploaders DEF UploadsNext, Overlap, OverlapFollows
<1>3. CASE UploadsUser
  <2>1. CASE ~overlapped /\ EditInput /\ UNCHANGED secondUp
    <3>1. UNCHANGED upRun
      BY <2>1, OneUploads DEF EditInput, firstUp
    <3> QED
      BY <1>2, <2>1, <3>1 DEF UploadsStep, Edits, EditInput
  <2> QED
    BY <1>1, <1>2, <1>3, <2>1, FirstBegins, SecondBegins, TwoUploaders
    DEF UploadsUser, UploadsStep, UpActs
<1>4. CASE UploadsPrograms \/ UploadsFault
  <2>1. CASE BrokerOwnStep /\ UNCHANGED <<upShared, firstUp, secondUp>>
    BY <1>2, <2>1, OneUploads DEF UploadsStep, OnBroker
  <2>2. CASE \/ (UpStep \/ UpFault) /\ UNCHANGED secondUp
             \/ (SecondUp!UpStep \/ SecondUp!UpFault) /\ UNCHANGED firstUp
    BY <1>2, <2>2, FirstSteps, SecondSteps, TwoUploaders DEF UploadsStep
  <2>3. CASE SidecarLost
    <3>1. PICK state \in {"off", "ok"} :
            \/ /\ {upPc2, state} = {"off", "ok"} /\ UpEnd(state) /\ StoreManifest(Signed)
               /\ UNCHANGED secondUp
            \/ /\ {upPc, state} = {"off", "ok"} /\ SecondUp!UpEnd(state)
               /\ SecondUp!StoreManifest(SecondUp!Signed) /\ UNCHANGED firstUp
      BY <2>3 DEF SidecarLost, StoreManifest, SecondUp!StoreManifest
    <3>2. sidecar' = Absent
      BY <2>3 DEF SidecarLost
    <3>3. ASSUME NEW other, {other, state} = {"off", "ok"} PROVE other \notin UpActive
      BY <3>3 DEF UpActive
    <3>4. UpActs(Uploader) \/ UpActs(Uploader2)
      BY <3>1, <3>2, <3>3, FirstPublishes, SecondPublishes
    <3> QED
      BY <1>2, <3>4, TwoUploaders DEF UploadsStep
  <2> QED
    BY <1>4, <2>1, <2>2, <2>3 DEF UploadsPrograms, UploadsFault, BrokerOwnStep
<1> QED
  BY <1>3, <1>4 DEF UploadsNext
-----------------------------------------------------------------------------
(* Two uploads: every step keeps the types.                                *)

\* The next chunk of a run (sender_encrypt_upload.py:193-199).
LEMMA NextOfRun ==
  ASSUME RunsTyped, NEW u \in Uploaders, upRun[u].pc = "upload", MoreOf(u)
  PROVE  /\ NextOf(u) \in Nat /\ NextOf(u) \in Indices
         /\ upRun[u].size \in Nat /\ NextOf(u) < ChunkCount(upRun[u].size)
         /\ Len(upRun[u].hashed) = Offset(NextOf(u))
<1> DEFINE h == upRun[u].hashed
<1>1. h \in Seq(Byte) /\ Len(h) \in Nat /\ upRun[u].size \in Nat
  BY DEF RunsTyped, TypedRun
<1>2. PICK f \in Inputs : upRun[u].size = Len(f)
  BY DEF RunsTyped, InOrder, Uploading, UpActive
<1>3. NextOf(u) \in Nat /\ NextOf(u) < ChunkCount(upRun[u].size)
  BY <1>1, ChunkCounted DEF NextOf, MoreOf
<1>4. Len(h) # upRun[u].size
  BY <1>1, <1>3 DEF NextOf
<1>5. Len(h) = Offset(NextOf(u))
  BY <1>4 DEF RunsTyped, InOrder, Uploading, UpActive
<1>6. NextOf(u) \in Indices
  BY <1>2, <1>3, ChunkIndex
<1> QED
  BY <1>1, <1>3, <1>5, <1>6

\* What it reads for it, when the file is long enough.
LEMMA PlainOfRun ==
  ASSUME RunsTyped, NEW u \in Uploaders, upRun[u].pc = "upload", MoreOf(u), ReadableOf(u)
  PROVE  /\ PlainOf(u) \in Seq(Byte)
         /\ Len(PlainOf(u)) = ChunkLength(NextOf(u), upRun[u].size)
         /\ SubSeq(input, 1, Offset(NextOf(u))) \o PlainOf(u)
              = SubSeq(input, 1, Offset(NextOf(u)) + ChunkLength(NextOf(u), upRun[u].size))
         /\ CipherOf(u) \in Ciphertext
<1>1. input \in Seq(Byte) /\ upRun[u].dek \in Deks
  BY FormatAssumption DEF RunsTyped, TypedRun, Uploading, UpActive
<1>2. NextOf(u) \in Nat /\ upRun[u].size \in Nat /\ NextOf(u) < ChunkCount(upRun[u].size)
  BY NextOfRun
<1>3. /\ PlainOf(u) \in Seq(Byte) /\ Len(PlainOf(u)) = ChunkLength(NextOf(u), upRun[u].size)
      /\ SubSeq(input, 1, Offset(NextOf(u))) \o PlainOf(u)
           = SubSeq(input, 1, Offset(NextOf(u)) + ChunkLength(NextOf(u), upRun[u].size))
  BY <1>1, <1>2, ChunkOfFile DEF PlainOf, ReadableOf
<1>4. CipherOf(u) \in Ciphertext
  BY <1>1, <1>2, <1>3 DEF CipherOf, Encrypt, Ciphertext
<1> QED
  BY <1>3, <1>4

\* After it the run has come to the next chunk, or to the end.
LEMMA HasDoneOrder ==
  ASSUME RunsTyped, NEW u \in Uploaders, HasDone(u)
  PROVE  /\ TypedRun(u)' /\ InOrder(u)'
         /\ upRun'[u].hashed = upRun[u].hashed \o PlainOf(u)
         /\ upRun'[u].dek = upRun[u].dek /\ upRun'[u].size = upRun[u].size
         /\ upRun'[u].onBroker = upRun[u].onBroker /\ upRun'[u].pc = "upload"
         /\ NextOf(u)' = NextOf(u) + 1
<1> DEFINE i == NextOf(u)
           s == upRun[u].size
           n == Offset(i) + ChunkLength(i, s)
<1>1. upRun[u].pc = "upload" /\ MoreOf(u) /\ ReadableOf(u)
  BY DEF HasDone
<1>2. i \in Nat /\ s \in Nat /\ i < ChunkCount(s) /\ Len(upRun[u].hashed) = Offset(i)
  BY <1>1, NextOfRun
<1>3. PlainOf(u) \in Seq(Byte) /\ Len(PlainOf(u)) = ChunkLength(i, s)
  BY <1>1, PlainOfRun
<1>4. /\ upRun'[u].hashed = upRun[u].hashed \o PlainOf(u)
      /\ upRun'[u].dek = upRun[u].dek /\ upRun'[u].size = s
      /\ upRun'[u].onBroker = upRun[u].onBroker /\ upRun'[u].pc = "upload"
  BY DEF HasDone, Becomes, Run
<1>5. upRun[u].hashed \in Seq(Byte)
  BY DEF RunsTyped, TypedRun
<1>6. upRun'[u].hashed \in Seq(Byte) /\ Len(upRun'[u].hashed) = n
  <2>1. /\ upRun[u].hashed \o PlainOf(u) \in Seq(Byte)
        /\ Len(upRun[u].hashed \o PlainOf(u)) = Len(upRun[u].hashed) + Len(PlainOf(u))
    BY <1>3, <1>5, ConcatProperties
  <2> QED
    BY <1>2, <1>3, <1>4, <2>1
<1>7. TypedRun(u)'
  BY <1>1, <1>4, <1>6 DEF RunsTyped, TypedRun, Uploading, UpActive
<1>8. /\ Offset(i) \in Nat /\ Offset(i + 1) \in Nat /\ Offset(i) < s
      /\ ChunkLength(i, s) \in Nat
      /\ n = IF Offset(i + 1) < s THEN Offset(i + 1) ELSE s
  BY <1>2, ChunkEnds
<1>9. NextOf(u)' = ChunkCount(n)
  BY <1>6 DEF NextOf
<1>10. NextOf(u)' = i + 1
  <2>1. CASE n = Offset(i + 1)
    BY <1>2, <1>9, <2>1, ChunksBeforeOffset
  <2>2. CASE n = s /\ s <= Offset(i + 1)
    <3>1. i < ChunkCount(n) /\ ChunkCount(n) \in Nat
      BY <1>2, <2>2, ChunkCounted
    <3>2. ~(i + 1 < ChunkCount(n))
      BY <1>2, <1>8, <2>2, ChunkCounted
    <3> QED
      BY <1>2, <1>9, <3>1, <3>2
  <2> QED
    BY <1>2, <1>8, <2>1, <2>2
<1>11. Len(upRun'[u].hashed) = s \/ Len(upRun'[u].hashed) = Offset(NextOf(u)')
  BY <1>6, <1>8, <1>10
<1>12. InOrder(u)'
  BY <1>1, <1>2, <1>4, <1>6, <1>8, <1>11 DEF RunsTyped, InOrder, Uploading, UpActive
<1> QED
  BY <1>4, <1>7, <1>10, <1>12

\* After the last chunk a run has hashed as many bytes as the file had.
LEMMA WholeOfRun ==
  ASSUME RunsTyped, NEW u \in Uploaders, upRun[u].pc = "upload", ~MoreOf(u)
  PROVE  /\ Len(upRun[u].hashed) = upRun[u].size /\ upRun[u].hashed \in Seq(Byte)
         /\ NextOf(u) = ChunkCount(upRun[u].size)
         /\ \E f \in Inputs : upRun[u].size = Len(f)
         /\ SignedOf(u) \in Manifest
<1> DEFINE h == upRun[u].hashed
           s == upRun[u].size
<1>1. h \in Seq(Byte) /\ Len(h) \in Nat /\ s \in Nat /\ upRun[u].dek \in Deks
  BY DEF RunsTyped, TypedRun, Uploading, UpActive
<1>2. NextOf(u) \in Nat /\ ChunkCount(s) \in Nat /\ ~(NextOf(u) < ChunkCount(s))
  BY <1>1, ChunkCounted DEF NextOf, MoreOf
<1>3. ~(Offset(NextOf(u)) < s)
  BY <1>1, <1>2, ChunkCounted
<1>4. /\ Len(h) <= s /\ (Len(h) = s \/ Len(h) = Offset(NextOf(u)))
      /\ \E f \in Inputs : s = Len(f)
  BY DEF RunsTyped, InOrder, Uploading, UpActive
<1>5. Len(h) = s
  BY <1>1, <1>3, <1>4
<1> QED
  BY <1>1, <1>4, <1>5 DEF SignedOf, Manifest, NextOf

\* A run that ends has a state like before its first.
LEMMA EndsTyped ==
  ASSUME RunsTyped, NEW u \in Uploaders, NEW state \in {"off", "ok"}, Ends(u, state)
  PROVE  /\ TypedRun(u)' /\ InOrder(u)' /\ ~Uploading(u)' /\ upRun'[u].hashed = <<>>
         /\ connected' \subseteq Clients
<1>1. /\ upRun'[u].pc = state /\ upRun'[u].dek = Absent /\ upRun'[u].size = 0
      /\ upRun'[u].onBroker = {} /\ upRun'[u].hashed = <<>>
  BY RunFields DEF Ends, Becomes
<1>2. connected' \subseteq Clients
  BY DEF Ends, RunsTyped, BrokerInv, BrokerTypeOK
<1> QED
  BY <1>1, <1>2 DEF TypedRun, InOrder, Uploading, UpActive

\* A run begins (sender_encrypt_upload.py:128-180).
LEMMA BeginsTyped ==
  ASSUME RunsTyped, NEW u \in Uploaders, Begins(u)
  PROVE  /\ TypedRun(u)' /\ InOrder(u)'
         /\ sidecar' \in Sidecar /\ usedDeks' \subseteq Deks /\ connected' \subseteq Clients
         /\ upRun'[u].pc = "list" /\ upRun'[u].hashed = <<>> /\ NextOf(u)' = 0
         /\ upRun'[u].dek = sidecar'.dek /\ upRun'[u].size = Len(input)
<1>1. input \in Seq(Byte) /\ Len(input) \in Nat /\ input \in Inputs
  BY FormatAssumption DEF RunsTyped
<1>2. /\ upRun'[u].pc = "list" /\ upRun'[u].dek = sidecar'.dek /\ upRun'[u].size = Len(input)
      /\ upRun'[u].onBroker = upRun[u].onBroker /\ upRun'[u].hashed = upRun[u].hashed
  BY RunFields DEF Begins, Becomes
<1>3. sidecar' \in Sidecar /\ usedDeks' \subseteq Deks
  <2>1. CASE UNCHANGED <<sidecar, usedDeks>>
    BY <2>1 DEF Begins, RunsTyped
  <2>2. ASSUME NEW dek \in Deks, usedDeks' = usedDeks \cup {dek},
               sidecar' = [dek |-> dek, size |-> Len(input)]
        PROVE  sidecar' \in Sidecar /\ usedDeks' \subseteq Deks
    BY <1>1, <2>2 DEF Sidecar, RunsTyped
  <2> QED
    BY <2>1, <2>2 DEF Begins
<1>4. sidecar'.dek \in Deks /\ sidecar'.dek # Absent
  BY <1>3, SidecarAssumption DEF Sidecar
<1>5. upRun[u].hashed = <<>> /\ upRun[u].onBroker \subseteq Indices
  BY DEF Begins, RunsTyped, TypedRun, InOrder
<1>6. Len(upRun'[u].hashed) = 0 /\ upRun'[u].hashed \in Seq(Byte)
  BY <1>2, <1>5
<1>7. NextOf(u)' = 0 /\ Offset(0) = 0
  <2>1. Offset(0) = 0 /\ ChunkCount(Offset(0)) = 0
    BY ChunksBeforeOffset, FormatAssumption DEF Offset
  <2> QED
    BY <1>6, <2>1 DEF NextOf
<1>8. TypedRun(u)'
  BY <1>1, <1>2, <1>4, <1>5, <1>6 DEF TypedRun, Uploading, UpActive
<1>9. InOrder(u)'
  BY <1>1, <1>2, <1>5, <1>6, <1>7 DEF InOrder, Uploading, UpActive
<1>10. connected' \subseteq Clients
  BY TwoUploaders DEF Begins, RunsTyped, BrokerInv, BrokerTypeOK
<1> QED
  BY <1>2, <1>3, <1>5, <1>7, <1>8, <1>9, <1>10

\* The other run stays what it is.
LEMMA OtherStays ==
  ASSUME NEW v \in Uploaders, upRun'[v] = upRun[v]
  PROVE  /\ TypedRun(v)' = TypedRun(v) /\ InOrder(v)' = InOrder(v)
         /\ Uploading(v)' = Uploading(v) /\ NextOf(v)' = NextOf(v)
BY DEF TypedRun, InOrder, Uploading, NextOf

\* A request that is left behind is one the broker knows.
LEMMA RequestPut ==
  ASSUME RunsTyped, NEW u \in Uploaders, upRun[u].pc = "upload", NEW r, Request(u, r)
  PROVE  r \in Put
<1>1. CASE ~MoreOf(u) /\ r = [cmd |-> "PUT_MANIFEST", manifest |-> SignedOf(u)]
  BY <1>1, WholeOfRun DEF Put, PutManifest
<1>2. CASE /\ MoreOf(u) /\ ReadableOf(u)
           /\ r = [cmd |-> "PUT_CHUNK", index |-> NextOf(u), ct |-> CipherOf(u)]
  BY <1>2, NextOfRun, PlainOfRun DEF Put, PutChunk
<1> QED
  BY <1>1, <1>2 DEF Request

\* A step of one run: its own state, and what is on the broker.
LEMMA UpActsTyped ==
  ASSUME RunsTyped, NEW u \in Uploaders, UpActs(u)
  PROVE  /\ TypedRun(u)' /\ InOrder(u)' /\ BrokerInv'
         /\ input' \in Inputs /\ sidecar' \in Sidecar \cup {Absent}
         /\ usedDeks' \subseteq Deks /\ published' \subseteq Seq(Byte)
         /\ \A v \in Uploaders \ {u} : upRun'[v] = upRun[v]
<1>1. BrokerInv /\ BrokerTypeOK /\ published \subseteq Seq(Byte) /\ input \in Inputs
        /\ sidecar \in Sidecar \cup {Absent} /\ usedDeks \subseteq Deks
  BY DEF RunsTyped, BrokerInv
<1>2. CASE Begins(u)
  BY <1>1, <1>2, BeginsTyped DEF Begins, Becomes, BrokerInv, BrokerTypeOK, store
<1>3. CASE ListsStored(u)
  <2>1. /\ upRun'[u].pc = "upload" /\ upRun[u].pc = "list" /\ upRun'[u].dek = upRun[u].dek
        /\ upRun'[u].size = upRun[u].size /\ upRun'[u].onBroker = Stored
        /\ upRun'[u].hashed = upRun[u].hashed
    BY <1>3, RunFields DEF ListsStored, Becomes
  <2>2. TypedRun(u)' /\ InOrder(u)'
    BY <2>1 DEF RunsTyped, TypedRun, InOrder, Uploading, UpActive, NextOf, Stored
  <2> QED
    BY <1>1, <1>3, <2>2 DEF ListsStored, Becomes, upShared, brokerVars, store, BrokerInv,
                            BrokerTypeOK
<1>4. CASE Compares(u)
  BY <1>1, <1>4, HasDoneOrder
  DEF Compares, HasDone, Becomes, upShared, BrokerInv, BrokerTypeOK
<1>5. CASE Puts(u)
  <2>1. NextOf(u) \in Indices /\ CipherOf(u) \in Ciphertext
    BY <1>5, NextOfRun, PlainOfRun DEF Puts, HasDone
  <2>2. chunks' \in [Indices -> Ciphertext \cup {Absent, Garbled}]
    BY <1>1, <1>5, <2>1 DEF Puts, BrokerTypeOK
  <2> QED
    BY <1>1, <1>5, <2>2, HasDoneOrder
    DEF Puts, HasDone, Becomes, upShared, BrokerInv, BrokerTypeOK
<1>6. CASE Publishes(u)
  <2>1. SignedOf(u) \in Manifest /\ upRun[u].hashed \in Seq(Byte)
    BY <1>6, WholeOfRun DEF Publishes
  <2>2. /\ manifest' = SignedOf(u) /\ signature' \in {"valid", "invalid", Absent}
        /\ published' \subseteq Seq(Byte) /\ UNCHANGED <<chunks, stray>>
        /\ \E state \in {"off", "ok"} : Ends(u, state)
    BY <1>1, <1>6, <2>1 DEF Publishes
  <2>3. TypedRun(u)' /\ InOrder(u)' /\ connected' \subseteq Clients
    BY <2>2, EndsTyped
  <2> QED
    BY <1>1, <2>1, <2>2, <2>3 DEF Ends, Becomes, BrokerInv, BrokerTypeOK
<1>7. CASE Leaves(u)
  <2>1. Ends(u, "off") /\ UNCHANGED <<published, store, stray>>
    BY <1>7 DEF Leaves
  <2>2. TypedRun(u)' /\ InOrder(u)' /\ connected' \subseteq Clients
    BY <2>1, EndsTyped
  <2> QED
    BY <1>1, <2>1, <2>2 DEF Ends, Becomes, BrokerInv, BrokerTypeOK, store
<1>8. CASE LeavesSent(u)
  <2>1. PICK r : Request(u, r) /\ stray' = stray \cup {r}
    BY <1>8 DEF LeavesSent
  <2>2. /\ upRun[u].pc = "upload" /\ Cardinality(stray) < MaxStray /\ Ends(u, "off")
        /\ UNCHANGED store /\ published' \in {published, published \cup {upRun[u].hashed}}
    BY <1>8 DEF LeavesSent
  <2>3. r \in Put
    BY <2>1, <2>2, RequestPut
  <2>4. IsFiniteSet(stray') /\ stray' \subseteq Put /\ Cardinality(stray') <= MaxStray
    BY <1>1, <2>1, <2>2, <2>3, OneMoreStray
  <2>5. TypedRun(u)' /\ InOrder(u)' /\ connected' \subseteq Clients
    BY <2>2, EndsTyped
  <2>6. published' \subseteq Seq(Byte)
    BY <1>1, <2>2 DEF RunsTyped, TypedRun
  <2> QED
    BY <1>1, <2>2, <2>4, <2>5, <2>6 DEF Ends, Becomes, BrokerInv, BrokerTypeOK, store
<1> QED
  BY <1>2, <1>3, <1>4, <1>5, <1>6, <1>7, <1>8 DEF UpActs

\* RunsTyped is inductive.
LEMMA UploadsTyped == RunsTyped /\ UploadsStep => RunsTyped'
<1> SUFFICES ASSUME RunsTyped, UploadsStep PROVE RunsTyped'
  OBVIOUS
<1>1. overlapped' \in BOOLEAN
  BY DEF UploadsStep, OverlapFollows
<1>2. ASSUME NEW u \in Uploaders, UpActs(u) PROVE RunsTyped'
  <2>1. \A v \in Uploaders : TypedRun(v)' /\ InOrder(v)'
    <3> SUFFICES ASSUME NEW v \in Uploaders, v # u PROVE TypedRun(v)' /\ InOrder(v)'
      BY <1>2, UpActsTyped
    <3>1. upRun'[v] = upRun[v]
      BY <1>2, UpActsTyped
    <3> QED
      BY <3>1, OtherStays DEF RunsTyped
  <2> QED
    BY <1>1, <1>2, <2>1, UpActsTyped DEF RunsTyped
<1>3. CASE Edits
  <2>1. \A v \in Uploaders : TypedRun(v)' /\ InOrder(v)'
    BY <1>3, OtherStays DEF Edits, RunsTyped
  <2>2. BrokerInv'
    BY <1>3 DEF Edits, brokerVars, store, RunsTyped, BrokerInv, BrokerTypeOK
  <2> QED
    BY <1>1, <1>3, <2>1, <2>2 DEF Edits, RunsTyped
<1>4. CASE OnBroker
  <2>1. \A v \in Uploaders : TypedRun(v)' /\ InOrder(v)'
    BY <1>4, OtherStays DEF OnBroker, RunsTyped
  <2>2. BrokerInv'
    BY <1>4, BrokerStepInv DEF OnBroker, RunsTyped
  <2> QED
    BY <1>1, <1>4, <2>1, <2>2 DEF OnBroker, upShared, RunsTyped
<1> QED
  BY <1>2, <1>3, <1>4 DEF UploadsStep

\* Neither run has begun.
LEMMA UploadsInitTyped == UploadsInit => RunsTyped
<1> SUFFICES ASSUME UploadsInit PROVE RunsTyped
  OBVIOUS
<1>1. BrokerInv
  BY BrokerInitInv DEF UploadsInit
<1>2. \A u \in Uploaders : upRun[u] = Run("off", Absent, 0, {}, <<>>)
  BY TwoUploaders DEF UploadsInit, UpInit, SecondUp!UpInit
<1>3. \A u \in Uploaders : TypedRun(u) /\ InOrder(u)
  <2> SUFFICES ASSUME NEW u \in Uploaders PROVE TypedRun(u) /\ InOrder(u)
    OBVIOUS
  <2>1. /\ upRun[u].pc = "off" /\ upRun[u].dek = Absent /\ upRun[u].size = 0
        /\ upRun[u].onBroker = {} /\ upRun[u].hashed = <<>>
    BY <1>2 DEF Run
  <2> QED
    BY <2>1 DEF TypedRun, InOrder, Uploading, UpActive
<1> QED
  BY <1>1, <1>3 DEF UploadsInit, UpInit, RunsTyped

\* A step that changes nothing.
LEMMA UploadsStutter ==
  ASSUME UNCHANGED uploadsVars
  PROVE  UNCHANGED <<upRun, upShared, brokerVars, overlapped>>
BY OneUploads DEF uploadsVars, upShared

(***************************************************************************)
(* Every reachable state of the two uploads has the declared types.        *)
(***************************************************************************)
THEOREM UploadsTypeCorrect == UploadsSpec => []UploadsTypeOK
<1>1. RunsTyped /\ [UploadsNext]_uploadsVars => RunsTyped'
  <2> SUFFICES ASSUME RunsTyped, [UploadsNext]_uploadsVars PROVE RunsTyped'
    OBVIOUS
  <2>1. CASE UploadsNext
    BY <2>1, UploadsSteps, UploadsTyped
  <2>2. CASE UNCHANGED uploadsVars
    <3>1. UNCHANGED <<upRun, upShared, brokerVars, overlapped>>
      BY <2>2, UploadsStutter
    <3>2. \A v \in Uploaders : TypedRun(v)' /\ InOrder(v)'
      BY <3>1, OtherStays DEF RunsTyped
    <3> QED
      BY <3>1, <3>2 DEF RunsTyped, upShared, brokerVars, store, BrokerInv, BrokerTypeOK
  <2> QED
    BY <2>1, <2>2
<1>2. RunsTyped => UploadsTypeOK
  <2> SUFFICES ASSUME RunsTyped PROVE UploadsTypeOK
    OBVIOUS
  <2>1. TypedRun(Uploader) /\ TypedRun(Uploader2)
    BY TwoUploaders DEF RunsTyped
  <2>2. UpTypeOK
    BY <2>1, TwoUploaders, RunFields, FirstChunk DEF RunsTyped, TypedRun, UpTypeOK
  <2>3. SecondUp!UpTypeOK
    BY <2>1, TwoUploaders, RunFields, SecondChunk, SecondFormat
    DEF RunsTyped, TypedRun, SecondUp!UpTypeOK, SecondUp!UpActive, UpActive, SecondUp!Sidecar,
        Sidecar
  <2> QED
    BY <2>2, <2>3 DEF UploadsTypeOK, RunsTyped, BrokerInv
<1> QED
  BY <1>1, <1>2, UploadsInitTyped, PTL DEF UploadsSpec
-----------------------------------------------------------------------------
(* Two uploads: what is published is complete, without late requests.      *)

\* A chunk is not changed by what is appended behind it.
LEMMA ChunkOfMore ==
  ASSUME NEW f \in Seq(Byte), NEW g \in Seq(Byte), NEW s \in Nat, NEW i \in Nat,
         i < ChunkCount(s), Offset(i) + ChunkLength(i, s) <= Len(f)
  PROVE  PlainChunk(f \o g, i, s) = PlainChunk(f, i, s)
<1>1. ChunkLength(i, s) \in Nat /\ ChunkLength(i, s) > 0 /\ Offset(i) \in Nat
  BY ChunkEnds
<1>2. /\ Offset(i) + 1 \in 1..Len(f) /\ Offset(i) + ChunkLength(i, s) \in 1..Len(f)
  BY <1>1
<1> QED
  BY <1>2, SubSeqOfConcat1 DEF PlainChunk

\* The chunk that was appended is the next one.
LEMMA ChunkAppended ==
  ASSUME NEW f \in Seq(Byte), NEW g \in Seq(Byte), NEW s \in Nat, NEW i \in Nat,
         i < ChunkCount(s), Len(f) = Offset(i), Len(g) = ChunkLength(i, s)
  PROVE  PlainChunk(f \o g, i, s) = g
<1> DEFINE m == Offset(i) + 1
           n == Offset(i) + ChunkLength(i, s)
<1>1. ChunkLength(i, s) \in Nat /\ ChunkLength(i, s) > 0 /\ Offset(i) \in Nat
  BY ChunkEnds
<1>2. /\ m \in Len(f)+1 .. Len(f)+Len(g) /\ n \in Len(f)+1 .. Len(f)+Len(g)
      /\ m - Len(f) = 1 /\ n - Len(f) = Len(g)
  BY <1>1
<1>3. SubSeq(f \o g, m, n) = SubSeq(g, m - Len(f), n - Len(f))
  BY <1>2, SubSeqOfConcat2
<1>4. SubSeq(g, 1, Len(g)) = g
  BY SubSeqFull
<1> QED
  BY <1>2, <1>3, <1>4 DEF PlainChunk

\* The chunks a run has done are whole.
LEMMA DoneIsWhole ==
  ASSUME RunsTyped, NEW u \in Uploaders, Uploading(u), NEW i \in Nat, i < NextOf(u)
  PROVE  /\ i < ChunkCount(upRun[u].size)
         /\ Offset(i) + ChunkLength(i, upRun[u].size) <= Len(upRun[u].hashed)
         /\ Encrypt(upRun[u].dek, i, PlainChunk(upRun[u].hashed, i, upRun[u].size)) \in Ciphertext
<1> DEFINE h == upRun[u].hashed
           s == upRun[u].size
           n == NextOf(u)
<1>1. h \in Seq(Byte) /\ Len(h) \in Nat /\ s \in Nat /\ upRun[u].dek \in Deks
  <2>1. TypedRun(u)
    BY DEF RunsTyped
  <2>2. upRun[u].dek # Absent
    BY <2>1, Zenon DEF TypedRun
  <2> QED
    BY <2>1, <2>2 DEF TypedRun
<1>2. Len(h) <= s /\ (Len(h) = s \/ Len(h) = Offset(n)) /\ n = ChunkCount(Len(h))
  BY DEF RunsTyped, InOrder, NextOf
<1>3. n \in Nat /\ Offset(i) < Len(h)
  BY <1>1, <1>2, ChunkCounted
<1>4. i < ChunkCount(s)
  <2>1. Offset(i) \in Nat
    BY OffsetSteps
  <2>2. Offset(i) < s
    BY <1>1, <1>2, <1>3, <2>1
  <2> QED
    BY <1>1, <2>2, ChunkCounted
<1>5. /\ ChunkLength(i, s) \in Nat /\ Offset(i + 1) \in Nat /\ Offset(i) \in Nat
      /\ Offset(i) + ChunkLength(i, s) = IF Offset(i + 1) < s THEN Offset(i + 1) ELSE s
  BY <1>1, <1>4, ChunkEnds
<1>6. Offset(i) + ChunkLength(i, s) <= Len(h)
  <2>1. CASE Len(h) = s
    BY <1>1, <1>5, <2>1
  <2>2. CASE Len(h) = Offset(n)
    <3>1. i + 1 \in Nat /\ ~(n < i + 1)
      BY <1>3
    <3>2. Offset(n) \in Nat /\ ~(Offset(n) < Offset(i + 1))
      BY <1>3, <3>1, OffsetOrder, OffsetSteps
    <3> QED
      BY <1>1, <1>5, <2>2, <3>2
  <2> QED
    BY <1>2, <2>1, <2>2
<1>7. PlainChunk(h, i, s) \in Seq(Byte)
  BY <1>1, <1>4, <1>6, ChunkOfFile
<1> QED
  BY <1>1, <1>4, <1>6, <1>7 DEF Encrypt, Ciphertext

\* What a run has done, with the chunk it does now.
LEMMA DoneGrows ==
  ASSUME RunsTyped, NEW u \in Uploaders, HasDone(u), NEW i \in Nat, i < NextOf(u)'
  PROVE  Encrypt(upRun'[u].dek, i, PlainChunk(upRun'[u].hashed, i, upRun'[u].size))
           = IF i = NextOf(u) THEN CipherOf(u)
             ELSE Encrypt(upRun[u].dek, i, PlainChunk(upRun[u].hashed, i, upRun[u].size))
<1> DEFINE h == upRun[u].hashed
           s == upRun[u].size
<1>1. upRun[u].pc = "upload" /\ MoreOf(u) /\ ReadableOf(u) /\ Uploading(u)
  BY DEF HasDone, Uploading, UpActive
<1>2. NextOf(u) \in Nat /\ s \in Nat /\ NextOf(u) < ChunkCount(s) /\ Len(h) = Offset(NextOf(u))
  BY <1>1, NextOfRun
<1>3. PlainOf(u) \in Seq(Byte) /\ Len(PlainOf(u)) = ChunkLength(NextOf(u), s) /\ h \in Seq(Byte)
  BY <1>1, PlainOfRun DEF RunsTyped, TypedRun
<1>4. /\ upRun'[u].hashed = h \o PlainOf(u) /\ upRun'[u].dek = upRun[u].dek
      /\ upRun'[u].size = s /\ NextOf(u)' = NextOf(u) + 1
  BY HasDoneOrder
<1>5. CASE i = NextOf(u)
  <2>1. PlainChunk(h \o PlainOf(u), i, s) = PlainOf(u)
    BY <1>2, <1>3, <1>5, ChunkAppended
  <2> QED
    BY <1>4, <1>5, <2>1 DEF CipherOf
<1>6. CASE i # NextOf(u)
  <2>1. i < NextOf(u)
    BY <1>2, <1>4, <1>6
  <2>2. i < ChunkCount(s) /\ Offset(i) + ChunkLength(i, s) <= Len(h)
    BY <1>1, <2>1, DoneIsWhole
  <2>3. PlainChunk(h \o PlainOf(u), i, s) = PlainChunk(h, i, s)
    BY <1>2, <1>3, <2>2, ChunkOfMore
  <2> QED
    BY <1>4, <1>6, <2>3
<1> QED
  BY <1>5, <1>6

\* A run puts what any run would put there now, and only where there is nothing else
\* (sender_encrypt_upload.py:200-212).
LEMMA PutsTheSame ==
  ASSUME UploadsInv, NEW u \in Uploaders, HasDone(u)
  PROVE  /\ CipherOf(u) = Current(NextOf(u)) /\ CipherOf(u) \in Ciphertext
         /\ NextOf(u) \in Indices
         /\ Puts(u) => /\ chunks[NextOf(u)] \in {Absent, CipherOf(u)}
                       /\ chunks[NextOf(u)] # Absent => overlapped
<1>1. upRun[u].pc = "upload" /\ MoreOf(u) /\ ReadableOf(u) /\ Uploading(u)
  BY DEF HasDone, Uploading, UpActive
<1>2. RunsTyped /\ FromSidecar(u) /\ AheadIsSame(u)
  BY DEF UploadsInv
<1>3. CipherOf(u) = Current(NextOf(u))
  BY <1>1, <1>2 DEF FromSidecar, CipherOf, PlainOf, Current
<1>4. NextOf(u) \in Nat /\ NextOf(u) \in Indices /\ NextOf(u) < ChunkCount(upRun[u].size)
        /\ CipherOf(u) \in Ciphertext
  BY <1>1, <1>2, NextOfRun, PlainOfRun
<1>5. Puts(u) => /\ chunks[NextOf(u)] \in {Absent, CipherOf(u)}
                 /\ chunks[NextOf(u)] # Absent => overlapped
  BY <1>1, <1>2, <1>3, <1>4 DEF Puts, AheadIsSame
<1> QED
  BY <1>3, <1>4, <1>5

\* No request of a run that has gone is on its way.
LEMMA NoStray == ASSUME MaxStray = 0, RunsTyped PROVE stray = {}
<1>1. IsFiniteSet(stray) /\ Cardinality(stray) <= 0
  BY DEF RunsTyped, BrokerInv, BrokerTypeOK
<1> QED
  BY <1>1, FS_EmptySet, FS_CardinalityType

\* What the broker does on its own, then, is to lose connections and contents.
LEMMA BrokerOnlyLoses ==
  ASSUME MaxStray = 0, RunsTyped, BrokerOwnStep
  PROVE  /\ connected' \subseteq connected
         /\ \A i \in Indices :
                chunks'[i] \in {chunks[i], Garbled} /\ (chunks[i] = Absent => chunks'[i] = Absent)
         /\ (\E v \in Uploaders : v \in connected') => UNCHANGED chunks
         /\ ManifestVerifies' => ManifestVerifies /\ manifest' = manifest
<1>1. stray = {}
  BY NoStray
<1>2. ManifestVerifies' => ManifestVerifies /\ manifest' = manifest
  BY <1>1, BrokerStepInv DEF RunsTyped
<1>3. chunks \in [Indices -> Ciphertext \cup {Absent, Garbled}]
  BY DEF RunsTyped, BrokerInv, BrokerTypeOK
<1>4. CASE ServeStray
  BY <1>1, <1>4 DEF ServeStray
<1>5. CASE BrokerKilled
  BY <1>1, <1>2, <1>5 DEF BrokerKilled, store
<1>6. CASE BrokerPowerLoss
  BY <1>2, <1>3, <1>6 DEF BrokerPowerLoss, Stored
<1>7. CASE \E c \in Clients : Disconnect(c)
  BY <1>2, <1>7 DEF Disconnect, store
<1>8. ~StrayHalfDone
  BY <1>1 DEF StrayHalfDone
<1> QED
  BY <1>4, <1>5, <1>6, <1>7, <1>8 DEF BrokerOwnStep, BrokerFault

\* No step replaces a chunk that is stored by anything else.
LEMMA StoredStays ==
  ASSUME MaxStray = 0, UploadsInv, UploadsStep
  PROVE  NothingReplaced
<1>1. RunsTyped /\ chunks \in [Indices -> Ciphertext \cup {Absent, Garbled}]
  BY DEF UploadsInv, RunsTyped, BrokerInv, BrokerTypeOK
<1>2. ASSUME NEW u \in Uploaders, Puts(u) PROVE NothingReplaced
  <2>1. HasDone(u) /\ chunks' = [chunks EXCEPT ![NextOf(u)] = CipherOf(u)]
    BY <1>2 DEF Puts
  <2> QED
    BY <1>1, <1>2, <2>1, PutsTheSame DEF NothingReplaced
<1>3. CASE OnBroker
  BY <1>1, <1>3, BrokerOnlyLoses DEF OnBroker, NothingReplaced
<1>4. CASE UNCHANGED chunks
  BY <1>4 DEF NothingReplaced
<1>5. CASE Edits
  BY <1>4, <1>5 DEF Edits, brokerVars, store
<1>6. ASSUME NEW u \in Uploaders, UpActs(u), ~Puts(u) PROVE UNCHANGED chunks
  BY <1>6 DEF UpActs, Begins, ListsStored, Compares, Publishes, Leaves, LeavesSent, brokerVars,
              store
<1> QED
  BY <1>2, <1>3, <1>4, <1>5, <1>6 DEF UploadsStep

\* A run that takes no part in a step.
LEMMA Bystander ==
  ASSUME UploadsInv, OverlapFollows, NothingReplaced,
         NEW v \in Uploaders, upRun'[v] = upRun[v],
         Uploading(v) => UNCHANGED sidecar,
         input' = input \/ ~overlapped,
         v \in connected' =>
           /\ v \in connected
           /\ \A i \in Indices : \/ chunks'[i] = chunks[i]
                                 \/ overlapped' /\ chunks'[i] = Current(i)'
  PROVE  FromSidecar(v)' /\ DoneIsStored(v)' /\ AheadIsSame(v)'
<1>1. /\ Uploading(v)' = Uploading(v) /\ NextOf(v)' = NextOf(v)
      /\ RunsTyped /\ FromSidecar(v) /\ DoneIsStored(v) /\ AheadIsSame(v)
  BY OtherStays DEF UploadsInv
<1>2. FromSidecar(v)'
  BY <1>1 DEF FromSidecar
<1>3. DoneIsStored(v)'
  <2> SUFFICES ASSUME Uploading(v), NEW i \in Indices, i < NextOf(v)
               PROVE  chunks'[i] \in {Encrypt(upRun[v].dek, i,
                                PlainChunk(upRun[v].hashed, i, upRun[v].size)), Garbled}
    BY <1>1 DEF DoneIsStored
  <2> DEFINE e == Encrypt(upRun[v].dek, i, PlainChunk(upRun[v].hashed, i, upRun[v].size))
  <2>1. chunks[i] \in {e, Garbled}
    BY <1>1 DEF DoneIsStored
  <2>2. e # Absent /\ Garbled # Absent
    BY <1>1, DoneIsWhole, GarbledAssumption DEF Indices
  <2> HIDE DEF e
  <2>3. chunks'[i] \in {chunks[i], Garbled}
    BY <2>1, <2>2 DEF NothingReplaced
  <2> QED
    BY <2>1, <2>3 DEF e
<1>4. AheadIsSame(v)'
  <2> SUFFICES ASSUME upRun[v].pc = "upload", v \in connected',
                      NEW i \in Indices \ upRun[v].onBroker,
                      NextOf(v) <= i, i < ChunkCount(upRun[v].size)
               PROVE  chunks'[i] = Absent \/ (overlapped' /\ chunks'[i] = Current(i)')
    BY <1>1 DEF AheadIsSame
  <2>1. chunks[i] = Absent \/ (overlapped /\ chunks[i] = Current(i))
    BY <1>1 DEF AheadIsSame
  <2>2. Uploading(v)
    BY DEF Uploading, UpActive
  <2>3. overlapped => overlapped' /\ Current(i)' = Current(i)
    BY <1>1, <2>2 DEF OverlapFollows, Current
  <2> QED
    BY <2>1, <2>3
<1> QED
  BY <1>2, <1>3, <1>4

\* The run that has done another chunk.
LEMMA ChunkDoneKeeps ==
  ASSUME UploadsInv, OverlapFollows, NEW u \in Uploaders, Compares(u) \/ Puts(u)
  PROVE  FromSidecar(u)' /\ DoneIsStored(u)' /\ AheadIsSame(u)'
<1>1. /\ HasDone(u) /\ chunks'[NextOf(u)] = CipherOf(u)
      /\ \A i \in Indices \ {NextOf(u)} : chunks'[i] = chunks[i]
      /\ connected' = connected /\ UNCHANGED <<input, sidecar>>
  <2>1. HasDone(u)
    BY DEF Compares, Puts
  <2>2. NextOf(u) \in Indices /\ chunks \in [Indices -> Ciphertext \cup {Absent, Garbled}]
    BY <2>1, PutsTheSame DEF UploadsInv, RunsTyped, BrokerInv, BrokerTypeOK
  <2> QED
    BY <2>1, <2>2 DEF Compares, Puts, HasDone, upShared
<1>2. /\ RunsTyped /\ FromSidecar(u) /\ DoneIsStored(u) /\ AheadIsSame(u)
      /\ upRun[u].pc = "upload" /\ Uploading(u) /\ NextOf(u) \in Nat
  BY <1>1, NextOfRun DEF UploadsInv, HasDone, Uploading, UpActive
<1>3. /\ upRun'[u].dek = upRun[u].dek /\ upRun'[u].size = upRun[u].size
      /\ upRun'[u].onBroker = upRun[u].onBroker /\ upRun'[u].pc = "upload"
      /\ NextOf(u)' = NextOf(u) + 1 /\ Uploading(u)'
  BY <1>1, <1>2, HasDoneOrder DEF Uploading, UpActive
<1>4. FromSidecar(u)'
  BY <1>1, <1>2, <1>3 DEF FromSidecar
<1>5. DoneIsStored(u)'
  <2> SUFFICES ASSUME NEW i \in Indices, i < NextOf(u)'
               PROVE  chunks'[i] \in {Encrypt(upRun'[u].dek, i,
                                PlainChunk(upRun'[u].hashed, i, upRun'[u].size)), Garbled}
    BY DEF DoneIsStored
  <2>1. i \in Nat
    BY DEF Indices
  <2>2. CASE i = NextOf(u)
    BY <1>1, <1>2, <2>1, <2>2, DoneGrows
  <2>3. CASE i # NextOf(u)
    <3>1. i < NextOf(u) /\ chunks'[i] = chunks[i]
      BY <1>1, <1>2, <1>3, <2>1, <2>3
    <3>2. chunks[i] \in {Encrypt(upRun[u].dek, i,
                            PlainChunk(upRun[u].hashed, i, upRun[u].size)), Garbled}
      BY <1>2, <3>1 DEF DoneIsStored
    <3> QED
      BY <1>1, <1>2, <2>1, <2>3, <3>1, <3>2, DoneGrows
  <2> QED
    BY <2>2, <2>3
<1>6. AheadIsSame(u)'
  <2> SUFFICES ASSUME u \in connected', NEW i \in Indices \ upRun[u].onBroker,
                      NextOf(u) + 1 <= i, i < ChunkCount(upRun[u].size)
               PROVE  chunks'[i] = Absent \/ (overlapped' /\ chunks'[i] = Current(i)')
    BY <1>3 DEF AheadIsSame
  <2>1. i \in Nat /\ i # NextOf(u) /\ NextOf(u) <= i
    BY <1>2 DEF Indices
  <2>2. chunks[i] = Absent \/ (overlapped /\ chunks[i] = Current(i))
    BY <1>1, <1>2, <2>1 DEF AheadIsSame
  <2>3. chunks'[i] = chunks[i] /\ (overlapped => overlapped') /\ Current(i)' = Current(i)
    BY <1>1, <1>3, <2>1 DEF OverlapFollows, Current
  <2> QED
    BY <2>2, <2>3
<1> QED
  BY <1>4, <1>5, <1>6

\* A manifest that was complete before still is.
LEMMA StaysComplete ==
  ASSUME RunsTyped, ManifestOfInput, ManifestVerifies, Complete, NothingReplaced,
         UNCHANGED manifest
  PROVE  Complete'
<1>1. PICK f \in Inputs : Len(manifest.plain) = Len(f)
  BY DEF ManifestOfInput
<1>2. manifest \in Manifest /\ manifest.plain \in Seq(Byte) /\ manifest.dek \in Deks
        /\ Len(manifest.plain) \in Nat
  BY DEF ManifestVerifies, Manifest
<1>3. ASSUME NEW i \in 0..ChunkCount(Len(manifest.plain)) - 1
      PROVE  chunks'[i] \in {Listed(manifest, i), Garbled}
  <2>1. i \in Nat /\ i < ChunkCount(Len(manifest.plain))
    BY <1>2, ChunkCounted
  <2>2. i \in Indices
    BY <1>1, <2>1, ChunkIndex
  <2>3. Offset(i) + ChunkLength(i, Len(manifest.plain)) <= Len(manifest.plain)
    BY <1>2, <2>1, ChunkEnds
  <2>4. PlainChunk(manifest.plain, i, Len(manifest.plain)) \in Seq(Byte)
    BY <1>2, <2>1, <2>3, ChunkOfFile
  <2>5. Listed(manifest, i) \in Ciphertext
    BY <1>2, <2>1, <2>4 DEF Listed, Encrypt, Ciphertext
  <2>6. chunks[i] \in {Listed(manifest, i), Garbled}
    BY DEF Complete
  <2>7. chunks[i] # Absent
    BY <2>5, <2>6, GarbledAssumption
  <2> QED
    BY <2>2, <2>6, <2>7 DEF NothingReplaced
<1> QED
  BY <1>3 DEF Complete

\* The chunks a run has done are those of the manifest it signs.
LEMMA SignedIsComplete ==
  ASSUME UploadsInv, NEW u \in Uploaders, Publishes(u)
  PROVE  PublishedIsComplete' /\ ManifestOfInput'
<1> DEFINE h == upRun[u].hashed
<1>1. /\ upRun[u].pc = "upload" /\ ~MoreOf(u) /\ Uploading(u)
      /\ manifest' = SignedOf(u) /\ chunks' = chunks
  BY DEF Publishes, Uploading, UpActive
<1>2. /\ Len(h) = upRun[u].size /\ h \in Seq(Byte) /\ NextOf(u) = ChunkCount(Len(h))
      /\ \E f \in Inputs : upRun[u].size = Len(f)
  BY <1>1, WholeOfRun DEF UploadsInv
<1>3. manifest'.plain = h /\ manifest'.dek = upRun[u].dek
  BY <1>1 DEF SignedOf
<1>4. ASSUME NEW i \in 0..ChunkCount(Len(h)) - 1
      PROVE  chunks'[i] \in {Encrypt(upRun[u].dek, i, PlainChunk(h, i, Len(h))), Garbled}
  <2>1. Len(h) \in Nat /\ ChunkCount(Len(h)) \in Nat
    BY <1>2, ChunkCounted
  <2>2. i \in Nat /\ i < ChunkCount(Len(h))
    BY <2>1
  <2>3. i \in Indices
    BY <1>2, <2>2, ChunkIndex
  <2> QED
    BY <1>1, <1>2, <2>2, <2>3 DEF UploadsInv, DoneIsStored
<1>5. Complete'
  BY <1>3, <1>4 DEF Complete, Listed
<1> QED
  BY <1>2, <1>3, <1>5 DEF PublishedIsComplete, ManifestOfInput

\* The broker keeps what verifies.
LEMMA KeepsPublished ==
  ASSUME UploadsInv, NothingReplaced,
         ManifestVerifies' => ManifestVerifies /\ manifest' = manifest
  PROVE  PublishedIsComplete' /\ ManifestOfInput'
<1>1. ManifestOfInput'
  BY DEF UploadsInv, ManifestOfInput
<1>2. ManifestVerifies' => Complete'
  BY StaysComplete DEF UploadsInv, PublishedIsComplete
<1> QED
  BY <1>1, <1>2 DEF PublishedIsComplete

\* The steps of a run.
LEMMA UpActsKeeps ==
  ASSUME MaxStray = 0, UploadsInv, UploadsStep, NEW u \in Uploaders, UpActs(u)
  PROVE  UploadsInv'
<1>1. RunsTyped /\ RunsTyped' /\ OverlapFollows /\ NothingReplaced /\ stray = {}
  BY UploadsTyped, StoredStays, NoStray DEF UploadsInv, UploadsStep
<1>2. OverlapSeen'
  BY <1>1 DEF OverlapSeen, OverlapFollows
<1>3. \A v \in Uploaders \ {u} : upRun'[v] = upRun[v] /\ (v \in connected' => v \in connected)
  BY UpActsTyped, <1>1
  DEF UpActs, Begins, ListsStored, Compares, Puts, HasDone, Publishes, Leaves, LeavesSent, Ends,
      brokerVars
<1>4. ~Puts(u) => chunks' = chunks
  BY DEF UpActs, Begins, ListsStored, Compares, Publishes, Leaves, LeavesSent, brokerVars, store
<1>5. input' = input
  BY DEF UpActs, Begins, ListsStored, Compares, Puts, HasDone, Publishes, Leaves, LeavesSent, Ends,
         upShared
<1>6. \A v \in Uploaders \ {u} : Uploading(v) => UNCHANGED sidecar
  BY DEF UpActs, Begins, ListsStored, Compares, Puts, HasDone, Publishes, Leaves, LeavesSent, Ends,
         upShared
<1>7. ASSUME NEW v \in Uploaders \ {u}
      PROVE  FromSidecar(v)' /\ DoneIsStored(v)' /\ AheadIsSame(v)'
  <2>1. ASSUME v \in connected', NEW i \in Indices, Uploading(v)
        PROVE  chunks'[i] = chunks[i] \/ (overlapped' /\ chunks'[i] = Current(i)')
    <3>1. CASE ~Puts(u)
      BY <1>4, <3>1
    <3>2. CASE Puts(u)
      <4>1. /\ HasDone(u) /\ chunks' = [chunks EXCEPT ![NextOf(u)] = CipherOf(u)]
            /\ UNCHANGED <<input, sidecar>>
        BY <3>2 DEF Puts, HasDone, upShared
      <4>2. CipherOf(u) = Current(NextOf(u)) /\ Current(NextOf(u))' = Current(NextOf(u)')
        BY <4>1, PutsTheSame DEF Current
      <4>3. chunks \in [Indices -> Ciphertext \cup {Absent, Garbled}]
        BY <1>1 DEF RunsTyped, BrokerInv, BrokerTypeOK
      <4>4. \A j : Current(j)' = Current(j)
        BY <4>1 DEF Current
      <4>5. Uploading(u)' /\ Uploading(v)'
        BY <1>1, <1>3, <2>1, <4>1, HasDoneOrder DEF Uploading, UpActive
      <4>6. overlapped'
        BY <1>1, <4>5, TwoUploaders DEF OverlapFollows
      <4> QED
        BY <4>1, <4>2, <4>3, <4>4, <4>6
    <3> QED
      BY <3>1, <3>2
  <2>2. CASE Uploading(v)
    BY <1>1, <1>3, <1>5, <1>6, <2>1, <2>2, Bystander
  <2>3. CASE ~Uploading(v)
    <3>1. ~Uploading(v)' /\ upRun'[v].pc # "upload"
      BY <1>3, <2>3 DEF Uploading, UpActive
    <3> QED
      BY <3>1 DEF FromSidecar, DoneIsStored, AheadIsSame
  <2> QED
    BY <2>2, <2>3
<1>8. FromSidecar(u)' /\ DoneIsStored(u)' /\ AheadIsSame(u)'
  <2>1. CASE Begins(u)
    <3>1. /\ upRun'[u].pc = "list" /\ NextOf(u)' = 0 /\ upRun'[u].dek = sidecar'.dek
          /\ upRun'[u].size = Len(input) /\ sidecar' # Absent /\ sidecar'.size = Len(input)
      BY <1>1, <2>1, BeginsTyped DEF Begins
    <3>2. \A i \in Indices : ~(i < 0)
      BY DEF Indices
    <3> QED
      BY <3>1, <3>2 DEF FromSidecar, DoneIsStored, AheadIsSame
  <2>2. CASE ListsStored(u)
    <3>1. /\ upRun'[u].pc = "upload" /\ upRun[u].pc = "list" /\ upRun'[u].dek = upRun[u].dek
          /\ upRun'[u].size = upRun[u].size /\ upRun'[u].onBroker = Stored
          /\ upRun'[u].hashed = upRun[u].hashed /\ chunks' = chunks /\ sidecar' = sidecar
      BY <2>2, RunFields DEF ListsStored, Becomes, upShared, brokerVars, store
    <3>2. FromSidecar(u) /\ DoneIsStored(u) /\ Uploading(u) /\ NextOf(u)' = NextOf(u)
      BY <3>1 DEF UploadsInv, Uploading, UpActive, NextOf
    <3> QED
      BY <3>1, <3>2 DEF FromSidecar, DoneIsStored, AheadIsSame, Stored
  <2>3. CASE Compares(u) \/ Puts(u)
    BY <1>1, <2>3, ChunkDoneKeeps
  <2>4. CASE Publishes(u) \/ Leaves(u) \/ LeavesSent(u)
    <3>1. ~Uploading(u)' /\ upRun'[u].pc # "upload"
      BY <1>1, <2>4, EndsTyped DEF Publishes, Leaves, LeavesSent, Uploading, UpActive
    <3> QED
      BY <3>1 DEF FromSidecar, DoneIsStored, AheadIsSame
  <2> QED
    BY <2>1, <2>2, <2>3, <2>4 DEF UpActs
<1>9. PublishedIsComplete' /\ ManifestOfInput'
  <2>1. CASE Publishes(u)
    BY <2>1, SignedIsComplete
  <2>2. CASE ~Publishes(u)
    <3>1. UNCHANGED <<manifest, signature>>
      BY <2>2 DEF UpActs, Begins, ListsStored, Compares, Puts, HasDone, Leaves, LeavesSent,
                  brokerVars, store
    <3> QED
      BY <1>1, <3>1, KeepsPublished DEF ManifestVerifies
  <2> QED
    BY <2>1, <2>2
<1> QED
  BY <1>1, <1>2, <1>7, <1>8, <1>9 DEF UploadsInv

\* UploadsInv is inductive.
LEMMA UploadsKeep ==
  ASSUME MaxStray = 0, UploadsInv, UploadsStep
  PROVE  UploadsInv'
<1>1. RunsTyped /\ RunsTyped' /\ OverlapFollows /\ NothingReplaced
  BY UploadsTyped, StoredStays DEF UploadsInv, UploadsStep
<1>2. OverlapSeen'
  BY <1>1 DEF OverlapSeen, OverlapFollows
<1>3. CASE Edits
  <2>1. ~overlapped /\ UNCHANGED <<upRun, sidecar, connected, chunks, manifest, signature>>
    BY <1>3 DEF Edits, brokerVars, store
  <2>2. \A v \in Uploaders : FromSidecar(v)' /\ DoneIsStored(v)' /\ AheadIsSame(v)'
    BY <1>1, <2>1, Bystander
  <2>3. PublishedIsComplete' /\ ManifestOfInput'
    BY <1>1, <2>1, KeepsPublished DEF ManifestVerifies
  <2> QED
    BY <1>1, <1>2, <2>2, <2>3 DEF UploadsInv
<1>4. CASE OnBroker
  <2>1. BrokerOwnStep /\ UNCHANGED <<upRun, sidecar, input>>
    BY <1>4 DEF OnBroker, upShared
  <2>2. /\ connected' \subseteq connected
        /\ (\E v \in Uploaders : v \in connected') => UNCHANGED chunks
        /\ ManifestVerifies' => ManifestVerifies /\ manifest' = manifest
    BY <1>1, <2>1, BrokerOnlyLoses
  <2>3. \A v \in Uploaders : FromSidecar(v)' /\ DoneIsStored(v)' /\ AheadIsSame(v)'
    BY <1>1, <2>1, <2>2, Bystander
  <2>4. PublishedIsComplete' /\ ManifestOfInput'
    BY <1>1, <2>2, KeepsPublished
  <2> QED
    BY <1>1, <1>2, <2>3, <2>4 DEF UploadsInv
<1> QED
  BY <1>3, <1>4, UpActsKeeps DEF UploadsStep

\* Without late requests the two uploads begin with the invariant and keep it.
LEMMA UploadsInvKept ==
  ASSUME MaxStray = 0
  PROVE  /\ UploadsInit => UploadsInv
         /\ UploadsInv /\ [UploadsNext]_uploadsVars => UploadsInv'
<1>1. UploadsInit => UploadsInv
  <2> SUFFICES ASSUME UploadsInit PROVE UploadsInv
    OBVIOUS
  <2>1. RunsTyped /\ \A u \in Uploaders : upRun[u].pc = "off"
    BY UploadsInitTyped, TwoUploaders, RunFields DEF UploadsInit, UpInit, SecondUp!UpInit
  <2>2. signature = Absent /\ Absent # "valid"
    BY BrokerAssumption DEF UploadsInit, BrokerInit
  <2> QED
    BY <2>1, <2>2, TwoUploaders
    DEF UploadsInv, OverlapSeen, Uploading, UpActive, FromSidecar, DoneIsStored, AheadIsSame,
        ManifestOfInput, PublishedIsComplete, ManifestVerifies
<1>2. UploadsInv /\ [UploadsNext]_uploadsVars => UploadsInv'
  <2> SUFFICES ASSUME UploadsInv, [UploadsNext]_uploadsVars PROVE UploadsInv'
    OBVIOUS
  <2>1. CASE UploadsNext
    BY <2>1, UploadsSteps, UploadsKeep DEF UploadsInv
  <2>2. CASE UNCHANGED uploadsVars
    <3>1. UNCHANGED <<upRun, upShared, brokerVars, overlapped>>
      BY <2>2, UploadsStutter
    <3> QED
      BY <3>1 DEF UploadsInv, RunsTyped, TypedRun, InOrder, Uploading, NextOf, OverlapSeen,
          FromSidecar, DoneIsStored, AheadIsSame, Current, ManifestOfInput, PublishedIsComplete,
          ManifestVerifies, Complete, upShared, brokerVars, store, BrokerInv, BrokerTypeOK
  <2> QED
    BY <2>1, <2>2
<1> QED
  BY <1>1, <1>2

(***************************************************************************)
(* Two runs of one upload beside each other, each with an outdated answer  *)
(* to LIST, after other uploads of the session and edits between the runs, *)
(* publish no manifest that lists a chunk that is not there, as long as no *)
(* request of a run that has gone arrives late                             *)
(* (sender_encrypt_upload.py:186-245).                                     *)
(***************************************************************************)
THEOREM PublishedIsCompleteHolds ==
  ASSUME MaxStray = 0
  PROVE  UploadsSpec => []PublishedIsComplete
<1>1. UploadsInv => PublishedIsComplete
  BY DEF UploadsInv
<1> QED
  BY <1>1, UploadsInvKept, PTL DEF UploadsSpec

(***************************************************************************)
(* As long as no request arrives late, no step of either run, of the       *)
(* broker or of the user replaces a stored chunk by anything else          *)
(* (sender_encrypt_upload.py:200-212, broker_server.py:95-105).            *)
(***************************************************************************)
THEOREM StoredChunksStayHolds ==
  ASSUME MaxStray = 0
  PROVE  UploadsSpec => StoredChunksStay
<1>1. UploadsInv /\ [UploadsNext]_uploadsVars => [NothingReplaced]_uploadsVars
  <2> SUFFICES ASSUME UploadsInv, UploadsNext PROVE NothingReplaced
    OBVIOUS
  <2> QED
    BY UploadsSteps, StoredStays DEF UploadsInv
<1>2. StoredChunksStay <=> [][NothingReplaced]_uploadsVars
  BY PTL DEF StoredChunksStay
<1> QED
  BY <1>1, <1>2, UploadsInvKept, PTL DEF UploadsSpec
-----------------------------------------------------------------------------
(* Two uploads: what is published is complete, with late requests.         *)

\* The runs that go on have the one key there is.
LEMMA OurKeyOfRun ==
  ASSUME OneUploadInv, NEW u \in Uploaders, Uploading(u)
  PROVE  /\ usedDeks # {} /\ upRun[u].dek = Ours.dek /\ sidecar # Absent
<1>1. sidecar # Absent /\ upRun[u].dek = sidecar.dek /\ usedDeks = {sidecar.dek}
  BY DEF OneUploadInv, RunIsOurs, OneKey
<1> QED
  BY <1>1 DEF Ours

\* What a run puts is what the one manifest lists.
LEMMA OurChunkOfRun ==
  ASSUME OneUploadInv, NEW u \in Uploaders, upRun[u].pc = "upload", MoreOf(u), ReadableOf(u)
  PROVE  /\ CipherOf(u) = Listed(Ours, NextOf(u)) /\ CipherOf(u) \in Ciphertext
         /\ usedDeks # {}
         /\ upRun[u].hashed \o PlainOf(u)
              = SubSeq(input, 1, Len(upRun[u].hashed \o PlainOf(u)))
<1> DEFINE h == upRun[u].hashed
<1>1. /\ RunsTyped /\ Uploading(u) /\ usedDeks # {} /\ Ours.dek = upRun[u].dek
      /\ upRun[u].size = Len(input) /\ h = SubSeq(input, 1, Len(h)) /\ h \in Seq(Byte)
  BY OurKeyOfRun DEF OneUploadInv, RunIsOurs, RunsTyped, TypedRun, Uploading, UpActive
<1>2. CipherOf(u) = Listed(Ours, NextOf(u))
  BY <1>1 DEF CipherOf, PlainOf, Listed, Ours
<1>3. Len(h) = Offset(NextOf(u)) /\ Offset(NextOf(u)) \in Nat
  BY <1>1, NextOfRun, OffsetSteps
<1>4. /\ PlainOf(u) \in Seq(Byte) /\ CipherOf(u) \in Ciphertext
      /\ Len(PlainOf(u)) = ChunkLength(NextOf(u), upRun[u].size)
      /\ SubSeq(input, 1, Offset(NextOf(u))) \o PlainOf(u)
           = SubSeq(input, 1, Offset(NextOf(u)) + ChunkLength(NextOf(u), upRun[u].size))
  BY <1>1, PlainOfRun
<1>5. Len(h \o PlainOf(u)) = Len(h) + Len(PlainOf(u))
  BY <1>1, <1>4, ConcatProperties
<1>6. h \o PlainOf(u) = SubSeq(input, 1, Len(h \o PlainOf(u)))
  BY <1>1, <1>3, <1>4, <1>5
<1> QED
  BY <1>1, <1>2, <1>4, <1>6

\* A run that has no more chunks to do signs the one manifest.
LEMMA OurManifestOfRun ==
  ASSUME OneUploadInv, NEW u \in Uploaders, upRun[u].pc = "upload", ~MoreOf(u)
  PROVE  SignedOf(u) = Ours /\ Have(ChunkCount(Len(input))) /\ usedDeks # {}
<1>1. /\ RunsTyped /\ usedDeks # {} /\ upRun[u].dek = Ours.dek /\ Have(NextOf(u))
      /\ upRun[u].size = Len(input)
      /\ upRun[u].hashed = SubSeq(input, 1, Len(upRun[u].hashed))
  BY OurKeyOfRun DEF OneUploadInv, RunIsOurs, Uploading, UpActive
<1>2. Len(upRun[u].hashed) = Len(input) /\ NextOf(u) = ChunkCount(Len(input))
  BY <1>1, WholeOfRun
<1>3. input \in Seq(Byte)
  BY <1>1, FormatAssumption DEF RunsTyped
<1>4. upRun[u].hashed = input
  BY <1>1, <1>2, <1>3, SubSeqFull
<1> QED
  BY <1>1, <1>2, <1>4 DEF SignedOf, Ours

\* What is there stays there, and only what is on its way or a run has comes to it.
OursComes ==
  /\ \A i \in Indices :
       \/ chunks'[i] = chunks[i]
       \/ chunks'[i] = Garbled /\ chunks[i] # Absent
       \/ chunks'[i] = Listed(Ours, i) /\ chunks'[i] # Absent /\ usedDeks # {}
  /\ \/ manifest' = manifest
     \/ manifest' = Garbled /\ manifest # Absent
     \/ manifest' = Ours /\ usedDeks # {} /\ Have(ChunkCount(Len(input)))
  /\ \A r \in stray' :
       \/ r \in stray
       \/ r.cmd = "PUT_CHUNK" /\ r.ct = Listed(Ours, r.index) /\ usedDeks # {}
       \/ r.cmd = "PUT_MANIFEST" /\ r.manifest = Ours /\ usedDeks # {}
            /\ Have(ChunkCount(Len(input)))

\* So the broker keeps having nothing but the one upload.
LEMMA OursStays ==
  ASSUME OneUploadInv, OursComes, UNCHANGED <<input, usedDeks>>, sidecar' \in {sidecar, Absent}
  PROVE  OneKey' /\ AllIsOurs' /\ DoneFirst' /\ \A n : Have(n) => Have(n)'
<1>1. \A i \in Indices : chunks[i] # Absent => chunks'[i] # Absent
  BY GarbledAssumption DEF OursComes
<1>2. \A n : Have(n) => Have(n)'
  BY <1>1 DEF Have
<1>3. OneKey'
  BY DEF OneUploadInv, OneKey, OursComes
<1>4. AllIsOurs'
  <2>1. Ours' = Ours
    BY DEF Ours
  <2> QED
    BY <2>1 DEF OneUploadInv, AllIsOurs, OursComes
<1>5. DoneFirst'
  BY <1>2 DEF OneUploadInv, DoneFirst, OursComes
<1> QED
  BY <1>2, <1>3, <1>4, <1>5

\* A run that takes no part in a step.
LEMMA OurBystander ==
  ASSUME OneUploadInv, NEW v \in Uploaders, upRun'[v] = upRun[v],
         input' = input, Uploading(v) => UNCHANGED sidecar,
         \A n : Have(n) => Have(n)'
  PROVE  RunIsOurs(v)'
BY DEF OneUploadInv, RunIsOurs, Uploading, UpActive, NextOf

\* The broker's own steps.
LEMMA OurBroker ==
  ASSUME OneUploadInv, OnBroker
  PROVE  OursComes /\ UNCHANGED <<input, sidecar, usedDeks, upRun>>
<1>1. RunsTyped /\ BrokerOwnStep /\ UNCHANGED <<input, sidecar, usedDeks, upRun>>
  BY DEF OneUploadInv, OnBroker, upShared
<1>2. chunks \in [Indices -> Ciphertext \cup {Absent, Garbled}] /\ stray \subseteq Put
        /\ stray' \subseteq stray
  BY <1>1, BrokerStepInv DEF RunsTyped, BrokerInv, BrokerTypeOK
<1>3. ASSUME NEW r \in stray
      PROVE  /\ usedDeks # {}
             /\ \/ /\ r.cmd = "PUT_CHUNK" /\ r.ct = Listed(Ours, r.index) /\ r.ct # Absent
                \/ /\ r.cmd = "PUT_MANIFEST" /\ r.manifest = Ours
                   /\ Have(ChunkCount(Len(input)))
  <2>1. usedDeks # {}
    BY DEF OneUploadInv, OneKey
  <2>2. r.cmd = "PUT_CHUNK" => r.ct \in Ciphertext
    BY <1>2 DEF Put, PutChunk, PutManifest
  <2>3. r.cmd = "PUT_CHUNK" \/ r.cmd = "PUT_MANIFEST"
    BY <1>2 DEF Put, PutChunk, PutManifest
  <2>4. IF r.cmd = "PUT_CHUNK" THEN r.ct = Listed(Ours, r.index) ELSE r.manifest = Ours
    BY <2>1 DEF OneUploadInv, AllIsOurs
  <2> QED
    BY <2>1, <2>2, <2>3, <2>4, GarbledAssumption DEF OneUploadInv, DoneFirst
<1>4. /\ \A i \in Indices : \/ chunks'[i] = chunks[i]
                            \/ chunks'[i] = Garbled /\ chunks[i] # Absent
                            \/ \E r \in stray : r.cmd = "PUT_CHUNK" /\ r.index = i
                                                  /\ chunks'[i] = r.ct
      /\ \/ manifest' = manifest
         \/ manifest' = Garbled /\ manifest # Absent
         \/ \E r \in stray : r.cmd = "PUT_MANIFEST" /\ manifest' = r.manifest
  <2>1. ASSUME NEW r \in stray, Serve(r)
        PROVE  \/ r.cmd = "PUT_CHUNK" /\ manifest' = manifest
                    /\ chunks' = [chunks EXCEPT ![r.index] = r.ct]
               \/ r.cmd = "PUT_MANIFEST" /\ manifest' = r.manifest /\ chunks' = chunks
    BY <2>1 DEF Serve, StoreChunk, StoreManifest
  <2>2. CASE ServeStray
    BY <1>2, <2>1, <2>2 DEF ServeStray
  <2>3. CASE BrokerKilled
    BY <2>3 DEF BrokerKilled, HalfManifest, store
  <2>4. CASE BrokerPowerLoss
    BY <1>2, <2>4 DEF BrokerPowerLoss, Stored, Unsynced
  <2>5. CASE \E c \in Clients : Disconnect(c)
    BY <2>5 DEF Disconnect, store
  <2>6. CASE StrayHalfDone
    BY <2>6 DEF StrayHalfDone, HalfManifest
  <2> QED
    BY <1>1, <2>2, <2>3, <2>4, <2>5, <2>6 DEF BrokerOwnStep, BrokerFault
<1>5. \A i \in Indices :
        \/ chunks'[i] = chunks[i]
        \/ chunks'[i] = Garbled /\ chunks[i] # Absent
        \/ chunks'[i] = Listed(Ours, i) /\ chunks'[i] # Absent /\ usedDeks # {}
  BY <1>3, <1>4
<1>6. \/ manifest' = manifest
      \/ manifest' = Garbled /\ manifest # Absent
      \/ manifest' = Ours /\ usedDeks # {} /\ Have(ChunkCount(Len(input)))
  BY <1>3, <1>4
<1> QED
  BY <1>1, <1>2, <1>5, <1>6 DEF OursComes

\* The steps of a run: what they store or leave behind.
LEMMA OurStep ==
  ASSUME OneUploadInv, NEW u \in Uploaders, UpActs(u), ~Begins(u)
  PROVE  OursComes /\ UNCHANGED <<input, usedDeks>> /\ sidecar' \in {sidecar, Absent}
<1>1. UNCHANGED <<input, usedDeks>> /\ sidecar' \in {sidecar, Absent}
  BY DEF UpActs, ListsStored, Compares, Puts, HasDone, Publishes, Leaves, LeavesSent, Ends, upShared
<1>2. CASE UNCHANGED <<chunks, manifest, stray>>
  BY <1>1, <1>2 DEF OursComes
<1>3. CASE Puts(u)
  <2>1. /\ upRun[u].pc = "upload" /\ MoreOf(u) /\ ReadableOf(u)
        /\ chunks' = [chunks EXCEPT ![NextOf(u)] = CipherOf(u)] /\ UNCHANGED <<manifest, stray>>
    BY <1>3 DEF Puts, HasDone
  <2>2. /\ CipherOf(u) = Listed(Ours, NextOf(u)) /\ CipherOf(u) # Absent /\ usedDeks # {}
    BY <2>1, OurChunkOfRun, GarbledAssumption
  <2>3. chunks \in [Indices -> Ciphertext \cup {Absent, Garbled}]
    BY DEF OneUploadInv, RunsTyped, BrokerInv, BrokerTypeOK
  <2> QED
    BY <1>1, <2>1, <2>2, <2>3 DEF OursComes
<1>4. CASE Publishes(u)
  <2>1. upRun[u].pc = "upload" /\ ~MoreOf(u) /\ manifest' = SignedOf(u)
          /\ UNCHANGED <<chunks, stray>>
    BY <1>4 DEF Publishes
  <2> QED
    BY <1>1, <2>1, OurManifestOfRun DEF OursComes
<1>5. CASE LeavesSent(u)
  <2>1. PICK r : Request(u, r) /\ stray' = stray \cup {r}
    BY <1>5 DEF LeavesSent
  <2>2. upRun[u].pc = "upload" /\ UNCHANGED <<chunks, manifest>>
    BY <1>5 DEF LeavesSent, store
  <2>3. \/ r.cmd = "PUT_CHUNK" /\ r.ct = Listed(Ours, r.index) /\ usedDeks # {}
        \/ r.cmd = "PUT_MANIFEST" /\ r.manifest = Ours /\ usedDeks # {}
             /\ Have(ChunkCount(Len(input)))
    BY <2>1, <2>2, OurChunkOfRun, OurManifestOfRun DEF Request
  <2> QED
    BY <1>1, <2>1, <2>2, <2>3 DEF OursComes
<1>6. CASE ListsStored(u) \/ Compares(u) \/ Leaves(u)
  BY <1>2, <1>6 DEF ListsStored, Compares, HasDone, Leaves, brokerVars, store
<1> QED
  BY <1>1, <1>3, <1>4, <1>5, <1>6 DEF UpActs

\* The first run makes the key, and every other one uses it.
LEMMA OurBeginning ==
  ASSUME SingleUpload, OneUploadInv, NEW u \in Uploaders, Begins(u)
  PROVE  /\ OneKey' /\ AllIsOurs' /\ DoneFirst' /\ RunIsOurs(u)'
         /\ input' = input /\ \A n : Have(n) => Have(n)'
         /\ \A v \in Uploaders \ {u} : Uploading(v) => UNCHANGED sidecar
<1>1. UNCHANGED <<input, chunks, manifest, stray>> /\ sidecar' # Absent
  BY DEF Begins, store
<1>2. /\ upRun'[u].pc = "list" /\ upRun'[u].hashed = <<>> /\ upRun'[u].dek = sidecar'.dek
      /\ upRun'[u].size = Len(input)
  BY BeginsTyped DEF OneUploadInv
<1>3. SubSeq(input, 1, 0) = <<>> /\ Len(<<>>) = 0
  BY FormatAssumption, SubSeqEmpty DEF OneUploadInv, RunsTyped
<1>4. RunIsOurs(u)'
  BY <1>1, <1>2, <1>3 DEF RunIsOurs
<1>5. /\ \A n : Have(n) => Have(n)'
      /\ \A v \in Uploaders \ {u} : Uploading(v) => UNCHANGED sidecar
  BY <1>1 DEF Have, Begins
<1>6. CASE UNCHANGED <<sidecar, usedDeks>>
  <2>1. OneKey' /\ AllIsOurs' /\ DoneFirst'
    BY <1>1, <1>6 DEF OneUploadInv, OneKey, AllIsOurs, DoneFirst, Have, Ours
  <2> QED
    BY <1>1, <1>4, <1>5, <2>1
<1>7. CASE /\ usedDeks = {}
           /\ \E dek \in Deks : usedDeks' = usedDeks \cup {dek}
                                 /\ sidecar' = [dek |-> dek, size |-> Len(input)]
  <2>1. sidecar = Absent /\ usedDeks' = {sidecar'.dek}
    BY <1>7 DEF OneUploadInv, OneKey
  <2>2. OneKey' /\ AllIsOurs' /\ DoneFirst'
    BY <1>1, <1>7, <2>1 DEF OneUploadInv, OneKey, AllIsOurs, DoneFirst
  <2> QED
    BY <1>1, <1>4, <1>5, <2>2
<1> QED
  BY <1>6, <1>7 DEF Begins, SingleUpload

\* The run that takes the step.
LEMMA OurRun ==
  ASSUME OneUploadInv, NEW u \in Uploaders, UpActs(u), ~Begins(u), \A n : Have(n) => Have(n)',
         UNCHANGED input, sidecar' = sidecar \/ ~Uploading(u)'
  PROVE  RunIsOurs(u)'
<1>1. RunsTyped /\ RunIsOurs(u)
  BY DEF OneUploadInv
<1>2. CASE ListsStored(u)
  <2>1. /\ upRun'[u].pc = "upload" /\ upRun[u].pc = "list" /\ upRun'[u].dek = upRun[u].dek
        /\ upRun'[u].size = upRun[u].size /\ upRun'[u].hashed = upRun[u].hashed
    BY <1>2, RunFields DEF ListsStored, Becomes
  <2>2. upRun[u].hashed = <<>> /\ Len(<<>>) = 0
    BY <1>1, <2>1 DEF RunsTyped, InOrder
  <2>3. NextOf(u)' = 0
    <3>1. Offset(0) = 0 /\ ChunkCount(Offset(0)) = 0
      BY ChunksBeforeOffset, FormatAssumption DEF Offset
    <3>2. Len(upRun'[u].hashed) = 0
      BY <2>1, <2>2
    <3> QED
      BY <3>1, <3>2 DEF NextOf
  <2>4. Have(0)'
    BY DEF Have, Indices
  <2> QED
    BY <1>1, <2>1, <2>3, <2>4 DEF RunIsOurs, Uploading, UpActive
<1>3. CASE Compares(u) \/ Puts(u)
  <2>1. HasDone(u) /\ chunks'[NextOf(u)] = CipherOf(u)
    <3>1. HasDone(u)
      BY <1>3 DEF Compares, Puts
    <3>2. NextOf(u) \in Indices /\ chunks \in [Indices -> Ciphertext \cup {Absent, Garbled}]
      BY <1>1, <3>1, NextOfRun DEF HasDone, RunsTyped, BrokerInv, BrokerTypeOK
    <3> QED
      BY <1>3, <3>1, <3>2 DEF Compares, Puts
  <2>2. /\ upRun[u].pc = "upload" /\ MoreOf(u) /\ ReadableOf(u)
    BY <2>1 DEF HasDone
  <2>3. /\ upRun'[u].hashed = SubSeq(input, 1, Len(upRun'[u].hashed))
        /\ upRun'[u].dek = upRun[u].dek /\ upRun'[u].size = upRun[u].size
        /\ NextOf(u)' = NextOf(u) + 1
    BY <1>1, <2>1, <2>2, HasDoneOrder, OurChunkOfRun
  <2>4. chunks'[NextOf(u)] # Absent /\ NextOf(u) \in Nat
    BY <1>1, <2>1, <2>2, OurChunkOfRun, NextOfRun, GarbledAssumption
  <2>5. Have(NextOf(u))'
    <3>1. \A n : Have(n) => \A i \in Indices : i < n => chunks'[i] # Absent
      BY DEF Have
    <3>2. Have(NextOf(u))
      BY <1>1, <2>2 DEF RunIsOurs
    <3>3. \A i \in Indices : i < NextOf(u) => chunks'[i] # Absent
      BY <3>1, <3>2
    <3>4. \A i \in Indices : i < NextOf(u) + 1 => chunks'[i] # Absent
      BY <2>4, <3>3 DEF Indices
    <3> QED
      BY <2>3, <3>4 DEF Have
  <2> QED
    BY <1>1, <2>2, <2>3, <2>5 DEF RunIsOurs, Uploading, UpActive
<1>4. CASE Publishes(u) \/ Leaves(u) \/ LeavesSent(u)
  <2>1. ~Uploading(u)' /\ upRun'[u].pc # "upload" /\ upRun'[u].hashed = <<>>
    BY <1>1, <1>4, EndsTyped DEF Publishes, Leaves, LeavesSent, Uploading, UpActive
  <2>2. SubSeq(input, 1, 0) = <<>> /\ Len(<<>>) = 0
    BY <1>1, FormatAssumption, SubSeqEmpty DEF RunsTyped
  <2> QED
    BY <2>1, <2>2 DEF RunIsOurs
<1> QED
  BY <1>2, <1>3, <1>4 DEF UpActs

\* OneUploadInv is inductive.
LEMMA OneUploadKeeps ==
  ASSUME SingleUpload, OneUploadInv, UploadsStep
  PROVE  OneUploadInv'
<1>1. RunsTyped /\ RunsTyped'
  BY UploadsTyped DEF OneUploadInv
<1>2. ~Edits
  BY <1>1 DEF SingleUpload, Edits, RunsTyped
<1>3. CASE OnBroker
  BY <1>1, <1>3, OurBroker, OursStays, OurBystander DEF OneUploadInv
<1>4. ASSUME NEW u \in Uploaders, UpActs(u) PROVE OneUploadInv'
  <2>1. \A v \in Uploaders \ {u} : upRun'[v] = upRun[v]
    BY <1>1, <1>4, UpActsTyped
  <2>2. CASE Begins(u)
    BY <1>1, <2>1, <2>2, OurBeginning, OurBystander DEF OneUploadInv
  <2>3. CASE ~Begins(u)
    <3>1. /\ OneKey' /\ AllIsOurs' /\ DoneFirst' /\ (\A n : Have(n) => Have(n)')
          /\ input' = input
      BY <1>4, <2>3, OurStep, OursStays
    <3>2. RunIsOurs(u)'
      <4>1. sidecar' = sidecar \/ ~Uploading(u)'
        BY <1>1, <1>4, <2>3, EndsTyped
        DEF UpActs, ListsStored, Compares, Puts, HasDone, Publishes, Leaves, LeavesSent, upShared
      <4> QED
        BY <1>4, <2>3, <3>1, <4>1, OurRun
    <3>3. \A v \in Uploaders \ {u} : RunIsOurs(v)'
      <4>1. \A v \in Uploaders \ {u} : Uploading(v) => UNCHANGED sidecar
        BY <1>4, <2>3
        DEF UpActs, ListsStored, Compares, Puts, HasDone, Publishes, Leaves, LeavesSent, Ends,
            upShared
      <4> QED
        BY <2>1, <3>1, <4>1, OurBystander
    <3> QED
      BY <1>1, <3>1, <3>2, <3>3 DEF OneUploadInv
  <2> QED
    BY <2>2, <2>3
<1> QED
  BY <1>2, <1>3, <1>4 DEF UploadsStep

(***************************************************************************)
(* Of one upload of an input nobody edits this also holds when requests of *)
(* runs that have gone arrive late (broker_client.py:25-33,                *)
(* broker_server.py:95-105).                                               *)
(***************************************************************************)
THEOREM OneUploadIsComplete ==
  ASSUME SingleUpload
  PROVE  UploadsSpec => []PublishedIsComplete
<1>1. UploadsInit => OneUploadInv
  <2> SUFFICES ASSUME UploadsInit PROVE OneUploadInv
    OBVIOUS
  <2>1. RunsTyped /\ \A u \in Uploaders : upRun[u].pc = "off" /\ upRun[u].hashed = <<>>
    BY UploadsInitTyped, TwoUploaders, RunFields DEF UploadsInit, UpInit, SecondUp!UpInit
  <2>2. SubSeq(input, 1, 0) = <<>> /\ Len(<<>>) = 0
    BY <2>1, FormatAssumption, SubSeqEmpty DEF RunsTyped
  <2>3. \A u \in Uploaders : RunIsOurs(u)
    BY <2>1, <2>2 DEF RunIsOurs, Uploading, UpActive
  <2>4. OneKey /\ AllIsOurs /\ DoneFirst
    BY DEF UploadsInit, BrokerInit, UpInit, OneKey, AllIsOurs, DoneFirst
  <2> QED
    BY <2>1, <2>3, <2>4 DEF OneUploadInv
<1>2. OneUploadInv /\ [UploadsNext]_uploadsVars => OneUploadInv'
  <2> SUFFICES ASSUME OneUploadInv, [UploadsNext]_uploadsVars PROVE OneUploadInv'
    OBVIOUS
  <2>1. CASE UploadsNext
    BY <2>1, UploadsSteps, OneUploadKeeps DEF OneUploadInv
  <2>2. CASE UNCHANGED uploadsVars
    <3>1. UNCHANGED <<upRun, upShared, brokerVars, overlapped>>
      BY <2>2, UploadsStutter
    <3> QED
      BY <3>1 DEF OneUploadInv, RunsTyped, TypedRun, InOrder, Uploading, NextOf, OneKey,
          AllIsOurs, DoneFirst, Have, Ours, RunIsOurs, upShared, brokerVars, store, BrokerInv,
          BrokerTypeOK
  <2> QED
    BY <2>1, <2>2
<1>3. ASSUME OneUploadInv, ManifestVerifies PROVE Complete
  <2>1. manifest \in Manifest /\ manifest # Absent /\ manifest # Garbled
    BY <1>3, GarbledAssumption DEF ManifestVerifies
  <2>2. usedDeks # {} /\ manifest = Ours /\ Have(ChunkCount(Len(input)))
    BY <1>3, <2>1 DEF OneUploadInv, OneKey, AllIsOurs, DoneFirst
  <2>3. Ours.plain = input /\ input \in Inputs /\ ChunkCount(Len(input)) \in Nat
    BY <1>3, FormatAssumption, ChunkCounted DEF Ours, OneUploadInv, RunsTyped
  <2>4. ASSUME NEW i \in 0..ChunkCount(Len(input)) - 1
        PROVE  chunks[i] \in {Listed(Ours, i), Garbled}
    <3>1. i \in Nat /\ i < ChunkCount(Len(input))
      BY <2>3
    <3>2. i \in Indices
      BY <2>3, <3>1, ChunkIndex
    <3> QED
      BY <1>3, <2>2, <3>1, <3>2 DEF Have, OneUploadInv, AllIsOurs
  <2> QED
    BY <2>2, <2>3, <2>4 DEF Complete
<1>4. OneUploadInv => PublishedIsComplete
  BY <1>3 DEF PublishedIsComplete
<1> QED
  BY <1>1, <1>2, <1>4, PTL DEF UploadsSpec
-----------------------------------------------------------------------------
(* Two downloads, again as steps of a run d, whichever of the two it is.   *)

\* The two runs, by the connections they have.
Downloaders == {Downloader, Downloader2}

\* What a run has in memory.
DnRun(pc, resume, m, index, hashed) ==
  [pc |-> pc, resume |-> resume, m |-> m, index |-> index, hashed |-> hashed]

\* What each run has in memory.
dnRun == [d \in Downloaders |->
  IF d = Downloader THEN DnRun(dnPc, dnResume, dnManifest, dnIndex, dnHashed)
                    ELSE DnRun(dnPc2, dnResume2, dnManifest2, dnIndex2, dnHashed2)]

\* A run that has ended, or never began.
Over == DnRun("off", FALSE, Absent, 0, <<>>)

\* One run becomes r, the other one stays what it is.
DnBecomes(d, r) ==
  dnRun'[d] = r /\ \A e \in Downloaders \ {d} : dnRun'[e] = dnRun[e]

\* One run goes on in another state, with the same locals.
Goes(d, pc) ==
  DnBecomes(d, DnRun(pc, dnRun[d].resume, dnRun[d].m, dnRun[d].index, dnRun[d].hashed))

\* A run opens the partial file, or closes what it has open.
OpenedBy(d) == [fd EXCEPT ![d] = "part"]
ClosedBy(d) == [fd EXCEPT ![d] = "none"]

\* The chunk a run is at.
MoreFor(d) == dnRun[d].index < ChunkCount(Len(dnRun[d].m.plain))
PlaceOf(d) == OffsetBefore(dnRun[d].m, dnRun[d].index)
PieceOf(d) == PlainChunk(dnRun[d].m.plain, dnRun[d].index, Len(dnRun[d].m.plain))

\* A run writes to the file it has open, whatever name that has by now.
DnWrites(d, data) ==
  /\ part' = IF fd[d] = "part" THEN WriteAt(part, PlaceOf(d), data) ELSE part
  /\ out'  = IF fd[d] = "out"  THEN WriteAt(out, PlaceOf(d), data)  ELSE out

\* The steps of a run, by what they do to it and to the files.
Starts(d) ==
  /\ dnRun[d].pc \in Idle
  /\ \E resume \in BOOLEAN :
       /\ \A e \in Downloaders \ {d} : MayStart(resume, dnRun[e].pc, dnRun[e].resume)
       /\ DnBecomes(d, DnRun("manifest", resume, Absent, 0, <<>>))
  /\ UNCHANGED <<part, nextIndex, out, fd>>

\* A run ends.
Quits(d) == DnBecomes(d, Over) /\ fd' = ClosedBy(d) /\ UNCHANGED <<part, nextIndex, out>>

\* An error is raised in it.
Raises(d) ==
  /\ dnRun[d].pc \notin Idle
  /\ Goes(d, "fail")
  /\ fd' = ClosedBy(d)
  /\ UNCHANGED <<part, nextIndex, out>>

\* It has verified the manifest.
GetsManifest(d) ==
  /\ dnRun[d].pc = "manifest"
  /\ DnBecomes(d, DnRun("begin", dnRun[d].resume, manifest, dnRun[d].index, dnRun[d].hashed))
  /\ UNCHANGED <<part, nextIndex, out, fd>>

\* It removes the partial file: to start afresh, or after a failure.
Drops(d) ==
  /\ \/ dnRun[d].pc = "begin" /\ ~dnRun[d].resume /\ Goes(d, "discardState")
     \/ dnRun[d].pc = "fail" /\ Goes(d, "failState")
  /\ \/ part' = Absent /\ fd' = FdsUnlinked
     \/ UNCHANGED <<part, fd>>
  /\ UNCHANGED <<nextIndex, out>>

\* And the state file.
DropsState(d) ==
  /\ \/ dnRun[d].pc = "discardState" /\ Goes(d, "mode")
     \/ dnRun[d].pc = "failState" /\ DnBecomes(d, Over)
  /\ nextIndex' \in {Absent, nextIndex}
  /\ UNCHANGED <<part, out, fd>>

\* The partial file has all that comes before chunk i.
Enough(d, i) == Exists(part) /\ Len(part.data) >= OffsetBefore(dnRun[d].m, i)

\* It goes on where the state file says.
Resumes(d) ==
  /\ dnRun[d].pc = "begin" /\ dnRun[d].resume
  /\ nextIndex \in Nat /\ Enough(d, nextIndex)
  /\ DnBecomes(d, DnRun("mode", dnRun[d].resume, dnRun[d].m, nextIndex, dnRun[d].hashed))
  /\ UNCHANGED <<part, nextIndex, out, fd>>

\* It looks for a partial file that is not empty.
Looks(d) ==
  /\ dnRun[d].pc = "mode"
  /\ Goes(d, IF Exists(part) /\ part.data # <<>> THEN "openOld" ELSE "openNew")
  /\ UNCHANGED <<part, nextIndex, out, fd>>

\* It creates the partial file, or empties the one that is there.
OpensNew(d) ==
  /\ dnRun[d].pc = "openNew"
  /\ Goes(d, "chunk")
  /\ part' = EmptyFile
  /\ fd' = OpenedBy(d)
  /\ UNCHANGED <<nextIndex, out>>

\* Where a run goes on that has hashed n bytes of the prefix.
AfterHashingOf(d, n) == IF n < PlaceOf(d) THEN "hash" ELSE "chunk"

\* It opens the one that is there.
OpensOld(d) ==
  /\ dnRun[d].pc = "openOld" /\ Exists(part)
  /\ Goes(d, AfterHashingOf(d, 0))
  /\ fd' = OpenedBy(d)
  /\ UNCHANGED <<part, nextIndex, out>>

\* It hashes b, the next byte of the prefix.
HashesByte(d, b) ==
  /\ dnRun[d].pc = "hash"
  /\ fd[d] = "part" =>
       Len(dnRun[d].hashed) + 1 <= Len(part.data) /\ b = part.data[Len(dnRun[d].hashed) + 1]
  /\ DnBecomes(d, DnRun(AfterHashingOf(d, Len(dnRun[d].hashed) + 1), dnRun[d].resume,
                        dnRun[d].m, dnRun[d].index, Append(dnRun[d].hashed, b)))
  /\ UNCHANGED <<part, nextIndex, out, fd>>

\* It hashes what the open file begins with, byte by byte.
Hashes(d) == \E b \in Byte : HashesByte(d, b)

\* It writes the next chunk.
Fetches(d) ==
  /\ dnRun[d].pc = "chunk" /\ MoreFor(d)
  /\ DnWrites(d, PieceOf(d))
  /\ DnBecomes(d, DnRun("save", dnRun[d].resume, dnRun[d].m, dnRun[d].index,
                        dnRun[d].hashed \o PieceOf(d)))
  /\ UNCHANGED <<nextIndex, fd>>

\* It fails or is killed while it writes.
BreaksOff(d) ==
  /\ dnRun[d].pc = "chunk" /\ MoreFor(d)
  /\ \E n \in 1..Len(PieceOf(d)) : DnWrites(d, SubSeq(PieceOf(d), 1, n))
  /\ DnBecomes(d, Over) \/ Goes(d, "fail")
  /\ fd' = ClosedBy(d)
  /\ UNCHANGED nextIndex

\* It saves the next index, and goes on with the next chunk.
Counted(d) ==
  DnRun("chunk", dnRun[d].resume, dnRun[d].m, dnRun[d].index + 1, dnRun[d].hashed)

Saves(d) ==
  /\ dnRun[d].pc = "save"
  /\ nextIndex' = dnRun[d].index + 1
  /\ DnBecomes(d, Counted(d))
  /\ UNCHANGED <<part, out, fd>>

\* This run renames the temporary file, the other one finds none.
Collides(d) ==
  /\ \A e \in Downloaders : dnRun[e].pc = "save"
  /\ nextIndex' = Garbled \/ \E e \in Downloaders : nextIndex' = dnRun[e].index + 1
  /\ dnRun'[d] = Counted(d)
  /\ \A e \in Downloaders \ {d} :
       /\ dnRun'[e] = DnRun("fail", dnRun[e].resume, dnRun[e].m, dnRun[e].index, dnRun[e].hashed)
       /\ fd' = ClosedBy(e)
  /\ UNCHANGED <<part, out>>

\* It syncs and closes what it has open.
Syncs(d) ==
  /\ dnRun[d].pc = "chunk" /\ ~MoreFor(d)
  /\ \/ /\ part' = IF fd[d] = "part" THEN Synced(part) ELSE part
        /\ out'  = IF fd[d] = "out"  THEN Synced(out)  ELSE out
     \/ FsyncMayFail /\ UNCHANGED <<part, out>>
  /\ Goes(d, "verify")
  /\ fd' = ClosedBy(d)
  /\ UNCHANGED nextIndex

\* The hash is that of the manifest.
Verifies(d) ==
  /\ dnRun[d].pc = "verify"
  /\ dnRun[d].hashed = dnRun[d].m.plain
  /\ Goes(d, "promote")
  /\ UNCHANGED <<part, nextIndex, out, fd>>

\* It renames the partial file, which may be another one by now.
Promotes(d) ==
  /\ dnRun[d].pc = "promote" /\ Exists(part)
  /\ Goes(d, "promoted")
  /\ out' = part /\ part' = Absent /\ fd' = FdsRenamed
  /\ UNCHANGED nextIndex

\* It removes the state file.
Finishes(d) ==
  /\ dnRun[d].pc = "promoted"
  /\ Goes(d, "ok")
  /\ nextIndex' = Absent
  /\ UNCHANGED <<part, out, fd>>

\* The steps of a run.
DnActs(d) ==
  \/ Starts(d) \/ Quits(d) \/ Raises(d) \/ GetsManifest(d) \/ Drops(d) \/ DropsState(d)
  \/ Resumes(d) \/ Looks(d) \/ OpensNew(d) \/ OpensOld(d) \/ Hashes(d) \/ Fetches(d)
  \/ BreaksOff(d) \/ Saves(d) \/ Collides(d) \/ Syncs(d) \/ Verifies(d) \/ Promotes(d)
  \/ Finishes(d)

\* The host of the output loses power.
LosesPower ==
  /\ DnDiskLosesPower
  /\ \A d \in Downloaders : dnRun'[d] = Over

\* The user takes the output away.
TakesOutput ==
  /\ out' = Absent
  /\ fd' = [c \in Clients |-> IF fd[c] = "out" THEN "gone" ELSE fd[c]]
  /\ UNCHANGED <<part, nextIndex, dnRun>>

\* Nothing happens to the files and in the runs.
NothingDone == UNCHANGED <<part, nextIndex, out, fd, dnRun>>

\* A rename is of what has the name.
DeliveredFollows ==
  delivered' = delivered \/ (Exists(part) /\ delivered' = delivered \cup {part.data})

\* What the runs do to the broker.
BrokerGoesOn ==
  \/ UNCHANGED <<store, stray>> /\ connected' \subseteq connected \cup Downloaders
  \/ ServeStray

\* The steps of the two downloads.
DownloadsStep ==
  /\ (\E d \in Downloaders : DnActs(d)) \/ LosesPower \/ TakesOutput \/ NothingDone
  /\ DeliveredFollows
  /\ BrokerGoesOn
-----------------------------------------------------------------------------
(* Two downloads: types, and the invariant.                                *)

\* Where a run has verified the manifest, and not yet failed.
Informed == {"begin", "discardState", "mode", "openOld", "openNew", "promoted"} \cup Receiving

\* Where it has not opened the partial file yet.
NotOpened == {"manifest", "begin", "discardState", "mode", "openOld", "openNew"}

\* The types of what a run has in memory, by where it is.
TypedDn(d) ==
  /\ dnRun[d].pc \in Idle \cup DnActive
  /\ dnRun[d].resume \in BOOLEAN
  /\ dnRun[d].m \in {Absent, manifest}
  /\ dnRun[d].pc \in Informed => dnRun[d].m = manifest
  /\ dnRun[d].index \in Nat
  /\ dnRun[d].hashed \in Seq(Byte)
  /\ dnRun[d].pc \in NotOpened => dnRun[d].hashed = <<>>
  /\ dnRun[d].pc = "discardState" => ~dnRun[d].resume
  /\ (fd[d] = "none") = (dnRun[d].pc \notin Writing)

\* The types of the files.
TypedFiles ==
  /\ part \in File \cup {Absent}
  /\ nextIndex \in (Nat \ {0}) \cup {Absent, Garbled}
  /\ out \in File \cup {Absent}
  /\ fd \in [Clients -> {"part", "out", "gone", "none"}]
  /\ \A d \in Downloaders : (fd[d] = "part" => Exists(part)) /\ (fd[d] = "out" => Exists(out))
  /\ delivered \subseteq Seq(Byte)

\* The manifest stays: no request that is on its way carries another one.
OneManifest ==
  /\ BrokerInv
  /\ manifest \in Manifest /\ manifest.plain \in Inputs
  /\ \A r \in stray : r.cmd = "PUT_CHUNK"

\* Types, and one manifest.
DownloadsTyped == OneManifest /\ TypedFiles /\ \A d \in Downloaders : TypedDn(d)

\* Where a run is in the file.
PosOf(d) ==
  IF dnRun[d].pc = "hash" THEN Len(dnRun[d].hashed)
  ELSE OffsetBefore(manifest,
                    IF dnRun[d].pc = "save" THEN dnRun[d].index + 1 ELSE dnRun[d].index)

\* The partial file begins with the first n units of the published content.
Alike(n) ==
  n <= Len(part.data) /\ \A i \in 1..n : part.data[i] = manifest.plain[i]

\* All of it, and on the disk if that can matter.
Whole(f) == f.data = manifest.plain /\ (PowerMayFail => f.synced = Len(f.data))

\* A run that writes writes to the partial file, or there is none.
WritesPart(d) ==
  dnRun[d].pc \in Writing /\ fd[d] # "part" => ~Exists(part)

\* What a run has hashed, if it is the published content so far and nothing is
\* missing before it, is what the partial file begins with.
HashedIsThere(d) ==
  dnRun[d].pc \in Writing =>
    /\ dnRun[d].pc = "hash" => Len(dnRun[d].hashed) < OffsetBefore(manifest, dnRun[d].index)
    /\ Len(dnRun[d].hashed) <= PosOf(d)
    /\ dnRun[d].hashed = SubSeq(manifest.plain, 1, PosOf(d)) /\ Exists(part)
         => Alike(PosOf(d))

\* What a run is about to rename is all of it, or is gone.
CheckedIsWhole(d) ==
  (dnRun[d].pc = "promote"
     \/ (dnRun[d].pc = "verify" /\ dnRun[d].hashed = manifest.plain)) /\ Exists(part)
  => Whole(part)

\* A resumed run does not find the partial file empty, and creates one only if
\* there is none.
NeverEmpties(d) ==
  dnRun[d].resume =>
    /\ dnRun[d].pc = "mode" /\ Exists(part) => part.data # <<>>
    /\ dnRun[d].pc = "openNew" => ~Exists(part)

\* The partial file is not longer than the published content.
PartFits == Exists(part) => Len(part.data) <= Len(manifest.plain)

\* The output is all of it.
OutputWhole == Exists(out) => Whole(out)

\* Where a run looks for the partial file or opens it.
Opening == {"mode", "openOld", "openNew"}

\* The two runs do not open new partial files under each other's feet.
Apart(d, e) ==
  /\ Discarding(dnRun[d].pc, dnRun[d].resume) => dnRun[e].pc \in Idle
  /\ dnRun[d].pc \in Receiving /\ ~Exists(part) => dnRun[e].pc \notin {"mode", "openNew"}
  /\ dnRun[d].pc \in Opening /\ dnRun[e].pc \in Opening => Exists(part) /\ part.data # <<>>

\* What holds for a run.
DnSound(d) == WritesPart(d) /\ HashedIsThere(d) /\ CheckedIsWhole(d) /\ NeverEmpties(d)

\* The invariant of the two downloads.
DownloadsInv ==
  /\ DownloadsTyped
  /\ PartFits /\ OutputWhole
  /\ \A d \in Downloaders :
       DnSound(d) /\ \A e \in Downloaders \ {d} : Apart(d, e)
-----------------------------------------------------------------------------
(* Two downloads: both instances of the program take these steps.          *)

\* The two runs.
LEMMA TwoDownloaders ==
  /\ Downloaders = {Downloader, Downloader2} /\ Downloader # Downloader2
  /\ Downloaders \subseteq Clients
  /\ dnRun[Downloader] = DnRun(dnPc, dnResume, dnManifest, dnIndex, dnHashed)
  /\ dnRun[Downloader2] = DnRun(dnPc2, dnResume2, dnManifest2, dnIndex2, dnHashed2)
  /\ dnRun'[Downloader] = DnRun(dnPc', dnResume', dnManifest', dnIndex', dnHashed')
  /\ dnRun'[Downloader2] = DnRun(dnPc2', dnResume2', dnManifest2', dnIndex2', dnHashed2')
BY DownloadersAssumption, ReceiverAssumption DEF Downloaders, dnRun, DnRun

\* The fields of a run.
LEMMA DnRunFields ==
  ASSUME NEW pc, NEW resume, NEW m, NEW index, NEW hashed
  PROVE  LET r == DnRun(pc, resume, m, index, hashed)
         IN  r.pc = pc /\ r.resume = resume /\ r.m = m /\ r.index = index /\ r.hashed = hashed
BY DEF DnRun

\* A step of one run leaves the other alone.
LEMMA OneDownloads ==
  /\ UNCHANGED secondDn =>
       DnBecomes(Downloader, DnRun(dnPc', dnResume', dnManifest', dnIndex', dnHashed'))
  /\ UNCHANGED firstDn =>
       DnBecomes(Downloader2, DnRun(dnPc2', dnResume2', dnManifest2', dnIndex2', dnHashed2'))
  /\ UNCHANGED <<firstDn, secondDn>> => UNCHANGED dnRun
<1>1. UNCHANGED <<firstDn, secondDn>> => UNCHANGED dnRun
  BY DEF dnRun, firstDn, secondDn, dnLocal, dnLocal2
<1>2. UNCHANGED secondDn => dnRun'[Downloader2] = dnRun[Downloader2]
  BY TwoDownloaders DEF secondDn, dnLocal2
<1>3. UNCHANGED firstDn => dnRun'[Downloader] = dnRun[Downloader]
  BY TwoDownloaders DEF firstDn, dnLocal
<1> QED
  BY <1>1, <1>2, <1>3, TwoDownloaders DEF DnBecomes

\* What the first run has in memory.
LEMMA FirstLocals ==
  /\ dnRun[Downloader].pc = dnPc /\ dnRun[Downloader].resume = dnResume
  /\ dnRun[Downloader].m = dnManifest /\ dnRun[Downloader].index = dnIndex
  /\ dnRun[Downloader].hashed = dnHashed
  /\ dnRun[Downloader2].pc = dnPc2 /\ dnRun[Downloader2].resume = dnResume2
  /\ dnRun[Downloader2].m = dnManifest2 /\ dnRun[Downloader2].index = dnIndex2
  /\ dnRun[Downloader2].hashed = dnHashed2
BY TwoDownloaders, DnRunFields

\* The first run goes on, or ends.
LEMMA FirstGoes ==
  ASSUME UNCHANGED secondDn
  PROVE  /\ UNCHANGED dnLocal => Goes(Downloader, dnPc')
         /\ DnForget => DnBecomes(Downloader, Over)
<1>1. DnBecomes(Downloader, DnRun(dnPc', dnResume', dnManifest', dnIndex', dnHashed'))
  BY OneDownloads
<1>2. UNCHANGED dnLocal => Goes(Downloader, dnPc')
  BY <1>1, FirstLocals DEF Goes, dnLocal
<1>3. DnForget => DnRun(dnPc', dnResume', dnManifest', dnIndex', dnHashed') = Over
  BY Zenon DEF DnForget, Over
<1> QED
  BY <1>1, <1>2, <1>3

\* What it leaves behind: the steps that several operations share.
LEMMA FirstLeaves ==
  ASSUME UNCHANGED secondDn
  PROVE  /\ DnStop => Quits(Downloader)
         /\ DnRaise /\ dnPc \notin Idle => Raises(Downloader)
         /\ DnStop \/ DnRaise => DeliveredFollows /\ BrokerGoesOn
<1>1. DnStop => Quits(Downloader)
  BY FirstGoes DEF DnStop, DnExit, Quits, Closed, ClosedBy
<1>2. DnRaise /\ dnPc \notin Idle => Raises(Downloader)
  BY FirstGoes, FirstLocals DEF DnRaise, Raises, Closed, ClosedBy
<1>3. DnStop => DeliveredFollows /\ BrokerGoesOn
  BY DEF DnStop, DnExit, DeliveredFollows, BrokerGoesOn
<1>4. DnRaise => DeliveredFollows /\ BrokerGoesOn
  BY DEF DnRaise, DeliveredFollows, BrokerGoesOn, brokerVars
<1> QED
  BY <1>1, <1>2, <1>3, <1>4

\* What the first run makes of the next chunk.
LEMMA FirstPieceOf ==
  /\ MoreFor(Downloader) = DnMoreChunks
  /\ PieceOf(Downloader) = DnPlain
  /\ Genuine => chunks[dnIndex].data = PieceOf(Downloader)
  /\ \A data : Write(data) => DnWrites(Downloader, data)
  /\ PlaceOf(Downloader) = Prefix(dnIndex)
  /\ \A i : Covers(i) = Enough(Downloader, i)
<1>1. Genuine => chunks[dnIndex].data = DnPlain
  BY DEF Genuine, Listed, Encrypt, DnPlain
<1>2. /\ MoreFor(Downloader) = DnMoreChunks
      /\ PieceOf(Downloader) = DnPlain
      /\ PlaceOf(Downloader) = Prefix(dnIndex)
      /\ \A i : Covers(i) = Enough(Downloader, i)
  BY FirstLocals DEF MoreFor, DnMoreChunks, PieceOf, DnPlain, PlaceOf, Prefix, Covers, Enough
<1>3. \A data : Write(data) => DnWrites(Downloader, data)
  BY <1>2 DEF Write, DnWrites, Prefix
<1> QED
  BY <1>1, <1>2, <1>3

\* A step of the first run.
LEMMA FirstDownloads ==
  ASSUME UNCHANGED secondDn,
         \/ DnStep \/ FirstFault
         \/ \E resume \in BOOLEAN : MayStart(resume, dnPc2, dnResume2) /\ DnStart(resume)
  PROVE  DnActs(Downloader) /\ DeliveredFollows /\ BrokerGoesOn
<1> DEFINE d == Downloader
           Acts == DnActs(Downloader) /\ DeliveredFollows /\ BrokerGoesOn
<1>1. UNCHANGED delivered => DeliveredFollows
  BY DEF DeliveredFollows
<1>2. UNCHANGED brokerVars => BrokerGoesOn
  BY DEF BrokerGoesOn, brokerVars
<1>3. ASSUME DnStop \/ (DnRaise /\ dnPc \notin Idle) PROVE Acts
  BY <1>3, FirstLeaves DEF DnActs
<1>4. ASSUME NEW resume \in BOOLEAN, MayStart(resume, dnPc2, dnResume2), DnStart(resume)
      PROVE  Acts
  <2>1. dnPc \in Idle /\ UNCHANGED <<part, nextIndex, out, fd, delivered, store, stray>>
          /\ connected' = connected \cup {Downloader}
    BY <1>4 DEF DnStart, dnDisk
  <2>2. DnBecomes(d, DnRun("manifest", resume, Absent, 0, <<>>))
    <3>1. dnPc' = "manifest" /\ dnResume' = resume /\ dnManifest' = Absent /\ dnIndex' = 0
            /\ dnHashed' = <<>>
      BY <1>4, Zenon DEF DnStart
    <3> QED
      BY <3>1, OneDownloads
  <2>3. \A e \in Downloaders \ {d} : MayStart(resume, dnRun[e].pc, dnRun[e].resume)
    BY <1>4, TwoDownloaders, FirstLocals
  <2>4. Starts(d)
    BY <2>1, <2>2, <2>3, FirstLocals DEF Starts
  <2>5. BrokerGoesOn
    BY <2>1, TwoDownloaders DEF BrokerGoesOn
  <2> QED
    BY <1>1, <2>1, <2>4, <2>5 DEF DnActs
<1>5. CASE DnGetManifest
  <2>1. /\ dnPc = "manifest" /\ dnPc' = "begin" /\ dnManifest' = manifest
        /\ UNCHANGED <<part, nextIndex, out, fd, delivered, dnResume, dnIndex,
                      dnHashed, brokerVars>>
    BY <1>5 DEF DnGetManifest, dnDisk
  <2>2. GetsManifest(d)
    BY <2>1, OneDownloads, FirstLocals DEF GetsManifest
  <2> QED
    BY <1>1, <1>2, <2>1, <2>2 DEF DnActs
<1>6. ASSUME UnlinkPart, UNCHANGED <<nextIndex, out, delivered, dnLocal, brokerVars>>,
             \/ dnPc = "begin" /\ ~dnResume /\ dnPc' = "discardState"
             \/ dnPc = "fail" /\ dnPc' = "failState"
      PROVE  Acts
  <2>1. \/ part' = Absent /\ fd' = FdsUnlinked
        \/ UNCHANGED <<part, fd>>
    BY <1>6 DEF UnlinkPart, Unlinked
  <2>2. Goes(d, dnPc')
    BY <1>6, FirstGoes
  <2>3. Drops(d)
    BY <1>6, <2>1, <2>2, FirstLocals DEF Drops
  <2> QED
    BY <1>1, <1>2, <1>6, <2>3 DEF DnActs
<1>7. CASE DnDiscardOld \/ DnFailClosed
  BY <1>6, <1>7 DEF DnDiscardOld, DnFailClosed
<1>8. CASE DnDiscardState
  <2>1. /\ dnPc = "discardState" /\ dnPc' = "mode" /\ nextIndex' \in {Absent, nextIndex}
        /\ UNCHANGED <<part, out, fd, delivered, dnLocal, brokerVars>>
    BY <1>8 DEF DnDiscardState, Unlinked
  <2>2. DropsState(d)
    BY <2>1, FirstGoes, FirstLocals DEF DropsState
  <2> QED
    BY <1>1, <1>2, <2>1, <2>2 DEF DnActs
<1>9. CASE DnFailState
  <2>1. /\ dnPc = "failState" /\ DnForget /\ nextIndex' \in {Absent, nextIndex}
        /\ connected' = connected \ {Downloader}
        /\ UNCHANGED <<part, out, fd, delivered, store, stray>>
    BY <1>9 DEF DnFailState, Unlinked, DnExit
  <2>2. DropsState(d)
    BY <2>1, FirstGoes, FirstLocals DEF DropsState
  <2>3. BrokerGoesOn
    BY <2>1 DEF BrokerGoesOn
  <2> QED
    BY <1>1, <2>1, <2>2, <2>3 DEF DnActs
<1>10. CASE DnResumable
  <2>1. /\ dnPc = "begin" /\ dnResume /\ dnPc' = "mode" /\ nextIndex \in Nat
        /\ Covers(nextIndex) /\ dnIndex' = nextIndex
        /\ UNCHANGED <<part, nextIndex, out, fd, delivered, dnResume, dnManifest, dnHashed,
                       brokerVars>>
    BY <1>10 DEF DnResumable, dnDisk
  <2>2. Resumes(d)
    BY <2>1, OneDownloads, FirstLocals, FirstPieceOf DEF Resumes
  <2> QED
    BY <1>1, <1>2, <2>1, <2>2 DEF DnActs
<1>11. CASE DnMode
  <2>1. /\ dnPc = "mode"
        /\ dnPc' = IF Exists(part) /\ part.data # <<>> THEN "openOld" ELSE "openNew"
        /\ UNCHANGED <<part, nextIndex, out, fd, delivered, dnLocal, brokerVars>>
    BY <1>11 DEF DnMode, dnDisk
  <2>2. Looks(d)
    BY <2>1, FirstGoes, FirstLocals DEF Looks
  <2> QED
    BY <1>1, <1>2, <2>1, <2>2 DEF DnActs
<1>12. CASE DnOpenNew
  <2>1. /\ dnPc = "openNew" /\ dnPc' = "chunk" /\ part' = EmptyFile
        /\ fd' = OpenedBy(d)
        /\ UNCHANGED <<nextIndex, out, delivered, dnLocal, brokerVars>>
    BY <1>12 DEF DnOpenNew, Opened, OpenedBy
  <2>2. OpensNew(d)
    BY <2>1, FirstGoes, FirstLocals DEF OpensNew
  <2> QED
    BY <1>1, <1>2, <2>1, <2>2 DEF DnActs
<1>13. CASE DnOpenOld
  <2>1. /\ dnPc = "openOld" /\ Exists(part) /\ dnPc' = AfterHashing(0)
        /\ fd' = OpenedBy(d)
        /\ UNCHANGED <<part, nextIndex, out, delivered, dnLocal, brokerVars>>
    BY <1>13 DEF DnOpenOld, Opened, OpenedBy
  <2>2. AfterHashing(0) = AfterHashingOf(d, 0)
    BY FirstPieceOf DEF AfterHashing, AfterHashingOf
  <2>3. OpensOld(d)
    BY <2>1, <2>2, FirstGoes, FirstLocals DEF OpensOld
  <2> QED
    BY <1>1, <1>2, <2>1, <2>3 DEF DnActs
<1>22. CASE DnHash
  <2> DEFINE n == Len(dnHashed) + 1
  <2>1. /\ dnPc = "hash" /\ dnPc' = AfterHashing(n)
        /\ UNCHANGED <<part, nextIndex, out, fd, delivered, dnResume, dnManifest,
                       dnIndex, brokerVars>>
    BY <1>22 DEF DnHash, dnDisk
  <2>2. PICK b \in Byte : Reads(n, b) /\ dnHashed' = Append(dnHashed, b)
    BY <1>22 DEF DnHash
  <2>3. fd[d] = "part" => n <= Len(part.data) /\ b = part.data[n]
    BY <2>2 DEF Reads
  <2>4. AfterHashing(n) = AfterHashingOf(d, n)
    BY FirstPieceOf DEF AfterHashing, AfterHashingOf
  <2>5. HashesByte(d, b)
    BY <2>1, <2>2, <2>3, <2>4, OneDownloads, FirstLocals DEF HashesByte
  <2>6. Hashes(d)
    BY <2>5 DEF Hashes
  <2> QED
    BY <1>1, <1>2, <2>1, <2>6 DEF DnActs
<1>14. CASE DnChunk
  <2>1. /\ dnPc = "chunk" /\ DnMoreChunks /\ Genuine /\ Write(chunks[dnIndex].data)
        /\ dnHashed' = dnHashed \o chunks[dnIndex].data /\ dnPc' = "save"
        /\ UNCHANGED <<nextIndex, fd, delivered, dnResume, dnManifest, dnIndex, brokerVars>>
    BY <1>14 DEF DnChunk
  <2>2. DnWrites(d, PieceOf(d)) /\ MoreFor(d)
    BY <2>1, FirstPieceOf
  <2>3. Fetches(d)
    BY <2>1, <2>2, OneDownloads, FirstLocals, FirstPieceOf DEF Fetches
  <2> QED
    BY <1>1, <1>2, <2>1, <2>3 DEF DnActs
<1>15. CASE DnPartWrite
  <2>1. /\ dnPc = "chunk" /\ DnMoreChunks /\ Genuine
        /\ \E n \in 1..Len(chunks[dnIndex].data) : Write(SubSeq(chunks[dnIndex].data, 1, n))
        /\ fd' = ClosedBy(d) /\ UNCHANGED <<nextIndex, delivered>>
        /\ DnExit \/ (dnPc' = "fail" /\ UNCHANGED <<dnLocal, brokerVars>>)
    BY <1>15 DEF DnPartWrite, Closed, ClosedBy
  <2>2. (DnBecomes(d, Over) \/ Goes(d, "fail")) /\ BrokerGoesOn
    BY <1>2, <2>1, FirstGoes DEF DnExit, BrokerGoesOn
  <2>3. BreaksOff(d)
    BY <2>1, <2>2, FirstLocals, FirstPieceOf DEF BreaksOff
  <2> QED
    BY <1>1, <2>1, <2>2, <2>3 DEF DnActs
<1>16. CASE DnSave
  <2>1. /\ dnPc = "save" /\ dnPc' = "chunk" /\ nextIndex' = dnIndex + 1 /\ dnIndex' = dnIndex + 1
        /\ UNCHANGED <<part, out, fd, delivered, dnResume, dnManifest, dnHashed, brokerVars>>
    BY <1>16 DEF DnSave, SavedIndex
  <2>2. Saves(d)
    BY <2>1, OneDownloads, FirstLocals DEF Saves, Counted
  <2> QED
    BY <1>1, <1>2, <2>1, <2>2 DEF DnActs
<1>17. CASE DnSync
  <2>1. /\ dnPc = "chunk" /\ ~DnMoreChunks /\ dnPc' = "verify" /\ fd' = ClosedBy(d)
        /\ \/ /\ part' = IF fd[d] = "part" THEN Synced(part) ELSE part
              /\ out'  = IF fd[d] = "out"  THEN Synced(out)  ELSE out
           \/ FsyncMayFail /\ UNCHANGED <<part, out>>
        /\ UNCHANGED <<nextIndex, delivered, dnLocal, brokerVars>>
    BY <1>17 DEF DnSync, Closed, ClosedBy
  <2>2. Syncs(d)
    BY <2>1, FirstGoes, FirstLocals, FirstPieceOf DEF Syncs
  <2> QED
    BY <1>1, <1>2, <2>1, <2>2 DEF DnActs
<1>18. CASE DnVerifyOk
  <2>1. /\ dnPc = "verify" /\ dnPc' = "promote" /\ dnHashed = dnManifest.plain
        /\ UNCHANGED <<part, nextIndex, out, fd, delivered, dnLocal, brokerVars>>
    BY <1>18 DEF DnVerifyOk, DnVerified, dnDisk
  <2>2. Verifies(d)
    BY <2>1, FirstGoes, FirstLocals DEF Verifies
  <2> QED
    BY <1>1, <1>2, <2>1, <2>2 DEF DnActs
<1>19. CASE DnPromote
  <2>1. /\ dnPc = "promote" /\ dnPc' = "promoted" /\ Exists(part) /\ out' = part
        /\ part' = Absent /\ fd' = FdsRenamed /\ delivered' = delivered \cup {part.data}
        /\ UNCHANGED <<nextIndex, dnLocal, brokerVars>>
    BY <1>19 DEF DnPromote
  <2>2. Promotes(d)
    BY <2>1, FirstGoes, FirstLocals DEF Promotes
  <2> QED
    BY <1>2, <2>1, <2>2 DEF DnActs, DeliveredFollows
<1>20. CASE DnFinish
  <2>1. /\ dnPc = "promoted" /\ dnPc' = "ok" /\ nextIndex' = Absent
        /\ connected' = connected \ {Downloader}
        /\ UNCHANGED <<part, out, fd, delivered, dnLocal, store, stray>>
    BY <1>20 DEF DnFinish
  <2>2. Finishes(d)
    BY <2>1, FirstGoes, FirstLocals DEF Finishes
  <2>3. BrokerGoesOn
    BY <2>1 DEF BrokerGoesOn
  <2> QED
    BY <1>1, <2>1, <2>2, <2>3 DEF DnActs
<1>21. CASE \/ DnNoManifest \/ DnBadManifest \/ DnCannotResume \/ DnUnreadableState
            \/ DnOpenFails \/ DnShortPrefix
            \/ DnNoChunk \/ DnBadChunk \/ DnVerifyMismatch \/ DnVerifyBlocked
            \/ DnNothingToPromote \/ DnDisconnected \/ DnError \/ DnStopped \/ DnKill
  <2>1. DnStop \/ (DnRaise /\ dnPc \notin Idle)
    BY <1>21 DEF Idle, DnNoManifest, DnBadManifest, DnCannotResume, DnUnreadableState,
         DnOpenFails, DnShortPrefix, DnNoChunk, DnBadChunk, DnVerifyMismatch, DnVerifyBlocked,
         DnNothingToPromote, DnDisconnected, DnError, DnStopped, DnKill
  <2> QED
    BY <1>3, <2>1
<1> QED
  BY <1>4, <1>5, <1>7, <1>8, <1>9, <1>10, <1>11, <1>12, <1>13, <1>14, <1>15, <1>16, <1>17,
     <1>18, <1>19, <1>20, <1>21, <1>22 DEF DnStep, FirstFault

\* The second instance has the same operators and constants.
LEMMA SecondSame ==
  /\ \A f : SecondDn!Exists(f) = Exists(f)
  /\ SecondDn!EmptyFile = EmptyFile
  /\ \A f, off, data : SecondDn!WriteAt(f, off, data) = WriteAt(f, off, data)
  /\ \A f : SecondDn!Synced(f) = Synced(f)
  /\ \A s : SecondDn!ChunkCount(s) = ChunkCount(s)
  /\ \A m, i : SecondDn!OffsetBefore(m, i) = OffsetBefore(m, i)
  /\ \A f, i, s : SecondDn!PlainChunk(f, i, s) = PlainChunk(f, i, s)
  /\ SecondDn!Idle = Idle
  /\ SecondDn!FdsUnlinked = FdsUnlinked /\ SecondDn!FdsRenamed = FdsRenamed
  /\ UNCHANGED SecondDn!brokerVars <=> UNCHANGED brokerVars
  /\ UNCHANGED SecondDn!store <=> UNCHANGED store
  /\ UNCHANGED SecondDn!dnDisk <=> UNCHANGED dnDisk
  /\ UNCHANGED SecondDn!dnLocal <=> UNCHANGED dnLocal2
BY DEF SecondDn!Exists, Exists, SecondDn!EmptyFile, EmptyFile, SecondDn!WriteAt, WriteAt,
       SecondDn!Synced, Synced, SecondDn!ChunkCount, ChunkCount, SecondDn!OffsetBefore,
       OffsetBefore, SecondDn!Offset, Offset, SecondDn!PlainChunk, PlainChunk,
       SecondDn!ChunkLength, ChunkLength, SecondDn!Idle, Idle, SecondDn!FdsUnlinked,
       FdsUnlinked, SecondDn!FdsRenamed, FdsRenamed, SecondDn!brokerVars, brokerVars,
       SecondDn!store, store, SecondDn!dnDisk, dnDisk, SecondDn!dnLocal, dnLocal2

\* The second run goes on, or ends.
LEMMA SecondGoes ==
  ASSUME UNCHANGED firstDn
  PROVE  /\ UNCHANGED dnLocal2 => Goes(Downloader2, dnPc2')
         /\ SecondDn!DnForget => DnBecomes(Downloader2, Over)
<1>1. DnBecomes(Downloader2, DnRun(dnPc2', dnResume2', dnManifest2', dnIndex2', dnHashed2'))
  BY OneDownloads
<1>2. UNCHANGED dnLocal2 => Goes(Downloader2, dnPc2')
  BY <1>1, FirstLocals DEF Goes, dnLocal2
<1>3. SecondDn!DnForget => DnRun(dnPc2', dnResume2', dnManifest2', dnIndex2', dnHashed2') = Over
  BY Zenon, SecondSame DEF SecondDn!DnForget, Over
<1> QED
  BY <1>1, <1>2, <1>3

\* What it leaves behind: the steps that several operations share.
LEMMA SecondLeaves ==
  ASSUME UNCHANGED firstDn
  PROVE  /\ SecondDn!DnStop => Quits(Downloader2)
         /\ SecondDn!DnRaise /\ dnPc2 \notin Idle => Raises(Downloader2)
         /\ SecondDn!DnStop \/ SecondDn!DnRaise => DeliveredFollows /\ BrokerGoesOn
<1>1. SecondDn!DnStop => Quits(Downloader2)
  BY SecondGoes, SecondSame DEF SecondDn!DnStop, SecondDn!DnExit, Quits, SecondDn!Closed, ClosedBy
<1>2. SecondDn!DnRaise /\ dnPc2 \notin Idle => Raises(Downloader2)
  BY SecondGoes, FirstLocals, SecondSame DEF SecondDn!DnRaise, Raises, SecondDn!Closed, ClosedBy
<1>3. SecondDn!DnStop => DeliveredFollows /\ BrokerGoesOn
  BY SecondSame DEF SecondDn!DnStop, SecondDn!DnExit, DeliveredFollows, BrokerGoesOn
<1>4. SecondDn!DnRaise => DeliveredFollows /\ BrokerGoesOn
  BY SecondSame DEF SecondDn!DnRaise, DeliveredFollows, BrokerGoesOn, brokerVars
<1> QED
  BY <1>1, <1>2, <1>3, <1>4

\* What the second run makes of the next chunk.
LEMMA SecondPieceOf ==
  /\ MoreFor(Downloader2) = SecondDn!DnMoreChunks
  /\ PieceOf(Downloader2) = SecondDn!DnPlain
  /\ SecondDn!Genuine => chunks[dnIndex2].data = PieceOf(Downloader2)
  /\ \A data : SecondDn!Write(data) => DnWrites(Downloader2, data)
  /\ PlaceOf(Downloader2) = SecondDn!Prefix(dnIndex2)
  /\ \A i : SecondDn!Covers(i) = Enough(Downloader2, i)
<1>1. SecondDn!Genuine => chunks[dnIndex2].data = SecondDn!DnPlain
  BY SecondSame DEF SecondDn!Genuine, SecondDn!Listed, SecondDn!Encrypt, SecondDn!DnPlain
<1>2. /\ MoreFor(Downloader2) = SecondDn!DnMoreChunks
      /\ PieceOf(Downloader2) = SecondDn!DnPlain
      /\ PlaceOf(Downloader2) = SecondDn!Prefix(dnIndex2)
      /\ \A i : SecondDn!Covers(i) = Enough(Downloader2, i)
  BY FirstLocals, SecondSame
  DEF MoreFor, SecondDn!DnMoreChunks, PieceOf, SecondDn!DnPlain, PlaceOf, SecondDn!Prefix,
      SecondDn!Covers, Enough
<1>3. \A data : SecondDn!Write(data) => DnWrites(Downloader2, data)
  BY <1>2, SecondSame DEF SecondDn!Write, DnWrites, SecondDn!Prefix
<1> QED
  BY <1>1, <1>2, <1>3

\* A step of the second run.
LEMMA SecondDownloads ==
  ASSUME UNCHANGED firstDn,
         \/ SecondDn!DnStep \/ SecondFault
         \/ \E resume \in BOOLEAN : MayStart(resume, dnPc, dnResume) /\ SecondDn!DnStart(resume)
  PROVE  DnActs(Downloader2) /\ DeliveredFollows /\ BrokerGoesOn
<1> DEFINE d == Downloader2
           Acts == DnActs(Downloader2) /\ DeliveredFollows /\ BrokerGoesOn
<1>1. UNCHANGED delivered => DeliveredFollows
  BY DEF DeliveredFollows
<1>2. UNCHANGED brokerVars => BrokerGoesOn
  BY DEF BrokerGoesOn, brokerVars
<1>3. ASSUME SecondDn!DnStop \/ (SecondDn!DnRaise /\ dnPc2 \notin Idle) PROVE Acts
  BY <1>3, SecondLeaves DEF DnActs
<1>4. ASSUME NEW resume \in BOOLEAN, MayStart(resume, dnPc, dnResume), SecondDn!DnStart(resume)
      PROVE  Acts
  <2>1. dnPc2 \in Idle /\ UNCHANGED <<part, nextIndex, out, fd, delivered, store, stray>>
          /\ connected' = connected \cup {Downloader2}
    BY <1>4, SecondSame DEF SecondDn!DnStart, dnDisk
  <2>2. DnBecomes(d, DnRun("manifest", resume, Absent, 0, <<>>))
    <3>1. dnPc2' = "manifest" /\ dnResume2' = resume /\ dnManifest2' = Absent /\ dnIndex2' = 0
            /\ dnHashed2' = <<>>
      BY <1>4, Zenon, SecondSame DEF SecondDn!DnStart
    <3> QED
      BY <3>1, OneDownloads
  <2>3. \A e \in Downloaders \ {d} : MayStart(resume, dnRun[e].pc, dnRun[e].resume)
    BY <1>4, TwoDownloaders, FirstLocals
  <2>4. Starts(d)
    BY <2>1, <2>2, <2>3, FirstLocals DEF Starts
  <2>5. BrokerGoesOn
    BY <2>1, TwoDownloaders DEF BrokerGoesOn
  <2> QED
    BY <1>1, <2>1, <2>4, <2>5 DEF DnActs
<1>5. CASE SecondDn!DnGetManifest
  <2>1. /\ dnPc2 = "manifest" /\ dnPc2' = "begin" /\ dnManifest2' = manifest
        /\ UNCHANGED <<part, nextIndex, out, fd, delivered, dnResume2, dnIndex2,
                      dnHashed2, brokerVars>>
    BY <1>5, SecondSame DEF SecondDn!DnGetManifest, dnDisk
  <2>2. GetsManifest(d)
    BY <2>1, OneDownloads, FirstLocals DEF GetsManifest
  <2> QED
    BY <1>1, <1>2, <2>1, <2>2 DEF DnActs
<1>6. ASSUME SecondDn!UnlinkPart, UNCHANGED <<nextIndex, out, delivered, dnLocal2, brokerVars>>,
             \/ dnPc2 = "begin" /\ ~dnResume2 /\ dnPc2' = "discardState"
             \/ dnPc2 = "fail" /\ dnPc2' = "failState"
      PROVE  Acts
  <2>1. \/ part' = Absent /\ fd' = FdsUnlinked
        \/ UNCHANGED <<part, fd>>
    BY <1>6, SecondSame DEF SecondDn!UnlinkPart, SecondDn!Unlinked
  <2>2. Goes(d, dnPc2')
    BY <1>6, SecondGoes
  <2>3. Drops(d)
    BY <1>6, <2>1, <2>2, FirstLocals DEF Drops
  <2> QED
    BY <1>1, <1>2, <1>6, <2>3 DEF DnActs
<1>7. CASE SecondDn!DnDiscardOld \/ SecondDn!DnFailClosed
  BY <1>6, <1>7, SecondSame DEF SecondDn!DnDiscardOld, SecondDn!DnFailClosed
<1>8. CASE SecondDn!DnDiscardState
  <2>1. /\ dnPc2 = "discardState" /\ dnPc2' = "mode" /\ nextIndex' \in {Absent, nextIndex}
        /\ UNCHANGED <<part, out, fd, delivered, dnLocal2, brokerVars>>
    BY <1>8, SecondSame DEF SecondDn!DnDiscardState, SecondDn!Unlinked
  <2>2. DropsState(d)
    BY <2>1, SecondGoes, FirstLocals DEF DropsState
  <2> QED
    BY <1>1, <1>2, <2>1, <2>2 DEF DnActs
<1>9. CASE SecondDn!DnFailState
  <2>1. /\ dnPc2 = "failState" /\ SecondDn!DnForget /\ nextIndex' \in {Absent, nextIndex}
        /\ connected' = connected \ {Downloader2}
        /\ UNCHANGED <<part, out, fd, delivered, store, stray>>
    BY <1>9, SecondSame DEF SecondDn!DnFailState, SecondDn!Unlinked, SecondDn!DnExit
  <2>2. DropsState(d)
    BY <2>1, SecondGoes, FirstLocals DEF DropsState
  <2>3. BrokerGoesOn
    BY <2>1 DEF BrokerGoesOn
  <2> QED
    BY <1>1, <2>1, <2>2, <2>3 DEF DnActs
<1>10. CASE SecondDn!DnResumable
  <2>1. /\ dnPc2 = "begin" /\ dnResume2 /\ dnPc2' = "mode" /\ nextIndex \in Nat
        /\ SecondDn!Covers(nextIndex) /\ dnIndex2' = nextIndex
        /\ UNCHANGED <<part, nextIndex, out, fd, delivered, dnResume2, dnManifest2, dnHashed2,
                       brokerVars>>
    BY <1>10, SecondSame DEF SecondDn!DnResumable, dnDisk
  <2>2. Resumes(d)
    BY <2>1, OneDownloads, FirstLocals, SecondPieceOf DEF Resumes
  <2> QED
    BY <1>1, <1>2, <2>1, <2>2 DEF DnActs
<1>11. CASE SecondDn!DnMode
  <2>1. /\ dnPc2 = "mode"
        /\ dnPc2' = IF Exists(part) /\ part.data # <<>> THEN "openOld" ELSE "openNew"
        /\ UNCHANGED <<part, nextIndex, out, fd, delivered, dnLocal2, brokerVars>>
    BY <1>11, SecondSame DEF SecondDn!DnMode, dnDisk
  <2>2. Looks(d)
    BY <2>1, SecondGoes, FirstLocals DEF Looks
  <2> QED
    BY <1>1, <1>2, <2>1, <2>2 DEF DnActs
<1>12. CASE SecondDn!DnOpenNew
  <2>1. /\ dnPc2 = "openNew" /\ dnPc2' = "chunk" /\ part' = EmptyFile
        /\ fd' = OpenedBy(d)
        /\ UNCHANGED <<nextIndex, out, delivered, dnLocal2, brokerVars>>
    BY <1>12, SecondSame DEF SecondDn!DnOpenNew, SecondDn!Opened, OpenedBy
  <2>2. OpensNew(d)
    BY <2>1, SecondGoes, FirstLocals DEF OpensNew
  <2> QED
    BY <1>1, <1>2, <2>1, <2>2 DEF DnActs
<1>13. CASE SecondDn!DnOpenOld
  <2>1. /\ dnPc2 = "openOld" /\ Exists(part) /\ dnPc2' = SecondDn!AfterHashing(0)
        /\ fd' = OpenedBy(d)
        /\ UNCHANGED <<part, nextIndex, out, delivered, dnLocal2, brokerVars>>
    BY <1>13, SecondSame DEF SecondDn!DnOpenOld, SecondDn!Opened, OpenedBy
  <2>2. SecondDn!AfterHashing(0) = AfterHashingOf(d, 0)
    BY SecondPieceOf DEF SecondDn!AfterHashing, AfterHashingOf
  <2>3. OpensOld(d)
    BY <2>1, <2>2, SecondGoes, FirstLocals DEF OpensOld
  <2> QED
    BY <1>1, <1>2, <2>1, <2>3 DEF DnActs
<1>22. CASE SecondDn!DnHash
  <2> DEFINE n == Len(dnHashed2) + 1
  <2>1. /\ dnPc2 = "hash" /\ dnPc2' = SecondDn!AfterHashing(n)
        /\ UNCHANGED <<part, nextIndex, out, fd, delivered, dnResume2, dnManifest2,
                       dnIndex2, brokerVars>>
    BY <1>22, SecondSame DEF SecondDn!DnHash, dnDisk
  <2>2. PICK b \in Byte : SecondDn!Reads(n, b) /\ dnHashed2' = Append(dnHashed2, b)
    BY <1>22 DEF SecondDn!DnHash
  <2>3. fd[d] = "part" => n <= Len(part.data) /\ b = part.data[n]
    BY <2>2 DEF SecondDn!Reads
  <2>4. SecondDn!AfterHashing(n) = AfterHashingOf(d, n)
    BY SecondPieceOf DEF SecondDn!AfterHashing, AfterHashingOf
  <2>5. HashesByte(d, b)
    BY <2>1, <2>2, <2>3, <2>4, OneDownloads, FirstLocals DEF HashesByte
  <2>6. Hashes(d)
    BY <2>5 DEF Hashes
  <2> QED
    BY <1>1, <1>2, <2>1, <2>6 DEF DnActs
<1>14. CASE SecondDn!DnChunk
  <2>1. /\ dnPc2 = "chunk" /\ SecondDn!DnMoreChunks /\ SecondDn!Genuine
             /\ SecondDn!Write(chunks[dnIndex2].data)
        /\ dnHashed2' = dnHashed2 \o chunks[dnIndex2].data /\ dnPc2' = "save"
        /\ UNCHANGED <<nextIndex, fd, delivered, dnResume2, dnManifest2, dnIndex2, brokerVars>>
    BY <1>14, SecondSame DEF SecondDn!DnChunk
  <2>2. DnWrites(d, PieceOf(d)) /\ MoreFor(d)
    BY <2>1, SecondPieceOf
  <2>3. Fetches(d)
    BY <2>1, <2>2, OneDownloads, FirstLocals, SecondPieceOf DEF Fetches
  <2> QED
    BY <1>1, <1>2, <2>1, <2>3 DEF DnActs
<1>15. CASE SecondDn!DnPartWrite
  <2>1. /\ dnPc2 = "chunk" /\ SecondDn!DnMoreChunks /\ SecondDn!Genuine
        /\ \E n \in 1..Len(chunks[dnIndex2].data) :
               SecondDn!Write(SubSeq(chunks[dnIndex2].data, 1, n))
        /\ fd' = ClosedBy(d) /\ UNCHANGED <<nextIndex, delivered>>
        /\ SecondDn!DnExit \/ (dnPc2' = "fail" /\ UNCHANGED <<dnLocal2, brokerVars>>)
    BY <1>15, SecondSame DEF SecondDn!DnPartWrite, SecondDn!Closed, ClosedBy
  <2>2. (DnBecomes(d, Over) \/ Goes(d, "fail")) /\ BrokerGoesOn
    BY <1>2, <2>1, SecondGoes, SecondSame DEF SecondDn!DnExit, BrokerGoesOn
  <2>3. BreaksOff(d)
    BY <2>1, <2>2, FirstLocals, SecondPieceOf DEF BreaksOff
  <2> QED
    BY <1>1, <2>1, <2>2, <2>3 DEF DnActs
<1>16. CASE SecondDn!DnSave
  <2>1. /\ dnPc2 = "save" /\ dnPc2' = "chunk" /\ nextIndex' = dnIndex2 + 1
             /\ dnIndex2' = dnIndex2 + 1
        /\ UNCHANGED <<part, out, fd, delivered, dnResume2, dnManifest2, dnHashed2, brokerVars>>
    BY <1>16, SecondSame DEF SecondDn!DnSave, SecondDn!SavedIndex
  <2>2. Saves(d)
    BY <2>1, OneDownloads, FirstLocals DEF Saves, Counted
  <2> QED
    BY <1>1, <1>2, <2>1, <2>2 DEF DnActs
<1>17. CASE SecondDn!DnSync
  <2>1. /\ dnPc2 = "chunk" /\ ~SecondDn!DnMoreChunks /\ dnPc2' = "verify" /\ fd' = ClosedBy(d)
        /\ \/ /\ part' = IF fd[d] = "part" THEN Synced(part) ELSE part
              /\ out'  = IF fd[d] = "out"  THEN Synced(out)  ELSE out
           \/ FsyncMayFail /\ UNCHANGED <<part, out>>
        /\ UNCHANGED <<nextIndex, delivered, dnLocal2, brokerVars>>
    BY <1>17, SecondSame DEF SecondDn!DnSync, SecondDn!Closed, ClosedBy
  <2>2. Syncs(d)
    BY <2>1, SecondGoes, FirstLocals, SecondPieceOf DEF Syncs
  <2> QED
    BY <1>1, <1>2, <2>1, <2>2 DEF DnActs
<1>18. CASE SecondDn!DnVerifyOk
  <2>1. /\ dnPc2 = "verify" /\ dnPc2' = "promote" /\ dnHashed2 = dnManifest2.plain
        /\ UNCHANGED <<part, nextIndex, out, fd, delivered, dnLocal2, brokerVars>>
    BY <1>18, SecondSame DEF SecondDn!DnVerifyOk, SecondDn!DnVerified, dnDisk
  <2>2. Verifies(d)
    BY <2>1, SecondGoes, FirstLocals DEF Verifies
  <2> QED
    BY <1>1, <1>2, <2>1, <2>2 DEF DnActs
<1>19. CASE SecondDn!DnPromote
  <2>1. /\ dnPc2 = "promote" /\ dnPc2' = "promoted" /\ Exists(part) /\ out' = part
        /\ part' = Absent /\ fd' = FdsRenamed /\ delivered' = delivered \cup {part.data}
        /\ UNCHANGED <<nextIndex, dnLocal2, brokerVars>>
    BY <1>19, SecondSame DEF SecondDn!DnPromote
  <2>2. Promotes(d)
    BY <2>1, SecondGoes, FirstLocals DEF Promotes
  <2> QED
    BY <1>2, <2>1, <2>2 DEF DnActs, DeliveredFollows
<1>20. CASE SecondDn!DnFinish
  <2>1. /\ dnPc2 = "promoted" /\ dnPc2' = "ok" /\ nextIndex' = Absent
        /\ connected' = connected \ {Downloader2}
        /\ UNCHANGED <<part, out, fd, delivered, dnLocal2, store, stray>>
    BY <1>20, SecondSame DEF SecondDn!DnFinish
  <2>2. Finishes(d)
    BY <2>1, SecondGoes, FirstLocals DEF Finishes
  <2>3. BrokerGoesOn
    BY <2>1 DEF BrokerGoesOn
  <2> QED
    BY <1>1, <2>1, <2>2, <2>3 DEF DnActs
<1>21. CASE \/ SecondDn!DnNoManifest \/ SecondDn!DnBadManifest \/ SecondDn!DnCannotResume
            \/ SecondDn!DnUnreadableState
            \/ SecondDn!DnOpenFails \/ SecondDn!DnShortPrefix
            \/ SecondDn!DnNoChunk \/ SecondDn!DnBadChunk
            \/ SecondDn!DnVerifyMismatch \/ SecondDn!DnVerifyBlocked
            \/ SecondDn!DnNothingToPromote \/ SecondDn!DnDisconnected \/ SecondDn!DnError
            \/ SecondDn!DnStopped \/ SecondDn!DnKill
  <2>1. SecondDn!DnStop \/ (SecondDn!DnRaise /\ dnPc2 \notin Idle)
    BY <1>21, SecondSame
    DEF Idle, SecondDn!DnNoManifest, SecondDn!DnBadManifest, SecondDn!DnCannotResume,
        SecondDn!DnUnreadableState,
         SecondDn!DnOpenFails, SecondDn!DnShortPrefix,
         SecondDn!DnNoChunk, SecondDn!DnBadChunk,
         SecondDn!DnVerifyMismatch, SecondDn!DnVerifyBlocked,
         SecondDn!DnNothingToPromote, SecondDn!DnDisconnected, SecondDn!DnError,
         SecondDn!DnStopped, SecondDn!DnKill
  <2> QED
    BY <1>3, <2>1
<1> QED
  BY <1>4, <1>5, <1>7, <1>8, <1>9, <1>10, <1>11, <1>12, <1>13, <1>14, <1>15, <1>16, <1>17,
     <1>18, <1>19, <1>20, <1>21, <1>22 DEF SecondDn!DnStep, SecondFault

\* Both runs save at the same time.
LEMMA BothSave ==
  ASSUME SaveCollision
  PROVE  DnActs(Downloader) \/ DnActs(Downloader2)
<1>1. /\ dnPc = "save" /\ dnPc2 = "save"
      /\ nextIndex' \in {dnIndex + 1, dnIndex2 + 1, Garbled}
      /\ UNCHANGED <<part, out, dnResume, dnManifest, dnHashed, dnResume2, dnManifest2, dnHashed2>>
  BY DEF SaveCollision, SavedIndex, SecondDn!SavedIndex
<1>2. /\ \A e \in Downloaders : dnRun[e].pc = "save"
      /\ nextIndex' = Garbled \/ \E e \in Downloaders : nextIndex' = dnRun[e].index + 1
  BY <1>1, TwoDownloaders, FirstLocals
<1>3. CASE /\ dnPc' = "chunk" /\ dnIndex' = dnIndex + 1 /\ UNCHANGED dnIndex2
           /\ dnPc2' = "fail" /\ fd' = SecondDn!Closed
  <2>1. /\ dnRun'[Downloader] = Counted(Downloader)
        /\ dnRun'[Downloader2] = DnRun("fail", dnRun[Downloader2].resume, dnRun[Downloader2].m,
                                       dnRun[Downloader2].index, dnRun[Downloader2].hashed)
    BY <1>1, <1>3, TwoDownloaders, FirstLocals DEF Counted
  <2>2. fd' = ClosedBy(Downloader2)
    BY <1>3 DEF SecondDn!Closed, ClosedBy
  <2>3. Collides(Downloader)
    BY <1>1, <1>2, <2>1, <2>2, TwoDownloaders DEF Collides
  <2> QED
    BY <2>3 DEF DnActs
<1>4. CASE /\ dnPc2' = "chunk" /\ dnIndex2' = dnIndex2 + 1 /\ UNCHANGED dnIndex
           /\ dnPc' = "fail" /\ fd' = Closed
  <2>1. /\ dnRun'[Downloader2] = Counted(Downloader2)
        /\ dnRun'[Downloader] = DnRun("fail", dnRun[Downloader].resume, dnRun[Downloader].m,
                                       dnRun[Downloader].index, dnRun[Downloader].hashed)
    BY <1>1, <1>4, TwoDownloaders, FirstLocals DEF Counted
  <2>2. fd' = ClosedBy(Downloader)
    BY <1>4 DEF Closed, ClosedBy
  <2>3. Collides(Downloader2)
    BY <1>1, <1>2, <2>1, <2>2, TwoDownloaders DEF Collides
  <2> QED
    BY <2>3 DEF DnActs
<1> QED
  BY <1>3, <1>4 DEF SaveCollision

\* Both runs end.
LEMMA BothForget ==
  ASSUME DnForget, SecondDn!DnForget
  PROVE  \A d \in Downloaders : dnRun'[d] = Over
<1>1. DnRun(dnPc', dnResume', dnManifest', dnIndex', dnHashed') = Over
  BY Zenon DEF DnForget, Over
<1>2. DnRun(dnPc2', dnResume2', dnManifest2', dnIndex2', dnHashed2') = Over
  BY Zenon DEF SecondDn!DnForget, Over
<1> QED
  BY <1>1, <1>2, TwoDownloaders

(***************************************************************************)
(* Every step of the two downloads is one of these, of one of the two runs *)
(* or of both.                                                             *)
(***************************************************************************)
LEMMA DownloadsSteps == DownloadsNext => DownloadsStep
<1> SUFFICES ASSUME DownloadsNext PROVE DownloadsStep
  OBVIOUS
<1>1. UNCHANGED delivered => DeliveredFollows
  BY DEF DeliveredFollows
<1>2. CASE UNCHANGED secondDn /\
             \/ DnStep \/ FirstFault
             \/ \E resume \in BOOLEAN : MayStart(resume, dnPc2, dnResume2) /\ DnStart(resume)
  BY <1>2, FirstDownloads, TwoDownloaders DEF DownloadsStep
<1>3. CASE UNCHANGED firstDn /\
             \/ SecondDn!DnStep \/ SecondFault
             \/ \E resume \in BOOLEAN : MayStart(resume, dnPc, dnResume) /\ SecondDn!DnStart(resume)
  BY <1>3, SecondDownloads, TwoDownloaders DEF DownloadsStep
<1>4. CASE DnTakeOutput /\ UNCHANGED secondDn
  <2>1. UNCHANGED <<dnPc, dnLocal, dnPc2, dnLocal2>>
    BY <1>4 DEF DnTakeOutput, secondDn
  <2>2. UNCHANGED dnRun
    BY <2>1, OneDownloads DEF firstDn, secondDn
  <2>3. TakesOutput /\ UNCHANGED <<delivered, brokerVars>>
    BY <1>4, <2>2 DEF DnTakeOutput, TakesOutput
  <2> QED
    BY <1>1, <2>3 DEF DownloadsStep, BrokerGoesOn, brokerVars
<1>5. CASE SaveCollision
  <2>1. UNCHANGED <<delivered, brokerVars>>
    BY <1>5 DEF SaveCollision
  <2> QED
    BY <1>1, <1>5, <2>1, BothSave, TwoDownloaders DEF DownloadsStep, BrokerGoesOn, brokerVars
<1>6. CASE (ServeStray \/ \E c \in Clients : Disconnect(c))
             /\ UNCHANGED <<dnDisk, firstDn, secondDn>>
  <2>1. NothingDone /\ UNCHANGED delivered
    BY <1>6, OneDownloads DEF NothingDone, dnDisk
  <2>2. BrokerGoesOn
    BY <1>6 DEF Disconnect, BrokerGoesOn
  <2> QED
    BY <1>1, <2>1, <2>2 DEF DownloadsStep
<1>7. CASE PowerLoss
  <2>1. LosesPower
    BY <1>7, BothForget DEF PowerLoss, LosesPower
  <2>2. UNCHANGED <<store, stray, delivered>> /\ connected' = {}
    BY <1>7 DEF PowerLoss, DnDiskLosesPower
  <2> QED
    BY <1>1, <2>1, <2>2 DEF DownloadsStep, BrokerGoesOn
<1> QED
  BY <1>2, <1>3, <1>4, <1>5, <1>6, <1>7
  DEF DownloadsNext, DownloadsUser, DownloadsPrograms, DownloadsFault
-----------------------------------------------------------------------------
(* Two downloads: every step keeps the types.                              *)

\* Writing to a file, also beyond its end.
LEMMA WriteAnywhere ==
  ASSUME NEW f \in File, NEW off \in Nat, NEW c \in Seq(Byte)
  PROVE  LET w == WriteAt(f, off, c)
         IN  /\ w \in File /\ w.synced = f.synced
             /\ Len(w.data) = IF Len(f.data) > off + Len(c) THEN Len(f.data) ELSE off + Len(c)
             /\ \A i \in 1..Len(w.data) :
                  w.data[i] = IF i \in off+1..off+Len(c) THEN c[i - off]
                              ELSE IF i <= Len(f.data) THEN f.data[i] ELSE Zero
<1> DEFINE end == off + Len(c)
           len == IF Len(f.data) > end THEN Len(f.data) ELSE end
           e == [i \in 1..len |-> IF i \in off+1..end THEN c[i - off]
                                  ELSE IF i <= Len(f.data) THEN f.data[i] ELSE Zero]
           w == WriteAt(f, off, c)
<1>1. /\ f.data \in Seq(Byte) /\ Len(f.data) \in Nat /\ Len(c) \in Nat /\ end \in Nat /\ len \in Nat
      /\ f.synced \in Nat /\ f = [data |-> f.data, synced |-> f.synced]
  BY DEF File
<1>2. ASSUME NEW i \in 1..len PROVE e[i] \in Byte
  <2>1. CASE i \in off+1..end
    <3>1. i - off \in 1..Len(c)
      BY <1>1, <2>1
    <3>2. c[i - off] \in Byte
      BY <3>1
    <3> QED
      BY <1>2, <2>1, <3>2
  <2>2. CASE i \notin off+1..end /\ i <= Len(f.data)
    <3>1. i \in 1..Len(f.data)
      BY <1>1, <2>2
    <3>2. f.data[i] \in Byte
      BY <1>1, <3>1
    <3> QED
      BY <1>2, <2>2, <3>2
  <2>3. CASE i \notin off+1..end /\ ~(i <= Len(f.data))
    BY <1>2, <2>3, FilesAssumption
  <2> QED
    BY <2>1, <2>2, <2>3
<1>3. e \in [1..len -> Byte]
  BY <1>2
<1> HIDE DEF e
<1>4. e \in Seq(Byte) /\ Len(e) = len
  BY <1>1, <1>3
<1>5. w = [f EXCEPT !.data = e]
  BY DEF WriteAt, e
<1>6. w \in File /\ w.data = e /\ w.synced = f.synced
  BY <1>4, <1>5 DEF File
<1> QED
  BY <1>4, <1>5, <1>6 DEF e

\* The fields of a run after a step.
LEMMA RunBecomes ==
  ASSUME NEW d \in Downloaders, NEW pc, NEW resume, NEW m, NEW index, NEW hashed,
         dnRun'[d] = DnRun(pc, resume, m, index, hashed)
  PROVE  /\ dnRun'[d].pc = pc /\ dnRun'[d].resume = resume /\ dnRun'[d].m = m
         /\ dnRun'[d].index = index /\ dnRun'[d].hashed = hashed
BY DnRunFields

\* The fields of a run that goes on elsewhere, and the other run.
LEMMA RunGoes ==
  ASSUME NEW d \in Downloaders, NEW pc, Goes(d, pc)
  PROVE  /\ dnRun'[d].pc = pc /\ dnRun'[d].resume = dnRun[d].resume /\ dnRun'[d].m = dnRun[d].m
         /\ dnRun'[d].index = dnRun[d].index /\ dnRun'[d].hashed = dnRun[d].hashed
         /\ \A e \in Downloaders \ {d} : dnRun'[e] = dnRun[e]
BY DnRunFields DEF Goes, DnBecomes

\* A run that has ended.
LEMMA OverFields ==
  /\ Over.pc = "off" /\ Over.resume \in BOOLEAN /\ Over.m = Absent /\ Over.index = 0
  /\ Over.hashed = <<>>
<1>1. Over.pc = "off" /\ Over.m = Absent /\ Over.index = 0 /\ Over.hashed = <<>>
  BY DEF Over, DnRun
<1>2. Over.resume \in BOOLEAN
  BY Zenon DEF Over, DnRun
<1> QED
  BY <1>1, <1>2

\* What the types say of files and manifest.
LEMMA TypeFacts ==
  ASSUME DownloadsTyped
  PROVE  /\ manifest \in Manifest /\ manifest.plain \in Seq(Byte) /\ Len(manifest.plain) \in Nat
         /\ Len(manifest.plain) > 0
         /\ \A n \in Nat \ {0} : OffsetBefore(manifest, n) > 0
         /\ \A n \in Nat : OffsetBefore(manifest, n) \in Nat
                            /\ OffsetBefore(manifest, n) <= Len(manifest.plain)
         /\ Exists(part) => part \in File /\ part.data \in Seq(Byte) /\ Len(part.data) \in Nat
         /\ Exists(out) => out \in File
<1> DEFINE p == manifest.plain
<1>1. manifest \in Manifest /\ p \in Inputs /\ p \in Seq(Byte) /\ Len(p) \in Nat
  BY FormatAssumption DEF DownloadsTyped, OneManifest
<1>2. Len(p) > 0
  BY <1>1, FormatAssumption, EmptySeq
<1>3. \A n \in Nat : OffsetBefore(manifest, n) \in Nat /\ OffsetBefore(manifest, n) <= Len(p)
  BY <1>1, PrefixOfChunks
<1>4. ASSUME NEW n \in Nat \ {0} PROVE OffsetBefore(manifest, n) > 0
  <2>1. Offset(0) = 0 /\ Offset(0) < Offset(n) /\ Offset(n) \in Nat
    BY OffsetOrder, OffsetSteps, FormatAssumption DEF Offset
  <2> QED
    BY <1>1, <1>2, <2>1 DEF OffsetBefore
<1>5. part \in File \cup {Absent} /\ out \in File \cup {Absent}
  BY DEF DownloadsTyped, TypedFiles
<1>6. Exists(part) => part \in File /\ part.data \in Seq(Byte) /\ Len(part.data) \in Nat
  BY <1>5 DEF Exists, File
<1>7. Exists(out) => out \in File
  BY <1>5 DEF Exists
<1> QED
  BY <1>1, <1>2, <1>3, <1>4, <1>6, <1>7

\* The types of the files after a step of run d that removes none and opens, if
\* any, the partial file.
LEMMA FilesTyped ==
  ASSUME DownloadsTyped, DeliveredFollows, NEW d \in Downloaders,
         part' \in File \cup {Absent}, out' \in File \cup {Absent},
         Exists(part) => Exists(part'), Exists(out) => Exists(out'),
         nextIndex' \in (Nat \ {0}) \cup {Absent, Garbled},
         fd' \in {fd, ClosedBy(d)} \/ (fd' = OpenedBy(d) /\ Exists(part'))
  PROVE  /\ TypedFiles'
         /\ \A e \in Downloaders \ {d} : fd'[e] = fd[e]
         /\ fd' = OpenedBy(d) => fd'[d] = "part"
         /\ fd' = ClosedBy(d) => fd'[d] = "none"
<1>1. /\ fd \in [Clients -> {"part", "out", "gone", "none"}] /\ Downloaders \subseteq Clients
      /\ \A e \in Downloaders : (fd[e] = "part" => Exists(part)) /\ (fd[e] = "out" => Exists(out))
      /\ delivered \subseteq Seq(Byte)
  BY TwoDownloaders DEF DownloadsTyped, TypedFiles
<1>2. /\ fd' \in [Clients -> {"part", "out", "gone", "none"}]
      /\ \A e \in Downloaders :
             (fd'[e] = "part" => Exists(part')) /\ (fd'[e] = "out" => Exists(out'))
      /\ \A e \in Downloaders \ {d} : fd'[e] = fd[e]
      /\ fd' = OpenedBy(d) => fd'[d] = "part"
      /\ fd' = ClosedBy(d) => fd'[d] = "none"
  BY <1>1 DEF ClosedBy, OpenedBy
<1>3. delivered' \subseteq Seq(Byte)
  BY <1>1, TypeFacts DEF DeliveredFollows
<1> QED
  BY <1>2, <1>3 DEF TypedFiles

\* Partial file and output stay what they are.
LEMMA FilesStay ==
  ASSUME DownloadsTyped, DeliveredFollows, NEW d \in Downloaders, UNCHANGED <<part, out>>,
         nextIndex' \in (Nat \ {0}) \cup {Absent, Garbled},
         fd' \in {fd, ClosedBy(d)} \/ (fd' = OpenedBy(d) /\ Exists(part))
  PROVE  /\ TypedFiles'
         /\ \A e \in Downloaders \ {d} : fd'[e] = fd[e]
         /\ fd' = OpenedBy(d) => fd'[d] = "part"
         /\ fd' = ClosedBy(d) => fd'[d] = "none"
<1>1. part' \in File \cup {Absent} /\ out' \in File \cup {Absent}
        /\ (Exists(part') <=> Exists(part)) /\ (Exists(out) => Exists(out'))
  BY DEF DownloadsTyped, TypedFiles, Exists
<1> QED
  BY <1>1, FilesTyped

\* The partial file loses its name: removed, or renamed to the output.
LEMMA NameGoes ==
  ASSUME DownloadsTyped, DeliveredFollows, UNCHANGED nextIndex, part' = Absent,
         \/ fd' = FdsUnlinked /\ UNCHANGED out
         \/ fd' = FdsRenamed /\ out' = part /\ Exists(part)
  PROVE  TypedFiles' /\ \A e \in Downloaders : (fd'[e] = "none") = (fd[e] = "none")
<1>1. /\ fd \in [Clients -> {"part", "out", "gone", "none"}] /\ Downloaders \subseteq Clients
      /\ part \in File \cup {Absent} /\ out \in File \cup {Absent}
      /\ nextIndex \in (Nat \ {0}) \cup {Absent, Garbled}
      /\ \A e \in Downloaders : fd[e] = "out" => Exists(out)
      /\ delivered \subseteq Seq(Byte)
  BY TwoDownloaders DEF DownloadsTyped, TypedFiles
<1>2. /\ fd' \in [Clients -> {"part", "out", "gone", "none"}]
      /\ \A e \in Downloaders : fd'[e] # "part" /\ (fd'[e] = "none") = (fd[e] = "none")
      /\ \A e \in Downloaders : fd'[e] = "out" => Exists(out')
  BY <1>1 DEF FdsUnlinked, FdsRenamed, Exists
<1>3. delivered' \subseteq Seq(Byte)
  BY <1>1, TypeFacts DEF DeliveredFollows
<1> QED
  BY <1>1, <1>2, <1>3 DEF TypedFiles

\* What is written is a file, and there if it was there before.
LEMMA WritesFiles ==
  ASSUME DownloadsTyped, NEW d \in Downloaders, PlaceOf(d) \in Nat, NEW c \in Seq(Byte),
         DnWrites(d, c)
  PROVE  /\ part' \in File \cup {Absent} /\ out' \in File \cup {Absent}
         /\ Exists(part) => Exists(part')
         /\ Exists(out) => Exists(out')
<1>1. /\ part \in File \cup {Absent} /\ out \in File \cup {Absent}
      /\ fd[d] = "part" => Exists(part)
      /\ fd[d] = "out" => Exists(out)
  BY DEF DownloadsTyped, TypedFiles
<1>2. \A f \in File : WriteAt(f, PlaceOf(d), c) \in File
  BY WriteAnywhere
<1> QED
  BY <1>1, <1>2, FilesAssumption DEF DnWrites, Exists

\* A run that goes on keeps its types.
LEMMA GoesTyped ==
  ASSUME DownloadsTyped, UNCHANGED manifest, NEW d \in Downloaders,
         dnRun'[d].resume = dnRun[d].resume, dnRun'[d].m = dnRun[d].m,
         dnRun'[d].index = dnRun[d].index, dnRun'[d].hashed = dnRun[d].hashed,
         dnRun'[d].pc \in Idle \cup DnActive,
         dnRun'[d].pc \in Informed => dnRun[d].pc \in Informed,
         dnRun'[d].pc \in NotOpened => dnRun[d].pc \in NotOpened,
         dnRun'[d].pc = "discardState" => ~dnRun[d].resume,
         (fd'[d] = "none") = (dnRun'[d].pc \notin Writing)
  PROVE  TypedDn(d)'
BY DEF DownloadsTyped, TypedDn

\* So does one that has ended.
LEMMA OverTyped ==
  ASSUME NEW d \in Downloaders, dnRun'[d] = Over, fd'[d] = "none"
  PROVE  TypedDn(d)'
BY OverFields DEF TypedDn, Idle, Informed, Receiving, Writing, NotOpened

\* The types of one run and of the files are those of everything.
LEMMA OneTyped ==
  ASSUME DownloadsTyped, OneManifest', UNCHANGED manifest, NEW d \in Downloaders,
         TypedFiles', TypedDn(d)',
         \A e \in Downloaders \ {d} : dnRun'[e] = dnRun[e] /\ (fd'[e] = "none") = (fd[e] = "none")
  PROVE  DownloadsTyped'
<1>1. ASSUME NEW e \in Downloaders \ {d} PROVE TypedDn(e)'
  BY <1>1 DEF DownloadsTyped, TypedDn
<1> QED
  BY <1>1 DEF DownloadsTyped

\* A step from one state of a run to another, that touches no content.
LEMMA SimpleTyped ==
  ASSUME DownloadsTyped, OneManifest', UNCHANGED manifest, DeliveredFollows, NEW d \in Downloaders,
         Raises(d) \/ Looks(d) \/ OpensNew(d) \/ Syncs(d) \/ Verifies(d) \/ Finishes(d)
  PROVE  DownloadsTyped'
<1>1. TypedDn(d) /\ nextIndex \in (Nat \ {0}) \cup {Absent, Garbled}
        /\ part \in File \cup {Absent} /\ out \in File \cup {Absent}
  BY DEF DownloadsTyped, TypedFiles
<1>2. PICK pc : Goes(d, pc)
  BY DEF Raises, Looks, OpensNew, Syncs, Verifies, Finishes
<1>3. /\ dnRun'[d].resume = dnRun[d].resume /\ dnRun'[d].m = dnRun[d].m
      /\ dnRun'[d].index = dnRun[d].index /\ dnRun'[d].hashed = dnRun[d].hashed
      /\ \A e \in Downloaders \ {d} : dnRun'[e] = dnRun[e]
  BY <1>2, RunGoes
<1>4. ASSUME TypedFiles', (fd'[d] = "none") = (dnRun'[d].pc \notin Writing),
             \A e \in Downloaders \ {d} : fd'[e] = fd[e],
             dnRun'[d].pc \in DnActive \cup Idle, dnRun'[d].pc # "discardState",
             dnRun'[d].pc \in Informed => dnRun[d].pc \in Informed,
             dnRun'[d].pc \in NotOpened => dnRun[d].pc \in NotOpened
      PROVE  DownloadsTyped'
  <2>1. TypedDn(d)'
    BY <1>3, <1>4, GoesTyped
  <2> QED
    BY <1>3, <1>4, <2>1, OneTyped
<1>5. CASE Raises(d)
  <2>1. dnRun'[d].pc = "fail" /\ fd' = ClosedBy(d) /\ UNCHANGED <<part, nextIndex, out>>
    BY <1>5, RunGoes DEF Raises
  <2>2. TypedFiles' /\ fd'[d] = "none" /\ \A e \in Downloaders \ {d} : fd'[e] = fd[e]
    BY <1>1, <2>1, FilesStay
  <2> QED
    BY <1>4, <2>1, <2>2 DEF DnActive, Informed, NotOpened, Receiving, Writing
<1>6. CASE Looks(d)
  <2>1. /\ dnRun[d].pc = "mode" /\ dnRun'[d].pc \in {"openOld", "openNew"}
        /\ UNCHANGED <<part, nextIndex, out, fd>>
    BY <1>6, RunGoes DEF Looks
  <2>2. TypedFiles' /\ fd'[d] = "none"
    BY <1>1, <2>1, FilesStay DEF TypedDn, Writing
  <2> QED
    BY <1>4, <2>1, <2>2 DEF DnActive, Informed, NotOpened, Receiving, Writing
<1>7. CASE OpensNew(d)
  <2>1. /\ dnRun[d].pc = "openNew" /\ dnRun'[d].pc = "chunk"
        /\ part' = EmptyFile /\ fd' = OpenedBy(d) /\ UNCHANGED <<nextIndex, out>>
    BY <1>7, RunGoes DEF OpensNew
  <2>2. part' \in File /\ Exists(part')
    BY <2>1, EmptyFileFacts
  <2>3. TypedFiles' /\ fd'[d] = "part" /\ \A e \in Downloaders \ {d} : fd'[e] = fd[e]
    BY <1>1, <2>1, <2>2, FilesTyped DEF Exists
  <2> QED
    BY <1>4, <2>1, <2>3 DEF DnActive, Informed, NotOpened, Receiving, Writing
<1>8. CASE Syncs(d)
  <2>1. /\ dnRun[d].pc = "chunk" /\ dnRun'[d].pc = "verify"
        /\ fd' = ClosedBy(d) /\ UNCHANGED nextIndex
        /\ part' = part \/ (fd[d] = "part" /\ part' = Synced(part))
        /\ out' = out \/ (fd[d] = "out" /\ out' = Synced(out))
    BY <1>8, RunGoes DEF Syncs
  <2>2. (fd[d] = "part" => part \in File) /\ (fd[d] = "out" => out \in File)
    BY <1>1 DEF DownloadsTyped, TypedFiles, Exists
  <2>3. /\ part' \in File \cup {Absent} /\ out' \in File \cup {Absent}
        /\ Exists(part) => Exists(part')
        /\ Exists(out) => Exists(out')
    BY <1>1, <2>1, <2>2, SyncedFile, FilesAssumption DEF Exists
  <2>4. TypedFiles' /\ fd'[d] = "none" /\ \A e \in Downloaders \ {d} : fd'[e] = fd[e]
    BY <1>1, <2>1, <2>3, FilesTyped
  <2> QED
    BY <1>4, <2>1, <2>4 DEF DnActive, Informed, NotOpened, Receiving, Writing
<1>9. CASE Verifies(d)
  <2>1. /\ dnRun[d].pc = "verify" /\ dnRun'[d].pc = "promote"
        /\ UNCHANGED <<part, nextIndex, out, fd>>
    BY <1>9, RunGoes DEF Verifies
  <2>2. TypedFiles' /\ fd'[d] = "none"
    BY <1>1, <2>1, FilesStay DEF TypedDn, Writing
  <2> QED
    BY <1>4, <2>1, <2>2 DEF DnActive, Informed, NotOpened, Receiving, Writing
<1>10. CASE Finishes(d)
  <2>1. /\ dnRun[d].pc = "promoted" /\ dnRun'[d].pc = "ok"
        /\ nextIndex' = Absent /\ UNCHANGED <<part, out, fd>>
    BY <1>10, RunGoes DEF Finishes
  <2>2. TypedFiles' /\ fd'[d] = "none"
    BY <1>1, <2>1, FilesStay DEF TypedDn, Writing
  <2> QED
    BY <1>4, <2>1, <2>2 DEF Idle, Informed, NotOpened, Receiving, Writing
<1> QED
  BY <1>5, <1>6, <1>7, <1>8, <1>9, <1>10

\* A step that ends a run, whatever else it does.
LEMMA EndTyped ==
  ASSUME DownloadsTyped, OneManifest', UNCHANGED manifest, DeliveredFollows, NEW d \in Downloaders,
         DnBecomes(d, Over), fd'[d] = "none", TypedFiles',
         \A e \in Downloaders \ {d} : (fd'[e] = "none") = (fd[e] = "none")
  PROVE  DownloadsTyped'
BY OverTyped, OneTyped DEF DnBecomes

\* A run begins, or has the manifest.
LEMMA StartTyped ==
  ASSUME DownloadsTyped, OneManifest', UNCHANGED manifest, DeliveredFollows, NEW d \in Downloaders,
         Starts(d) \/ GetsManifest(d)
  PROVE  DownloadsTyped'
<1>1. TypedDn(d) /\ nextIndex \in (Nat \ {0}) \cup {Absent, Garbled}
  BY DEF DownloadsTyped, TypedFiles
<1>2. UNCHANGED <<part, nextIndex, out, fd>>
  BY DEF Starts, GetsManifest
<1>3. TypedFiles'
  BY <1>1, <1>2, FilesStay
<1>4. CASE Starts(d)
  <2>1. PICK resume \in BOOLEAN : DnBecomes(d, DnRun("manifest", resume, Absent, 0, <<>>))
    BY <1>4 DEF Starts
  <2>2. /\ dnRun'[d].pc = "manifest" /\ dnRun'[d].resume = resume /\ dnRun'[d].m = Absent
        /\ dnRun'[d].index = 0 /\ dnRun'[d].hashed = <<>>
        /\ \A e \in Downloaders \ {d} : dnRun'[e] = dnRun[e]
    <3>1. dnRun'[d] = DnRun("manifest", resume, Absent, 0, <<>>)
      BY <2>1 DEF DnBecomes
    <3> QED
      BY <2>1, <3>1, RunBecomes DEF DnBecomes
  <2>3. fd[d] = "none"
    BY <1>1, <1>4 DEF Starts, TypedDn, Idle, Writing
  <2>4. TypedDn(d)'
    BY <1>2, <2>2, <2>3 DEF TypedDn, DnActive, Informed, Receiving, Writing, NotOpened
  <2> QED
    BY <1>2, <1>3, <2>2, <2>4, OneTyped
<1>5. CASE GetsManifest(d)
  <2>1. /\ dnRun[d].pc = "manifest" /\ dnRun'[d].pc = "begin"
        /\ dnRun'[d].resume = dnRun[d].resume
        /\ dnRun'[d].m = manifest /\ dnRun'[d].index = dnRun[d].index
        /\ dnRun'[d].hashed = dnRun[d].hashed
        /\ \A e \in Downloaders \ {d} : dnRun'[e] = dnRun[e]
    BY <1>5, RunBecomes DEF GetsManifest, DnBecomes
  <2>2. TypedDn(d)'
    BY <1>1, <1>2, <2>1 DEF TypedDn, DnActive, Informed, Receiving, Writing, NotOpened
  <2> QED
    BY <1>2, <1>3, <2>1, <2>2, OneTyped
<1> QED
  BY <1>4, <1>5

\* _fail_closed, file by file, and the rename to the output.
LEMMA DropTyped ==
  ASSUME DownloadsTyped, OneManifest', UNCHANGED manifest, DeliveredFollows, NEW d \in Downloaders,
         Drops(d) \/ DropsState(d) \/ Promotes(d) \/ Quits(d)
  PROVE  DownloadsTyped'
<1>1. TypedDn(d) /\ nextIndex \in (Nat \ {0}) \cup {Absent, Garbled}
  BY DEF DownloadsTyped, TypedFiles
<1>2. CASE Drops(d)
  <2>1. /\ \/ dnRun[d].pc = "begin" /\ ~dnRun[d].resume /\ dnRun'[d].pc = "discardState"
           \/ dnRun[d].pc = "fail" /\ dnRun'[d].pc = "failState"
        /\ dnRun'[d].resume = dnRun[d].resume /\ dnRun'[d].m = dnRun[d].m
        /\ dnRun'[d].index = dnRun[d].index /\ dnRun'[d].hashed = dnRun[d].hashed
        /\ \A e \in Downloaders \ {d} : dnRun'[e] = dnRun[e]
    <3>1. CASE dnRun[d].pc = "begin" /\ ~dnRun[d].resume /\ Goes(d, "discardState")
      BY <3>1, RunGoes
    <3>2. CASE dnRun[d].pc = "fail" /\ Goes(d, "failState")
      BY <3>2, RunGoes
    <3> QED
      BY <1>2, <3>1, <3>2 DEF Drops
  <2>2. TypedFiles' /\ \A e \in Downloaders : (fd'[e] = "none") = (fd[e] = "none")
    <3>1. CASE part' = Absent /\ fd' = FdsUnlinked
      BY <1>2, <3>1, NameGoes DEF Drops
    <3>2. CASE UNCHANGED <<part, fd>>
      BY <1>1, <1>2, <3>2, FilesStay DEF Drops
    <3> QED
      BY <1>2, <3>1, <3>2 DEF Drops
  <2>3. TypedDn(d)'
    <3>1. /\ dnRun[d].pc \notin Writing /\ dnRun'[d].pc \notin Writing
          /\ dnRun'[d].pc \in DnActive
          /\ dnRun'[d].pc \in Informed => dnRun[d].pc \in Informed
          /\ dnRun'[d].pc \in NotOpened => dnRun[d].pc \in NotOpened
          /\ dnRun'[d].pc = "discardState" => ~dnRun[d].resume
      BY <2>1 DEF DnActive, Informed, Receiving, Writing, NotOpened
    <3>2. (fd'[d] = "none") = (dnRun'[d].pc \notin Writing)
      BY <1>1, <2>2, <3>1 DEF TypedDn
    <3> QED
      BY <2>1, <3>1, <3>2, GoesTyped
  <2> QED
    BY <2>1, <2>2, <2>3, OneTyped
<1>3. CASE DropsState(d)
  <2>1. UNCHANGED <<part, out, fd>> /\ nextIndex' \in (Nat \ {0}) \cup {Absent, Garbled}
    BY <1>1, <1>3 DEF DropsState
  <2>2. TypedFiles' /\ fd[d] = "none"
    BY <1>1, <1>3, <2>1, FilesStay DEF DropsState, TypedDn, Writing
  <2>3. CASE DnBecomes(d, Over)
    BY <2>1, <2>2, <2>3, EndTyped
  <2>4. CASE dnRun[d].pc = "discardState" /\ Goes(d, "mode")
    <3>1. /\ dnRun'[d].pc = "mode"
          /\ dnRun'[d].resume = dnRun[d].resume /\ dnRun'[d].m = dnRun[d].m
          /\ dnRun'[d].index = dnRun[d].index /\ dnRun'[d].hashed = dnRun[d].hashed
          /\ \A e \in Downloaders \ {d} : dnRun'[e] = dnRun[e]
      BY <2>4, RunGoes
    <3>2. TypedDn(d)'
      BY <2>1, <2>2, <2>4, <3>1, GoesTyped DEF DnActive, Informed, Receiving, Writing, NotOpened
    <3> QED
      BY <2>1, <2>2, <3>1, <3>2, OneTyped
  <2> QED
    BY <1>3, <2>3, <2>4 DEF DropsState
<1>4. CASE Promotes(d)
  <2>1. /\ dnRun[d].pc = "promote" /\ Exists(part)
        /\ out' = part /\ part' = Absent /\ fd' = FdsRenamed /\ UNCHANGED nextIndex
        /\ dnRun'[d].pc = "promoted" /\ dnRun'[d].resume = dnRun[d].resume
        /\ dnRun'[d].m = dnRun[d].m /\ dnRun'[d].index = dnRun[d].index
        /\ dnRun'[d].hashed = dnRun[d].hashed
        /\ \A e \in Downloaders \ {d} : dnRun'[e] = dnRun[e]
    BY <1>4, RunGoes DEF Promotes
  <2>2. TypedFiles' /\ \A e \in Downloaders : (fd'[e] = "none") = (fd[e] = "none")
    BY <2>1, NameGoes
  <2>3. fd[d] = "none"
    BY <1>1, <2>1 DEF TypedDn, Writing
  <2>4. TypedDn(d)'
    BY <2>1, <2>2, <2>3, GoesTyped DEF DnActive, Informed, Receiving, Writing, NotOpened
  <2> QED
    BY <2>1, <2>2, <2>4, OneTyped
<1>5. CASE Quits(d)
  <2>1. DnBecomes(d, Over) /\ fd' = ClosedBy(d) /\ UNCHANGED <<part, nextIndex, out>>
    BY <1>5 DEF Quits
  <2>2. TypedFiles' /\ fd'[d] = "none" /\ \A e \in Downloaders \ {d} : fd'[e] = fd[e]
    BY <1>1, <2>1, FilesStay
  <2> QED
    BY <2>1, <2>2, EndTyped
<1> QED
  BY <1>2, <1>3, <1>4, <1>5

\* What a run becomes that hashes one more byte.
LEMMA HashesByteFields ==
  ASSUME NEW d \in Downloaders, NEW b, HashesByte(d, b)
  PROVE  /\ dnRun[d].pc = "hash" /\ UNCHANGED <<part, nextIndex, out, fd>>
         /\ dnRun'[d].pc = AfterHashingOf(d, Len(dnRun[d].hashed) + 1)
         /\ dnRun'[d].pc \in {"hash", "chunk"}
         /\ dnRun'[d].resume = dnRun[d].resume /\ dnRun'[d].m = dnRun[d].m
         /\ dnRun'[d].index = dnRun[d].index /\ dnRun'[d].hashed = Append(dnRun[d].hashed, b)
         /\ \A e \in Downloaders \ {d} : dnRun'[e] = dnRun[e]
<1> DEFINE pc == AfterHashingOf(d, Len(dnRun[d].hashed) + 1)
           h == Append(dnRun[d].hashed, b)
<1>1. /\ dnRun[d].pc = "hash" /\ UNCHANGED <<part, nextIndex, out, fd>>
      /\ dnRun'[d] = DnRun(pc, dnRun[d].resume, dnRun[d].m, dnRun[d].index, h)
      /\ \A e \in Downloaders \ {d} : dnRun'[e] = dnRun[e]
  BY DEF HashesByte, DnBecomes
<1>2. pc \in {"hash", "chunk"}
  BY DEF AfterHashingOf
<1> HIDE DEF pc, h
<1>3. /\ dnRun'[d].pc = pc /\ dnRun'[d].resume = dnRun[d].resume /\ dnRun'[d].m = dnRun[d].m
      /\ dnRun'[d].index = dnRun[d].index /\ dnRun'[d].hashed = h
  BY <1>1, RunBecomes
<1> QED
  BY <1>1, <1>2, <1>3 DEF pc, h

\* A run that resumes, and the prefix it hashes.
LEMMA ResumeTyped ==
  ASSUME DownloadsTyped, OneManifest', UNCHANGED manifest, DeliveredFollows, NEW d \in Downloaders,
         Resumes(d) \/ OpensOld(d) \/ Hashes(d)
  PROVE  DownloadsTyped'
<1>1. TypedDn(d) /\ nextIndex \in (Nat \ {0}) \cup {Absent, Garbled}
  BY DEF DownloadsTyped, TypedFiles
<1>2. CASE Resumes(d)
  <2>1. /\ dnRun[d].pc = "begin" /\ UNCHANGED <<part, nextIndex, out, fd>> /\ nextIndex \in Nat
        /\ dnRun'[d] = DnRun("mode", dnRun[d].resume, dnRun[d].m, nextIndex, dnRun[d].hashed)
        /\ \A e \in Downloaders \ {d} : dnRun'[e] = dnRun[e]
    BY <1>2 DEF Resumes, DnBecomes
  <2>2. /\ dnRun'[d].pc = "mode" /\ dnRun'[d].resume = dnRun[d].resume
        /\ dnRun'[d].m = dnRun[d].m /\ dnRun'[d].index = nextIndex
        /\ dnRun'[d].hashed = dnRun[d].hashed
    BY <2>1, RunBecomes
  <2>3. TypedFiles'
    BY <1>1, <2>1, FilesStay
  <2>4. TypedDn(d)'
    BY <1>1, <2>1, <2>2 DEF TypedDn, DnActive, Informed, Receiving, Writing, NotOpened
  <2> QED
    BY <2>1, <2>3, <2>4, OneTyped
<1>3. CASE OpensOld(d)
  <2>1. /\ dnRun[d].pc = "openOld" /\ Exists(part) /\ dnRun'[d].pc \in {"hash", "chunk"}
        /\ fd' = OpenedBy(d) /\ UNCHANGED <<part, nextIndex, out>>
        /\ dnRun'[d].resume = dnRun[d].resume /\ dnRun'[d].m = dnRun[d].m
        /\ dnRun'[d].index = dnRun[d].index /\ dnRun'[d].hashed = dnRun[d].hashed
        /\ \A e \in Downloaders \ {d} : dnRun'[e] = dnRun[e]
    BY <1>3, RunGoes DEF OpensOld, AfterHashingOf
  <2>2. TypedFiles' /\ fd'[d] = "part" /\ \A e \in Downloaders \ {d} : fd'[e] = fd[e]
    BY <1>1, <2>1, FilesStay
  <2>3. TypedDn(d)'
    BY <2>1, <2>2, GoesTyped DEF DnActive, Informed, Receiving, Writing, NotOpened
  <2> QED
    BY <2>1, <2>2, <2>3, OneTyped
<1>4. CASE Hashes(d)
  <2>1. PICK b \in Byte : HashesByte(d, b)
    BY <1>4 DEF Hashes
  <2>2. /\ dnRun[d].pc = "hash" /\ UNCHANGED <<part, nextIndex, out, fd>>
        /\ dnRun'[d].pc \in {"hash", "chunk"}
        /\ dnRun'[d].resume = dnRun[d].resume /\ dnRun'[d].m = dnRun[d].m
        /\ dnRun'[d].index = dnRun[d].index /\ dnRun'[d].hashed = Append(dnRun[d].hashed, b)
        /\ \A e \in Downloaders \ {d} : dnRun'[e] = dnRun[e]
    BY <2>1, HashesByteFields
  <2>3. Append(dnRun[d].hashed, b) \in Seq(Byte)
    BY <1>1, AppendProperties DEF TypedDn
  <2>4. TypedFiles'
    BY <1>1, <2>2, FilesStay
  <2>5. TypedDn(d)'
    BY <1>1, <2>2, <2>3 DEF TypedDn, DnActive, Informed, Receiving, Writing, NotOpened
  <2> QED
    BY <2>2, <2>4, <2>5, OneTyped
<1> QED
  BY <1>2, <1>3, <1>4

\* The chunk a run is at, and its place (receiver_download_decrypt.py:206-235).
LEMMA PieceFacts ==
  ASSUME DownloadsTyped, NEW d \in Downloaders, dnRun[d].pc = "chunk", MoreFor(d)
  PROVE  /\ PieceOf(d) \in Seq(Byte) /\ Len(PieceOf(d)) \in Nat
         /\ PlaceOf(d) \in Nat /\ PlaceOf(d) = PosOf(d) /\ dnRun[d].m = manifest
         /\ PlaceOf(d) + Len(PieceOf(d)) = OffsetBefore(manifest, dnRun[d].index + 1)
         /\ PlaceOf(d) + Len(PieceOf(d)) <= Len(manifest.plain)
         /\ \A i \in 1..Len(PieceOf(d)) : PieceOf(d)[i] = manifest.plain[PlaceOf(d) + i]
         /\ SubSeq(manifest.plain, 1, PlaceOf(d)) \o PieceOf(d)
              = SubSeq(manifest.plain, 1, PlaceOf(d) + Len(PieceOf(d)))
<1> DEFINE p == manifest.plain
           n == dnRun[d].index
           len == ChunkLength(n, Len(p))
<1>0. dnRun[d].m = manifest /\ n \in Nat
  BY DEF DownloadsTyped, TypedDn, Informed, Receiving, Writing
<1>1. /\ dnRun[d].m = manifest /\ n \in Nat /\ n + 1 \in Nat /\ manifest \in Manifest
      /\ p \in Seq(Byte) /\ Len(p) \in Nat
  <2>1. manifest \in Manifest /\ manifest.plain \in Seq(Byte) /\ Len(manifest.plain) \in Nat
    BY TypeFacts
  <2> QED
    BY <1>0, <2>1
<1>2. n < ChunkCount(Len(p)) /\ PieceOf(d) = PlainChunk(p, n, Len(p))
        /\ PlaceOf(d) = OffsetBefore(manifest, n)
  BY <1>1 DEF MoreFor, PieceOf, PlaceOf
<1>3. PlaceOf(d) = Offset(n) /\ OffsetBefore(manifest, n + 1) = Offset(n) + len
        /\ PlaceOf(d) \in Nat /\ Offset(n) + len <= Len(p)
  BY <1>1, <1>2, PrefixOfChunks
<1>4. len \in Nat
  BY <1>1, <1>2, ChunkEnds
<1>5. /\ PieceOf(d) \in Seq(Byte) /\ Len(PieceOf(d)) = len
      /\ SubSeq(p, 1, Offset(n)) \o PieceOf(d) = SubSeq(p, 1, Offset(n) + len)
  <2>1. Offset(n) + ChunkLength(n, Len(p)) <= Len(p)
    BY <1>3
  <2>2. /\ PlainChunk(p, n, Len(p)) \in Seq(Byte) /\ Len(PlainChunk(p, n, Len(p))) = len
        /\ SubSeq(p, 1, Offset(n)) \o PlainChunk(p, n, Len(p)) = SubSeq(p, 1, Offset(n) + len)
    BY <1>1, <1>2, <2>1, ChunkOfFile
  <2> QED
    BY <1>2, <2>2
<1>6. ASSUME NEW i \in 1..len PROVE PieceOf(d)[i] = p[Offset(n) + i]
  <2>1. \A j \in Offset(n) + 1..Offset(n) + len : p[j] \in Byte
    BY <1>1, <1>3, <1>4
  <2>2. PieceOf(d) = SubSeq(p, Offset(n) + 1, Offset(n) + len)
    BY <1>2 DEF PlainChunk
  <2> HIDE DEF len
  <2>3. Offset(n) \in Nat /\ len \in Nat /\ Offset(n) + len <= Len(p) /\ Len(p) \in Nat
    BY <1>1, <1>3, <1>4
  <2>4. SubSeq(p, Offset(n) + 1, Offset(n) + len)[i] = p[Offset(n) + 1 + i - 1]
    BY <1>1, <1>6, <2>1, <2>3, SubSeqProperties
  <2>5. Offset(n) + 1 + i - 1 = Offset(n) + i
    BY <1>6, <2>3
  <2> QED
    BY <2>2, <2>4, <2>5
<1>7. PlaceOf(d) = PosOf(d)
  BY <1>2 DEF PosOf
<1> QED
  BY <1>1, <1>3, <1>4, <1>5, <1>6, <1>7

\* A chunk, or a part of it, is written.
LEMMA WriteTyped ==
  ASSUME DownloadsTyped, OneManifest', UNCHANGED manifest, DeliveredFollows, NEW d \in Downloaders,
         Fetches(d) \/ BreaksOff(d)
  PROVE  DownloadsTyped'
<1>1. TypedDn(d) /\ nextIndex \in (Nat \ {0}) \cup {Absent, Garbled}
  BY DEF DownloadsTyped, TypedFiles
<1>2. dnRun[d].pc = "chunk" /\ MoreFor(d) /\ UNCHANGED nextIndex
  BY DEF Fetches, BreaksOff
<1>3. PieceOf(d) \in Seq(Byte) /\ PlaceOf(d) \in Nat
  BY <1>2, PieceFacts
<1>4. CASE Fetches(d)
  <2> DEFINE h == dnRun[d].hashed \o PieceOf(d)
  <2>1. /\ DnWrites(d, PieceOf(d)) /\ fd' = fd
        /\ dnRun'[d] = DnRun("save", dnRun[d].resume, dnRun[d].m, dnRun[d].index, h)
        /\ \A e \in Downloaders \ {d} : dnRun'[e] = dnRun[e]
    BY <1>4 DEF Fetches, DnBecomes
  <2>2. h \in Seq(Byte) /\ dnRun[d].m = manifest /\ fd[d] # "none" /\ dnRun[d].resume \in BOOLEAN
    BY <1>1, <1>2, <1>3 DEF TypedDn, Informed, Receiving, Writing
  <2> HIDE DEF h
  <2>3. /\ dnRun'[d].pc = "save" /\ dnRun'[d].resume = dnRun[d].resume
        /\ dnRun'[d].m = dnRun[d].m /\ dnRun'[d].index = dnRun[d].index
        /\ dnRun'[d].hashed = h
    BY <2>1, RunBecomes
  <2>4. TypedFiles'
    <3>1. /\ part' \in File \cup {Absent} /\ out' \in File \cup {Absent}
          /\ Exists(part) => Exists(part')
          /\ Exists(out) => Exists(out')
      BY <1>3, <2>1, WritesFiles
    <3> QED
      BY <1>1, <1>2, <2>1, <3>1, FilesTyped
  <2>5. TypedDn(d)'
    <3>1. dnRun'[d].resume \in BOOLEAN /\ dnRun'[d].index \in Nat
      BY <1>1, <2>2, <2>3 DEF TypedDn
    <3> QED
      BY <2>1, <2>2, <2>3, <3>1 DEF TypedDn, DnActive, Informed, Receiving, Writing, NotOpened
  <2> QED
    BY <2>1, <2>4, <2>5, OneTyped
<1>5. CASE BreaksOff(d)
  <2>1. PICK n \in 1..Len(PieceOf(d)) : DnWrites(d, SubSeq(PieceOf(d), 1, n))
    BY <1>5 DEF BreaksOff
  <2>2. SubSeq(PieceOf(d), 1, n) \in Seq(Byte)
    BY <1>3, <2>1, FirstPiece
  <2>3. fd' = ClosedBy(d) /\ (DnBecomes(d, Over) \/ Goes(d, "fail"))
    BY <1>5 DEF BreaksOff
  <2>4. TypedFiles' /\ fd'[d] = "none" /\ \A e \in Downloaders \ {d} : fd'[e] = fd[e]
    <3>1. /\ part' \in File \cup {Absent} /\ out' \in File \cup {Absent}
          /\ Exists(part) => Exists(part')
          /\ Exists(out) => Exists(out')
      BY <1>3, <2>1, <2>2, WritesFiles
    <3> QED
      BY <1>1, <1>2, <2>3, <3>1, FilesTyped
  <2>5. CASE DnBecomes(d, Over)
    BY <2>4, <2>5, EndTyped
  <2>6. CASE Goes(d, "fail")
    <3>1. /\ dnRun'[d].pc = "fail"
          /\ dnRun'[d].resume = dnRun[d].resume /\ dnRun'[d].m = dnRun[d].m
          /\ dnRun'[d].index = dnRun[d].index /\ dnRun'[d].hashed = dnRun[d].hashed
          /\ \A e \in Downloaders \ {d} : dnRun'[e] = dnRun[e]
      BY <2>6, RunGoes
    <3>2. TypedDn(d)'
      BY <2>4, <3>1, GoesTyped DEF DnActive, Informed, Receiving, Writing, NotOpened
    <3> QED
      BY <2>4, <3>1, <3>2, OneTyped
  <2> QED
    BY <2>3, <2>5, <2>6
<1> QED
  BY <1>4, <1>5

\* A run that has counted a chunk goes on with the next one.
LEMMA CountTyped ==
  ASSUME DownloadsTyped, UNCHANGED manifest, NEW d \in Downloaders,
         dnRun[d].pc = "save", dnRun'[d] = Counted(d), fd'[d] = fd[d]
  PROVE  /\ TypedDn(d)'
         /\ dnRun'[d].pc = "chunk" /\ dnRun'[d].resume = dnRun[d].resume
         /\ dnRun'[d].m = dnRun[d].m /\ dnRun'[d].index = dnRun[d].index + 1
         /\ dnRun'[d].hashed = dnRun[d].hashed
<1> DEFINE next == dnRun[d].index + 1
<1>1. TypedDn(d)
  BY DEF DownloadsTyped
<1>2. dnRun'[d] = DnRun("chunk", dnRun[d].resume, dnRun[d].m, next, dnRun[d].hashed)
  BY DEF Counted
<1>3. /\ dnRun[d].resume \in BOOLEAN /\ dnRun[d].m = manifest /\ next \in Nat
      /\ dnRun[d].hashed \in Seq(Byte) /\ fd[d] # "none"
  BY <1>1 DEF TypedDn, Informed, Receiving, Writing
<1> HIDE DEF next
<1>4. /\ dnRun'[d].pc = "chunk" /\ dnRun'[d].resume = dnRun[d].resume
      /\ dnRun'[d].m = dnRun[d].m /\ dnRun'[d].index = next
      /\ dnRun'[d].hashed = dnRun[d].hashed
  BY <1>2, RunBecomes
<1>5. dnRun'[d].resume \in BOOLEAN
  BY <1>3, <1>4
<1>6. TypedDn(d)'
  BY <1>3, <1>4, <1>5 DEF TypedDn, DnActive, Informed, Receiving, Writing, NotOpened
<1> QED
  BY <1>4, <1>6 DEF next

\* The state file is saved, by one run or by both at a time.
LEMMA SaveTyped ==
  ASSUME DownloadsTyped, OneManifest', UNCHANGED manifest, DeliveredFollows, NEW d \in Downloaders,
         Saves(d) \/ Collides(d)
  PROVE  DownloadsTyped'
<1>1. /\ \A e \in Downloaders : TypedDn(e)
      /\ fd \in [Clients -> {"part", "out", "gone", "none"}]
  BY DEF DownloadsTyped, TypedFiles
<1>2. dnRun[d].pc = "save" /\ dnRun'[d] = Counted(d) /\ UNCHANGED <<part, out>>
        /\ nextIndex' \in (Nat \ {0}) \cup {Absent, Garbled}
  BY <1>1 DEF Saves, Collides, DnBecomes, TypedDn
<1>3. CASE Saves(d)
  <2>1. fd' = fd /\ \A e \in Downloaders \ {d} : dnRun'[e] = dnRun[e]
    BY <1>3 DEF Saves, DnBecomes
  <2>2. TypedFiles' /\ TypedDn(d)'
    BY <1>2, <2>1, FilesStay, CountTyped
  <2> QED
    BY <2>1, <2>2, OneTyped
<1>4. CASE Collides(d)
  <2>1. PICK e \in Downloaders \ {d} : Downloaders = {d, e}
    BY TwoDownloaders DEF Downloaders
  <2>2. /\ dnRun[e].pc = "save" /\ fd' = ClosedBy(e)
        /\ dnRun'[e] = DnRun("fail", dnRun[e].resume, dnRun[e].m, dnRun[e].index, dnRun[e].hashed)
    BY <1>4, <2>1 DEF Collides
  <2>3. TypedFiles' /\ fd'[e] = "none" /\ fd'[d] = fd[d]
    BY <1>2, <2>1, <2>2, FilesStay
  <2>4. TypedDn(d)'
    BY <1>2, <2>3, CountTyped
  <2>5. TypedDn(e)'
    <3>1. /\ dnRun'[e].pc = "fail"
          /\ dnRun'[e].resume = dnRun[e].resume /\ dnRun'[e].m = dnRun[e].m
          /\ dnRun'[e].index = dnRun[e].index /\ dnRun'[e].hashed = dnRun[e].hashed
      BY <2>2, RunBecomes
    <3> QED
      BY <2>3, <3>1, GoesTyped DEF DnActive, Informed, Receiving, Writing, NotOpened
  <2> QED
    BY <2>1, <2>3, <2>4, <2>5 DEF DownloadsTyped
<1> QED
  BY <1>3, <1>4

\* The host loses power, the user removes the output, or nothing is done.
LEMMA NoRunTyped ==
  ASSUME DownloadsTyped, OneManifest', UNCHANGED manifest, DeliveredFollows,
         LosesPower \/ TakesOutput \/ NothingDone
  PROVE  DownloadsTyped'
<1>1. /\ fd \in [Clients -> {"part", "out", "gone", "none"}] /\ Downloaders \subseteq Clients
      /\ part \in File \cup {Absent} /\ out \in File \cup {Absent}
      /\ nextIndex \in (Nat \ {0}) \cup {Absent, Garbled}
      /\ \A d \in Downloaders : (fd[d] = "part" => Exists(part)) /\ (fd[d] = "out" => Exists(out))
      /\ delivered \subseteq Seq(Byte)
  BY TwoDownloaders DEF DownloadsTyped, TypedFiles
<1>2. delivered' \subseteq Seq(Byte)
  BY <1>1, TypeFacts DEF DeliveredFollows
<1>3. CASE LosesPower
  <2>1. /\ part' \in Torn(part) /\ out' \in Torn(out)
        /\ nextIndex' \in Unsynced(nextIndex) /\ fd' = [c \in Clients |-> "none"]
        /\ \A d \in Downloaders : dnRun'[d] = Over
    BY <1>3 DEF LosesPower, DnDiskLosesPower
  <2>2. part' \in File \cup {Absent} /\ out' \in File \cup {Absent}
    BY <1>1, <2>1, TornFile
  <2>3. \A d \in Downloaders : fd'[d] = "none" /\ TypedDn(d)'
    BY <1>1, <2>1, OverTyped
  <2>4. TypedFiles'
    BY <1>1, <1>2, <2>1, <2>2, <2>3 DEF TypedFiles, Unsynced
  <2> QED
    BY <2>3, <2>4 DEF DownloadsTyped
<1>4. CASE TakesOutput
  <2>1. /\ out' = Absent /\ UNCHANGED <<part, nextIndex, dnRun>>
        /\ fd' = [c \in Clients |-> IF fd[c] = "out" THEN "gone" ELSE fd[c]]
    BY <1>4 DEF TakesOutput
  <2>2. /\ fd' \in [Clients -> {"part", "out", "gone", "none"}]
        /\ \A d \in Downloaders : fd'[d] = IF fd[d] = "out" THEN "gone" ELSE fd[d]
    BY <1>1, <2>1
  <2>3. \A d \in Downloaders :
            (fd'[d] = "part" => Exists(part')) /\ (fd'[d] = "out" => Exists(out'))
    BY <1>1, <2>1, <2>2 DEF Exists
  <2>4. TypedFiles'
    BY <1>1, <1>2, <2>1, <2>2, <2>3 DEF TypedFiles
  <2>5. \A d \in Downloaders : TypedDn(d)'
    BY <2>1, <2>2 DEF DownloadsTyped, TypedDn
  <2> QED
    BY <2>4, <2>5 DEF DownloadsTyped
<1>5. CASE NothingDone
  <2>1. UNCHANGED <<part, nextIndex, out, fd, dnRun>>
    BY <1>5 DEF NothingDone
  <2>2. TypedFiles'
    BY <1>1, <1>2, <2>1 DEF TypedFiles, Exists
  <2>3. \A d \in Downloaders : TypedDn(d)'
    BY <2>1 DEF DownloadsTyped, TypedDn
  <2> QED
    BY <2>2, <2>3 DEF DownloadsTyped
<1> QED
  BY <1>3, <1>4, <1>5

\* The broker goes on with the manifest it has: what is on its way is a chunk.
LEMMA ManifestStays ==
  ASSUME OneManifest, BrokerGoesOn
  PROVE  OneManifest' /\ UNCHANGED manifest
<1>1. CASE UNCHANGED <<store, stray>> /\ connected' \subseteq connected \cup Downloaders
  BY <1>1, TwoDownloaders DEF OneManifest, BrokerInv, BrokerTypeOK, store
<1>2. CASE ServeStray
  <2>1. BrokerInv' /\ stray' \subseteq stray
    BY <1>2, BrokerStepInv DEF OneManifest, BrokerOwnStep
  <2>2. UNCHANGED manifest
    BY <1>2 DEF ServeStray, Serve, StoreChunk, OneManifest
  <2> QED
    BY <2>1, <2>2 DEF OneManifest
<1> QED
  BY <1>1, <1>2 DEF BrokerGoesOn

\* Every step keeps the types.
LEMMA DownloadsStayTyped ==
  ASSUME DownloadsTyped, DownloadsStep
  PROVE  DownloadsTyped'
<1>1. OneManifest' /\ UNCHANGED manifest /\ DeliveredFollows
  BY ManifestStays DEF DownloadsTyped, DownloadsStep
<1>2. ASSUME NEW d \in Downloaders, DnActs(d) PROVE DownloadsTyped'
  BY <1>1, <1>2, SimpleTyped, StartTyped, DropTyped, ResumeTyped, WriteTyped, SaveTyped DEF DnActs
<1> QED
  BY <1>1, <1>2, NoRunTyped DEF DownloadsStep

\* Every step of the two programs is one of those, and so is none at all.
LEMMA DownloadsMoves ==
  ASSUME [DownloadsNext]_downloadsVars
  PROVE  DownloadsStep
<1> SUFFICES ASSUME UNCHANGED downloadsVars PROVE DownloadsStep
  BY DownloadsSteps
<1>1. UNCHANGED <<dnDisk, firstDn, secondDn, brokerVars>>
  BY DEF downloadsVars
<1>2. UNCHANGED <<part, nextIndex, out, fd, delivered, store, stray, connected>>
  BY <1>1 DEF dnDisk, brokerVars
<1>3. UNCHANGED dnRun
  BY <1>1 DEF firstDn, secondDn, dnLocal, dnLocal2, dnRun
<1> QED
  BY <1>2, <1>3 DEF DownloadsStep, NothingDone, DeliveredFollows, BrokerGoesOn

\* In the beginning everything is published, the output is not there, and the one
\* request on its way is of a chunk.
LEMMA DownloadsBeginTyped ==
  ASSUME MaxStray # 0, DownloadsInit
  PROVE  /\ DownloadsTyped /\ ~Exists(part) /\ ~Exists(out)
         /\ \A d \in Downloaders : dnRun[d] = Over
<1>1. PICK dek \in Deks, f \in Inputs : Published([dek |-> dek, plain |-> f])
  BY DEF DownloadsInit
<1> DEFINE m == [dek |-> dek, plain |-> f]
           last == ChunkCount(Len(f)) - 1
<1>2. f \in Seq(Byte) /\ Len(f) \in Nat /\ Len(f) > 0 /\ m \in Manifest /\ m.plain = f
        /\ m.dek = dek
  <2>1. f \in Seq(Byte) /\ f # <<>>
    BY FormatAssumption
  <2> QED
    BY <2>1, EmptySeq DEF Manifest
<1>3. ASSUME NEW i \in Nat, i < ChunkCount(Len(f)) PROVE Listed(m, i) \in Ciphertext
  <2>1. Offset(i) + ChunkLength(i, Len(f)) <= Len(f)
    BY <1>2, <1>3, ChunkEnds
  <2>2. PlainChunk(f, i, Len(f)) \in Seq(Byte)
    BY <1>2, <1>3, <2>1, ChunkOfFile
  <2> QED
    BY <1>2, <2>2 DEF Listed, Encrypt, Ciphertext
<1>4. last \in Nat /\ last \in Indices
  <2>1. Offset(0) = 0 /\ ChunkCount(Len(f)) \in Nat /\ 0 < ChunkCount(Len(f))
    BY <1>2, ChunkCounted, FormatAssumption DEF Offset
  <2>2. last \in Nat /\ last < ChunkCount(Len(f))
    BY <2>1
  <2> QED
    BY <2>2, ChunkIndex
<1>5. \A i \in Indices : i \in Nat
  <2>1. \A g \in Inputs : ChunkCount(Len(g)) \in Nat
    BY ChunkCounted, FormatAssumption
  <2> QED
    BY <2>1 DEF Indices
<1>6. Late(dek, last) \in PutChunk /\ Late(dek, last).cmd = "PUT_CHUNK"
  BY <1>4, FilesAssumption DEF Late, PutChunk, Encrypt, Ciphertext
<1>7. /\ manifest = m /\ signature = "valid" /\ connected = {} /\ stray = {Late(dek, last)}
      /\ chunks = [i \in Indices |-> IF i < ChunkCount(Len(f)) THEN Listed(m, i) ELSE Absent]
  BY <1>1, <1>2 DEF Published
<1>8. BrokerInv
  <2>1. chunks \in [Indices -> Ciphertext \cup {Absent, Garbled}]
    BY <1>3, <1>5, <1>7
  <2>2. IsFiniteSet(stray) /\ Cardinality(stray) = 1
    BY <1>7, FS_Singleton
  <2>3. stray \subseteq Put
    BY <1>6, <1>7 DEF Put
  <2> QED
    BY <1>2, <1>7, <2>1, <2>2, <2>3, BrokerAssumption DEF BrokerInv, BrokerTypeOK
<1>9. OneManifest
  BY <1>2, <1>6, <1>7, <1>8 DEF OneManifest
<1>10. /\ part = Absent /\ nextIndex = Absent /\ out = Absent /\ fd = [c \in Clients |-> "none"]
       /\ delivered = {}
       /\ dnPc = "off" /\ dnResume = FALSE /\ dnManifest = Absent /\ dnIndex = 0 /\ dnHashed = <<>>
       /\ dnPc2 = "off" /\ dnResume2 = FALSE /\ dnManifest2 = Absent /\ dnIndex2 = 0
       /\ dnHashed2 = <<>>
  BY DEF DownloadsInit, DnInit, SecondDn!DnInit
<1>11. \A d \in Downloaders : dnRun[d] = Over
  BY <1>10, TwoDownloaders DEF Over
<1>12. TypedFiles /\ ~Exists(part) /\ ~Exists(out)
  BY <1>10, TwoDownloaders DEF TypedFiles, Exists
<1>13. ASSUME NEW d \in Downloaders PROVE TypedDn(d)
  <2>1. /\ dnRun[d].pc = "off" /\ dnRun[d].resume \in BOOLEAN /\ dnRun[d].m = Absent
        /\ dnRun[d].index = 0 /\ dnRun[d].hashed = <<>> /\ fd[d] = "none"
    BY <1>10, <1>11, TwoDownloaders, OverFields
  <2> QED
    BY <2>1 DEF TypedDn, Idle, Informed, Receiving, Writing, NotOpened
<1> QED
  BY <1>9, <1>11, <1>12, <1>13 DEF DownloadsTyped

\* The types of the runs and the files are those of the specification.
LEMMA TypesAgree ==
  ASSUME DownloadsTyped
  PROVE  DownloadsTypeOK
<1>1. TypedDn(Downloader) /\ TypedDn(Downloader2) /\ TypedFiles /\ OneManifest
  BY TwoDownloaders DEF DownloadsTyped
<1>2. /\ dnPc \in Idle \cup DnActive /\ dnResume \in BOOLEAN /\ dnManifest \in {Absent, manifest}
      /\ dnIndex \in Nat /\ dnHashed \in Seq(Byte)
      /\ (fd[Downloader] = "none") = (dnPc \notin Writing)
  BY <1>1, TwoDownloaders, DnRunFields DEF TypedDn
<1>3. /\ dnPc2 \in Idle \cup DnActive /\ dnResume2 \in BOOLEAN /\ dnManifest2 \in {Absent, manifest}
      /\ dnIndex2 \in Nat /\ dnHashed2 \in Seq(Byte)
      /\ (fd[Downloader2] = "none") = (dnPc2 \notin Writing)
  BY <1>1, TwoDownloaders, DnRunFields DEF TypedDn
<1>4. DnTypeOK
  BY <1>1, <1>2 DEF DnTypeOK, TypedFiles, OneManifest
<1>5. SecondDn!DnTypeOK
  BY <1>1, <1>3
  DEF SecondDn!DnTypeOK, TypedFiles, OneManifest, SecondDn!File, File, SecondDn!Manifest, Manifest,
      SecondDn!Idle, Idle, SecondDn!DnActive, DnActive, SecondDn!Receiving, Receiving,
      SecondDn!Writing, Writing
<1> QED
  BY <1>1, <1>4, <1>5 DEF DownloadsTypeOK, OneManifest, BrokerInv

(***************************************************************************)
(* Every reachable state of the two downloads has the declared types.      *)
(***************************************************************************)
THEOREM DownloadsTypeCorrect ==
  ASSUME MaxStray # 0
  PROVE  DownloadsSpec => []DownloadsTypeOK
<1>1. DownloadsTyped /\ [DownloadsNext]_downloadsVars => DownloadsTyped'
  BY DownloadsMoves, DownloadsStayTyped
<1>2. DownloadsInit => DownloadsTyped
  BY DownloadsBeginTyped
<1>3. DownloadsTyped => DownloadsTypeOK
  BY TypesAgree
<1> QED
  BY <1>1, <1>2, <1>3, PTL DEF DownloadsSpec
-----------------------------------------------------------------------------
(* Two downloads: the partial file under the writes of both runs.          *)

\* g is what becomes of file f when content of the manifest is written to its
\* place, or the file is synced.
Grown(f, g) ==
  /\ g \in File
  /\ Len(f.data) <= Len(g.data) /\ Len(g.data) <= Len(manifest.plain)
  /\ \A i \in 1..Len(f.data) : g.data[i] = f.data[i] \/ g.data[i] = manifest.plain[i]
  /\ g.synced = f.synced \/ g.synced = Len(g.data)

\* When a piece of the manifest's content is written to its place, the file grows
\* and has the piece.
LEMMA PieceWritten ==
  ASSUME manifest.plain \in Seq(Byte), NEW f \in File, Len(f.data) <= Len(manifest.plain),
         NEW off \in Nat, NEW c \in Seq(Byte), off + Len(c) <= Len(manifest.plain),
         \A i \in 1..Len(c) : c[i] = manifest.plain[off + i]
  PROVE  /\ Grown(f, WriteAt(f, off, c))
         /\ off + Len(c) <= Len(WriteAt(f, off, c).data)
         /\ \A i \in off + 1..off + Len(c) : WriteAt(f, off, c).data[i] = manifest.plain[i]
<1> DEFINE w == WriteAt(f, off, c)
           p == manifest.plain
<1>1. /\ w \in File /\ w.synced = f.synced
      /\ Len(w.data) = IF Len(f.data) > off + Len(c) THEN Len(f.data) ELSE off + Len(c)
      /\ \A i \in 1..Len(w.data) :
           w.data[i] = IF i \in off+1..off+Len(c) THEN c[i - off]
                       ELSE IF i <= Len(f.data) THEN f.data[i] ELSE Zero
  BY WriteAnywhere
<1> HIDE DEF w
<1>2. Len(f.data) \in Nat /\ Len(c) \in Nat /\ Len(p) \in Nat /\ Len(w.data) \in Nat
  BY <1>1 DEF File
<1>3. /\ Len(f.data) <= Len(w.data) /\ Len(w.data) <= Len(p)
      /\ off + Len(c) <= Len(w.data)
  BY <1>1, <1>2
<1>4. ASSUME NEW i \in off + 1..off + Len(c) PROVE w.data[i] = p[i]
  <2>1. i - off \in 1..Len(c) /\ i \in 1..Len(w.data) /\ off + (i - off) = i
    BY <1>2, <1>3, <1>4
  <2>2. w.data[i] = c[i - off]
    BY <1>1, <1>4, <2>1
  <2> QED
    BY <2>1, <2>2
<1>5. ASSUME NEW i \in 1..Len(f.data) PROVE w.data[i] = f.data[i] \/ w.data[i] = p[i]
  <2>1. i \in 1..Len(w.data) /\ i <= Len(f.data)
    BY <1>2, <1>3, <1>5
  <2> QED
    BY <1>1, <1>4, <2>1
<1>6. Grown(f, w)
  BY <1>1, <1>3, <1>5 DEF Grown
<1> QED
  BY <1>3, <1>4, <1>6 DEF w

\* A file that is all of it stays so.
LEMMA GrownWhole ==
  ASSUME manifest.plain \in Seq(Byte), NEW f \in File, NEW g, Grown(f, g), Whole(f)
  PROVE  Whole(g)
<1> DEFINE p == manifest.plain
<1>1. g.data \in Seq(Byte) /\ Len(p) \in Nat /\ Len(g.data) \in Nat /\ f.data = p
  BY DEF Grown, File, Whole
<1>2. Len(g.data) = Len(p)
  BY <1>1 DEF Grown
<1>3. \A i \in 1..Len(p) : g.data[i] = p[i]
  BY <1>1 DEF Grown
<1>4. g.data = p
  BY <1>1, <1>2, <1>3, SeqEqual
<1>5. PowerMayFail => g.synced = Len(g.data)
  BY <1>1, <1>2 DEF Grown, Whole
<1> QED
  BY <1>4, <1>5 DEF Whole

\* What it begins with it keeps.
LEMMA GrownAlike ==
  ASSUME manifest.plain \in Seq(Byte), part \in File, Grown(part, part'), NEW n \in Nat,
         Alike(n), UNCHANGED manifest
  PROVE  Alike(n)'
<1>1. part'.data \in Seq(Byte) /\ Len(part'.data) \in Nat /\ Len(part.data) \in Nat
  BY DEF Grown, File
<1>2. n <= Len(part'.data)
  BY <1>1 DEF Grown, Alike
<1>3. ASSUME NEW i \in 1..n PROVE part'.data[i] = manifest.plain[i]
  <2>1. i \in 1..Len(part.data)
    BY <1>1 DEF Alike
  <2> QED
    BY <2>1 DEF Grown, Alike
<1> QED
  BY <1>2, <1>3 DEF Alike

\* Nothing done to it, or only synced.
LEMMA GrownSame ==
  ASSUME NEW f \in File, Len(f.data) <= Len(manifest.plain)
  PROVE  Grown(f, f) /\ Grown(f, Synced(f))
<1>1. Len(f.data) \in Nat
  BY DEF File
<1> QED
  BY <1>1, SyncedFile DEF Grown
-----------------------------------------------------------------------------
(* Two downloads: a run that looks on while the other one takes a step.    *)

\* What the invariant says of manifest and files.
LEMMA ManifestFacts ==
  ASSUME DownloadsInv
  PROVE  /\ manifest \in Manifest /\ manifest.plain \in Seq(Byte) /\ Len(manifest.plain) \in Nat
         /\ Len(manifest.plain) > 0
         /\ \A n \in Nat \ {0} : OffsetBefore(manifest, n) > 0
         /\ \A n \in Nat : OffsetBefore(manifest, n) \in Nat
                            /\ OffsetBefore(manifest, n) <= Len(manifest.plain)
         /\ Exists(part) => part \in File /\ Len(part.data) <= Len(manifest.plain)
                              /\ Len(part.data) \in Nat
         /\ Exists(out) => out \in File /\ Whole(out)
<1> DEFINE p == manifest.plain
<1>1. manifest \in Manifest /\ p \in Inputs /\ p \in Seq(Byte) /\ Len(p) \in Nat
  BY FormatAssumption DEF DownloadsInv, DownloadsTyped, OneManifest
<1>2. Len(p) > 0
  BY <1>1, FormatAssumption, EmptySeq
<1>3. \A n \in Nat : OffsetBefore(manifest, n) \in Nat /\ OffsetBefore(manifest, n) <= Len(p)
  BY <1>1, PrefixOfChunks
<1>4. ASSUME NEW n \in Nat \ {0} PROVE OffsetBefore(manifest, n) > 0
  <2>1. Offset(0) = 0 /\ Offset(0) < Offset(n) /\ Offset(n) \in Nat
    BY OffsetOrder, OffsetSteps, FormatAssumption DEF Offset
  <2> QED
    BY <1>1, <1>2, <2>1 DEF OffsetBefore
<1>5. part \in File \cup {Absent} /\ out \in File \cup {Absent} /\ PartFits /\ OutputWhole
  BY DEF DownloadsInv, DownloadsTyped, TypedFiles
<1>6. Exists(part) => part \in File /\ Len(part.data) <= Len(p) /\ Len(part.data) \in Nat
  BY <1>5 DEF Exists, PartFits, File
<1>7. Exists(out) => out \in File /\ Whole(out)
  BY <1>5 DEF Exists, OutputWhole
<1> QED
  BY <1>1, <1>2, <1>3, <1>4, <1>6, <1>7

\* Where a run is in the file.
LEMMA PosOfRun ==
  ASSUME DownloadsInv, NEW d \in Downloaders
  PROVE  PosOf(d) \in Nat /\ PosOf(d) <= Len(manifest.plain)
<1>1. /\ dnRun[d].index \in Nat /\ dnRun[d].index + 1 \in Nat
      /\ dnRun[d].hashed \in Seq(Byte) /\ Len(dnRun[d].hashed) \in Nat
  BY DEF DownloadsInv, DownloadsTyped, TypedDn
<1>2. dnRun[d].pc = "hash" => Len(dnRun[d].hashed) < OffsetBefore(manifest, dnRun[d].index)
  BY DEF DownloadsInv, DnSound, HashedIsThere, Writing
<1>3. CASE dnRun[d].pc = "hash"
  <2>1. /\ OffsetBefore(manifest, dnRun[d].index) \in Nat
        /\ OffsetBefore(manifest, dnRun[d].index) <= Len(manifest.plain)
        /\ Len(manifest.plain) \in Nat
    BY <1>1, ManifestFacts
  <2> QED
    BY <1>1, <1>2, <1>3, <2>1 DEF PosOf
<1>4. CASE dnRun[d].pc # "hash"
  BY <1>1, <1>4, ManifestFacts DEF PosOf
<1> QED
  BY <1>3, <1>4

\* A run that does not take the step keeps its locals and its open file.  Of the
\* partial file it sees that it is gone, or has grown, or it does not look.
Aside(e) ==
  /\ dnRun'[e] = dnRun[e]
  /\ (fd'[e] = "none") = (fd[e] = "none")
  /\ \/ ~Exists(part')
     \/ fd'[e] = fd[e] /\ Exists(part) /\ Grown(part, part')
     \/ dnRun[e].pc \notin Receiving \cup {"mode", "openNew"}

\* What holds for it then still holds.
LEMMA Looker ==
  ASSUME DownloadsInv, NEW e \in Downloaders, Aside(e), UNCHANGED manifest
  PROVE  DnSound(e)'
<1> DEFINE r == dnRun[e]
<1>1. /\ dnRun'[e] = r /\ manifest' = manifest /\ (fd'[e] = "none") = (fd[e] = "none")
      /\ DnSound(e) /\ PosOf(e)' = PosOf(e) /\ PosOf(e) \in Nat
  BY PosOfRun DEF Aside, DownloadsInv, PosOf
<1>2. CASE ~Exists(part')
  <2>1. WritesPart(e)'
    BY <1>2 DEF WritesPart
  <2>2. HashedIsThere(e)'
    BY <1>1, <1>2 DEF HashedIsThere, DnSound
  <2>3. CheckedIsWhole(e)' /\ NeverEmpties(e)'
    BY <1>2 DEF CheckedIsWhole, NeverEmpties
  <2> QED
    BY <2>1, <2>2, <2>3 DEF DnSound
<1>3. CASE fd'[e] = fd[e] /\ Exists(part) /\ Grown(part, part')
  <2>1. part \in File /\ manifest.plain \in Seq(Byte) /\ Len(part.data) \in Nat
    BY <1>3, ManifestFacts
  <2>2. WritesPart(e)'
    BY <1>1, <1>3 DEF WritesPart, DnSound
  <2>3. HashedIsThere(e)'
    BY <1>1, <1>3, <2>1, GrownAlike DEF HashedIsThere, DnSound
  <2>4. Whole(part) => Whole(part)'
    <3>1. Whole(part) => Whole(part')
      BY <1>3, <2>1, GrownWhole
    <3> QED
      BY <1>1, <3>1 DEF Whole
  <2>5. CheckedIsWhole(e)'
    BY <1>1, <1>3, <2>4 DEF CheckedIsWhole, DnSound
  <2>6. part.data # <<>> => part'.data # <<>>
    <3>1. part.data # <<>> => Len(part.data) > 0
      BY <2>1, EmptySeq DEF File
    <3>2. part'.data = <<>> => Len(part'.data) = 0
      BY EmptySeq DEF Grown, File
    <3> QED
      BY <1>3, <3>1, <3>2 DEF Grown
  <2>7. NeverEmpties(e)'
    BY <1>1, <1>3, <2>6 DEF NeverEmpties, DnSound
  <2> QED
    BY <2>2, <2>3, <2>5, <2>7 DEF DnSound
<1>4. CASE r.pc \notin Receiving \cup {"mode", "openNew"}
  BY <1>1, <1>4 DEF DnSound, WritesPart, HashedIsThere, CheckedIsWhole, NeverEmpties,
                          Receiving, Writing
<1> QED
  BY <1>2, <1>3, <1>4 DEF Aside

\* Where a run has nothing to do with the partial file there is nothing to show.
LEMMA NotReceiving ==
  ASSUME NEW d, dnRun'[d].pc \in Idle \cup {"manifest", "begin", "discardState", "openOld",
                                            "promoted", "fail", "failState"}
  PROVE  DnSound(d)'
BY DEF DnSound, WritesPart, HashedIsThere, CheckedIsWhole, NeverEmpties, Idle, Writing

\* A step of one run that leaves partial file and output what they are.
LEMMA FilesKept ==
  ASSUME DownloadsInv, NEW d \in Downloaders, UNCHANGED <<manifest, part, out>>,
         fd' \in {fd, ClosedBy(d)} \/ (fd' = OpenedBy(d) /\ Exists(part)),
         \A e \in Downloaders \ {d} : dnRun'[e] = dnRun[e]
  PROVE  PartFits' /\ OutputWhole' /\ \A e \in Downloaders \ {d} : Aside(e)
<1>1. /\ fd \in [Clients -> {"part", "out", "gone", "none"}] /\ Downloaders \subseteq Clients
      /\ PartFits /\ OutputWhole
  BY TwoDownloaders DEF DownloadsInv, DownloadsTyped, TypedFiles
<1>2. \A e \in Downloaders \ {d} : fd'[e] = fd[e]
  BY <1>1 DEF ClosedBy, OpenedBy
<1>3. PartFits' /\ OutputWhole'
  BY <1>1 DEF PartFits, OutputWhole, Exists, Whole
<1>4. Exists(part) => Grown(part, part')
  BY ManifestFacts, GrownSame
<1> QED
  BY <1>2, <1>3, <1>4 DEF Aside, Exists

\* A step that ends in a state outside the opening of the partial file, and takes
\* the partial file from no run that receives.
LEMMA ApartLater ==
  ASSUME DownloadsInv, FreshAlone, NEW d \in Downloaders, NEW e \in Downloaders \ {d},
         dnRun'[e] = dnRun[e], dnRun'[d].pc \notin NotOpened,
         dnRun[d].pc \notin Idle \/ dnRun'[d].pc \in Idle,
         dnRun'[d].pc \in Receiving /\ ~Exists(part') =>
           dnRun[d].pc \in Receiving /\ ~Exists(part)
  PROVE  Apart(d, e)' /\ Apart(e, d)'
<1>1. Apart(d, e) /\ Apart(e, d)
  BY DEF DownloadsInv
<1>2. ~Discarding(dnRun'[d].pc, dnRun'[d].resume) /\ dnRun'[d].pc \notin Opening
        /\ dnRun'[d].pc \notin {"mode", "openNew"}
  BY DEF NotOpened, Discarding, Opening
<1>3. Discarding(dnRun[e].pc, dnRun[e].resume) => dnRun'[d].pc \in Idle
  BY <1>1 DEF Apart
<1>4. Apart(d, e)'
  BY <1>1, <1>2 DEF Apart
<1>5. Apart(e, d)'
  BY <1>1, <1>2, <1>3 DEF Apart
<1> QED
  BY <1>4, <1>5

\* A step before the partial file is looked at.
LEMMA ApartBefore ==
  ASSUME DownloadsInv, FreshAlone, NEW d \in Downloaders, NEW e \in Downloaders \ {d},
         dnRun'[e] = dnRun[e], dnRun'[d].pc \in {"manifest", "begin", "discardState"},
         Discarding(dnRun'[d].pc, dnRun'[d].resume) => dnRun[e].pc \in Idle,
         ~Discarding(dnRun[e].pc, dnRun[e].resume)
  PROVE  Apart(d, e)' /\ Apart(e, d)'
<1>1. Apart(d, e) /\ Apart(e, d)
  BY DEF DownloadsInv
<1>2. dnRun'[d].pc \notin Opening /\ dnRun'[d].pc \notin {"mode", "openNew"}
        /\ dnRun'[d].pc \notin Receiving
  BY DEF Opening, Receiving, Writing
<1>3. Apart(d, e)'
  BY <1>2 DEF Apart
<1>4. Apart(e, d)'
  BY <1>2 DEF Apart
<1> QED
  BY <1>3, <1>4

\* A step of one run keeps the invariant if it keeps what is said of that run, of
\* the files and of how far apart the runs are, and leaves the other one aside.
LEMMA OneKeeps ==
  ASSUME DownloadsInv, DownloadsTyped', UNCHANGED manifest, NEW d \in Downloaders,
         PartFits', OutputWhole', DnSound(d)',
         \A e \in Downloaders \ {d} : Aside(e) /\ Apart(d, e)' /\ Apart(e, d)'
  PROVE  DownloadsInv'
<1>1. \A e \in Downloaders : DnSound(e)'
  BY Looker
<1>2. \A e, f \in Downloaders : e # f => e = d \/ f = d
  BY TwoDownloaders
<1> QED
  BY <1>1, <1>2 DEF DownloadsInv

\* What the invariant says of the run that takes the step.
LEMMA Knows ==
  ASSUME DownloadsInv, NEW d \in Downloaders
  PROVE  TypedDn(d) /\ DnSound(d) /\ TypedFiles /\ PartFits /\ OutputWhole
BY DEF DownloadsInv, DownloadsTyped

\* Every run has an entry in the table of open files.
LEMMA OwnFile ==
  ASSUME DownloadsInv, NEW d \in Downloaders
  PROVE  OpenedBy(d)[d] = "part" /\ ClosedBy(d)[d] = "none"
BY TwoDownloaders DEF DownloadsInv, DownloadsTyped, TypedFiles, OpenedBy, ClosedBy

\* A run ends without another look at the files (SystemExit or killed).
LEMMA QuitsKeep ==
  ASSUME DownloadsInv, FreshAlone, DownloadsTyped', UNCHANGED manifest,
         NEW d \in Downloaders, Quits(d)
  PROVE  DownloadsInv'
<1>1. /\ dnRun'[d].pc = "off" /\ dnRun'[d].resume \in BOOLEAN /\ dnRun'[d].m = Absent
      /\ dnRun'[d].index = 0 /\ dnRun'[d].hashed = <<>>
      /\ \A e \in Downloaders \ {d} : dnRun'[e] = dnRun[e]
      /\ fd' = ClosedBy(d) /\ UNCHANGED <<part, nextIndex, out>>
  BY OverFields DEF Quits, DnBecomes
<1>2. PartFits' /\ OutputWhole' /\ \A e \in Downloaders \ {d} : Aside(e)
  BY <1>1, FilesKept, Knows DEF TypedFiles
<1>3. DnSound(d)'
  BY <1>1, NotReceiving DEF Idle
<1>4. \A e \in Downloaders \ {d} : Apart(d, e)' /\ Apart(e, d)'
  BY <1>1, ApartLater DEF NotOpened, Idle, Receiving, Writing
<1> QED
  BY <1>2, <1>3, <1>4, OneKeeps

\* Any other exception.
LEMMA RaisesKeep ==
  ASSUME DownloadsInv, FreshAlone, DownloadsTyped', UNCHANGED manifest,
         NEW d \in Downloaders, Raises(d)
  PROVE  DownloadsInv'
<1>1. /\ dnRun[d].pc \notin Idle /\ dnRun'[d].pc = "fail"
      /\ dnRun'[d].resume = dnRun[d].resume /\ dnRun'[d].m = dnRun[d].m
      /\ dnRun'[d].index = dnRun[d].index /\ dnRun'[d].hashed = dnRun[d].hashed
      /\ \A e \in Downloaders \ {d} : dnRun'[e] = dnRun[e]
      /\ fd' = ClosedBy(d) /\ UNCHANGED <<part, nextIndex, out>>
  BY RunGoes DEF Raises
<1>2. PartFits' /\ OutputWhole' /\ \A e \in Downloaders \ {d} : Aside(e)
  BY <1>1, FilesKept, Knows DEF TypedFiles
<1>3. DnSound(d)'
  BY <1>1, NotReceiving
<1>4. \A e \in Downloaders \ {d} : Apart(d, e)' /\ Apart(e, d)'
  BY <1>1, ApartLater DEF NotOpened, Receiving, Writing
<1> QED
  BY <1>2, <1>3, <1>4, OneKeeps

\* A run begins (receiver_download_decrypt.py:126-138).
LEMMA StartsKeep ==
  ASSUME DownloadsInv, FreshAlone, DownloadsTyped', UNCHANGED manifest,
         NEW d \in Downloaders, Starts(d)
  PROVE  DownloadsInv'
<1>1. PICK resume \in BOOLEAN :
        /\ \A e \in Downloaders \ {d} : MayStart(resume, dnRun[e].pc, dnRun[e].resume)
        /\ DnBecomes(d, DnRun("manifest", resume, Absent, 0, <<>>))
  BY DEF Starts
<1>2. /\ dnRun[d].pc \in Idle /\ UNCHANGED <<part, nextIndex, out, fd>>
      /\ dnRun'[d].pc = "manifest" /\ dnRun'[d].resume = resume /\ dnRun'[d].m = Absent
      /\ dnRun'[d].index = 0 /\ dnRun'[d].hashed = <<>>
      /\ \A e \in Downloaders \ {d} : dnRun'[e] = dnRun[e]
  <2>1. dnRun'[d] = DnRun("manifest", resume, Absent, 0, <<>>)
    BY <1>1 DEF DnBecomes
  <2> QED
    BY <1>1, <2>1, RunBecomes DEF Starts, DnBecomes
<1>3. PartFits' /\ OutputWhole' /\ \A e \in Downloaders \ {d} : Aside(e)
  BY <1>2, FilesKept, Knows DEF TypedFiles
<1>4. DnSound(d)'
  BY <1>2, NotReceiving
<1>5. ASSUME NEW e \in Downloaders \ {d} PROVE Apart(d, e)' /\ Apart(e, d)'
  <2>1. dnRun[e].pc \in Idle \/ (resume /\ ~Discarding(dnRun[e].pc, dnRun[e].resume))
    BY <1>1, <1>5 DEF MayStart
  <2>2. ~Discarding(dnRun[e].pc, dnRun[e].resume)
    BY <2>1 DEF Discarding, Idle
  <2>3. Discarding(dnRun'[d].pc, dnRun'[d].resume) => dnRun[e].pc \in Idle
    BY <1>2, <2>1 DEF Discarding
  <2> QED
    BY <1>2, <2>2, <2>3, ApartBefore
<1> QED
  BY <1>3, <1>4, <1>5, OneKeeps

\* The manifest is fetched and verified (receiver_download_decrypt.py:139-164).
LEMMA GetsManifestKeeps ==
  ASSUME DownloadsInv, FreshAlone, DownloadsTyped', UNCHANGED manifest,
         NEW d \in Downloaders, GetsManifest(d)
  PROVE  DownloadsInv'
<1>1. /\ dnRun[d].pc = "manifest" /\ UNCHANGED <<part, nextIndex, out, fd>>
      /\ dnRun'[d].pc = "begin" /\ dnRun'[d].resume = dnRun[d].resume
      /\ dnRun'[d].m = manifest /\ dnRun'[d].index = dnRun[d].index
      /\ dnRun'[d].hashed = dnRun[d].hashed
      /\ \A e \in Downloaders \ {d} : dnRun'[e] = dnRun[e]
  BY RunBecomes DEF GetsManifest, DnBecomes
<1>2. PartFits' /\ OutputWhole' /\ \A e \in Downloaders \ {d} : Aside(e)
  BY <1>1, FilesKept, Knows DEF TypedFiles
<1>3. DnSound(d)'
  BY <1>1, NotReceiving
<1>4. ASSUME NEW e \in Downloaders \ {d} PROVE Apart(d, e)' /\ Apart(e, d)'
  <2>1. Discarding(dnRun[d].pc, dnRun[d].resume) => dnRun[e].pc \in Idle
    BY <1>4 DEF DownloadsInv, Apart
  <2>2. ~Discarding(dnRun[e].pc, dnRun[e].resume)
    BY <1>1, <1>4 DEF DownloadsInv, Apart, Idle
  <2> QED
    BY <1>1, <2>1, <2>2, ApartBefore DEF Discarding
<1> QED
  BY <1>2, <1>3, <1>4, OneKeeps

\* The partial file loses its name: removed, or renamed to the output.
LEMMA PartGoes ==
  ASSUME DownloadsInv, NEW d \in Downloaders, UNCHANGED manifest, part' = Absent,
         \/ fd' = FdsUnlinked /\ UNCHANGED out
         \/ fd' = FdsRenamed /\ out' = part /\ Whole(part),
         \A e \in Downloaders \ {d} : dnRun'[e] = dnRun[e]
  PROVE  PartFits' /\ OutputWhole' /\ \A e \in Downloaders \ {d} : Aside(e)
<1>1. /\ fd \in [Clients -> {"part", "out", "gone", "none"}] /\ Downloaders \subseteq Clients
      /\ OutputWhole
  BY TwoDownloaders, Knows DEF TypedFiles
<1>2. \A e \in Downloaders : (fd'[e] = "none") = (fd[e] = "none")
  BY <1>1 DEF FdsUnlinked, FdsRenamed
<1>3. PartFits' /\ OutputWhole' /\ ~Exists(part')
  BY <1>1 DEF PartFits, OutputWhole, Exists, Whole
<1> QED
  BY <1>2, <1>3 DEF Aside

\* The partial file is discarded (receiver_download_decrypt.py:96-102, 180).
LEMMA DropsKeep ==
  ASSUME DownloadsInv, FreshAlone, DownloadsTyped', UNCHANGED manifest,
         NEW d \in Downloaders, Drops(d)
  PROVE  DownloadsInv'
<1>1. /\ \/ dnRun[d].pc = "begin" /\ ~dnRun[d].resume /\ dnRun'[d].pc = "discardState"
         \/ dnRun[d].pc = "fail" /\ dnRun'[d].pc = "failState"
      /\ dnRun'[d].resume = dnRun[d].resume /\ dnRun'[d].m = dnRun[d].m
      /\ dnRun'[d].index = dnRun[d].index /\ dnRun'[d].hashed = dnRun[d].hashed
      /\ \A e \in Downloaders \ {d} : dnRun'[e] = dnRun[e]
  <2>1. CASE dnRun[d].pc = "begin" /\ ~dnRun[d].resume /\ Goes(d, "discardState")
    BY <2>1, RunGoes
  <2>2. CASE dnRun[d].pc = "fail" /\ Goes(d, "failState")
    BY <2>2, RunGoes
  <2> QED
    BY <2>1, <2>2 DEF Drops
<1>2. /\ PartFits' /\ OutputWhole' /\ \A e \in Downloaders \ {d} : Aside(e)
  <2>1. CASE part' = Absent /\ fd' = FdsUnlinked
    BY <1>1, <2>1, PartGoes DEF Drops
  <2>2. CASE UNCHANGED <<part, fd>>
    BY <1>1, <2>2, FilesKept, Knows DEF Drops, TypedFiles
  <2> QED
    BY <2>1, <2>2 DEF Drops
<1>3. DnSound(d)'
  BY <1>1, NotReceiving
<1>4. ASSUME NEW e \in Downloaders \ {d} PROVE Apart(d, e)' /\ Apart(e, d)'
  <2>1. CASE dnRun'[d].pc = "discardState"
    <3>1. Discarding(dnRun[d].pc, dnRun[d].resume)
      BY <1>1, <2>1 DEF Discarding
    <3>2. dnRun[e].pc \in Idle
      BY <1>4, <3>1 DEF DownloadsInv, Apart
    <3>3. ~Discarding(dnRun[e].pc, dnRun[e].resume)
      BY <3>2 DEF Discarding, Idle
    <3> QED
      BY <1>1, <2>1, <3>2, <3>3, ApartBefore
  <2>2. CASE dnRun'[d].pc = "failState"
    BY <1>1, <2>2, ApartLater DEF NotOpened, Idle, Receiving, Writing
  <2> QED
    BY <1>1, <2>1, <2>2
<1> QED
  BY <1>2, <1>3, <1>4, OneKeeps

\* Then the state file: a run that discards goes on, one that fails ends.
LEMMA DropsStateKeeps ==
  ASSUME DownloadsInv, FreshAlone, DownloadsTyped', UNCHANGED manifest,
         NEW d \in Downloaders, DropsState(d)
  PROVE  DownloadsInv'
<1>1. UNCHANGED <<part, out, fd>> /\ nextIndex' \in (Nat \ {0}) \cup {Absent, Garbled}
  BY Knows DEF DropsState, TypedFiles
<1>2. CASE dnRun[d].pc = "failState" /\ DnBecomes(d, Over)
  <2>1. /\ dnRun'[d].pc = "off" /\ dnRun'[d].resume \in BOOLEAN /\ dnRun'[d].m = Absent
        /\ dnRun'[d].index = 0 /\ dnRun'[d].hashed = <<>>
        /\ \A e \in Downloaders \ {d} : dnRun'[e] = dnRun[e]
    BY <1>2, OverFields DEF DnBecomes
  <2>2. PartFits' /\ OutputWhole' /\ \A e \in Downloaders \ {d} : Aside(e)
    BY <1>1, <2>1, FilesKept
  <2>3. DnSound(d)'
    BY <2>1, NotReceiving DEF Idle
  <2>4. \A e \in Downloaders \ {d} : Apart(d, e)' /\ Apart(e, d)'
    BY <2>1, ApartLater DEF NotOpened, Idle, Receiving, Writing
  <2> QED
    BY <2>2, <2>3, <2>4, OneKeeps
<1>3. CASE dnRun[d].pc = "discardState" /\ Goes(d, "mode")
  <2>1. /\ dnRun'[d].pc = "mode"
        /\ dnRun'[d].resume = dnRun[d].resume /\ dnRun'[d].m = dnRun[d].m
        /\ dnRun'[d].index = dnRun[d].index /\ dnRun'[d].hashed = dnRun[d].hashed
        /\ \A e \in Downloaders \ {d} : dnRun'[e] = dnRun[e]
    BY <1>3, RunGoes
  <2>2. PartFits' /\ OutputWhole' /\ \A e \in Downloaders \ {d} : Aside(e)
    BY <1>1, <2>1, FilesKept
  <2>3. ~dnRun[d].resume
    BY <1>3, Knows DEF TypedDn
  <2>4. DnSound(d)'
    BY <2>1, <2>3 DEF DnSound, WritesPart, HashedIsThere, CheckedIsWhole, NeverEmpties, Writing
  <2>5. ASSUME NEW e \in Downloaders \ {d} PROVE Apart(d, e)' /\ Apart(e, d)'
    <3>1. Discarding(dnRun[d].pc, dnRun[d].resume)
      BY <1>3, <2>3 DEF Discarding
    <3>2. dnRun'[e].pc \in Idle
      BY <2>1, <2>5, <3>1 DEF DownloadsInv, Apart
    <3>3. /\ ~Discarding(dnRun'[e].pc, dnRun'[e].resume) /\ dnRun'[e].pc \notin Receiving
          /\ dnRun'[e].pc \notin Opening /\ dnRun'[d].pc \notin Receiving
      BY <2>1, <3>2 DEF Discarding, Idle, Receiving, Writing, Opening
    <3> QED
      BY <3>2, <3>3 DEF Apart
  <2> QED
    BY <2>2, <2>3, <2>4, <2>5, OneKeeps
<1> QED
  BY <1>2, <1>3 DEF DropsState

\* A run that resumes finds the chunks it counts (receiver_download_decrypt.py:166-185).
LEMMA ResumesKeep ==
  ASSUME DownloadsInv, FreshAlone, DownloadsTyped', UNCHANGED manifest,
         NEW d \in Downloaders, Resumes(d)
  PROVE  DownloadsInv'
<1>1. /\ dnRun[d].pc = "begin" /\ dnRun[d].resume /\ UNCHANGED <<part, nextIndex, out, fd>>
      /\ nextIndex \in Nat /\ Enough(d, nextIndex)
      /\ dnRun'[d].pc = "mode" /\ dnRun'[d].resume = dnRun[d].resume
      /\ dnRun'[d].m = dnRun[d].m /\ dnRun'[d].index = nextIndex
      /\ dnRun'[d].hashed = dnRun[d].hashed
      /\ \A e \in Downloaders \ {d} : dnRun'[e] = dnRun[e]
  <2>1. /\ dnRun'[d] = DnRun("mode", dnRun[d].resume, dnRun[d].m, nextIndex, dnRun[d].hashed)
        /\ \A e \in Downloaders \ {d} : dnRun'[e] = dnRun[e]
    BY DEF Resumes, DnBecomes
  <2>2. /\ dnRun[d].pc = "begin" /\ dnRun[d].resume /\ UNCHANGED <<part, nextIndex, out, fd>>
        /\ nextIndex \in Nat /\ Enough(d, nextIndex)
    BY DEF Resumes
  <2>3. /\ dnRun'[d].pc = "mode" /\ dnRun'[d].resume = dnRun[d].resume
        /\ dnRun'[d].m = dnRun[d].m /\ dnRun'[d].index = nextIndex
        /\ dnRun'[d].hashed = dnRun[d].hashed
    BY <2>1, RunBecomes
  <2> QED
    BY <2>1, <2>2, <2>3
<1>2. PartFits' /\ OutputWhole' /\ \A e \in Downloaders \ {d} : Aside(e)
  BY <1>1, FilesKept, Knows DEF TypedFiles
<1>3. Exists(part) /\ part.data # <<>>
  <2>1. dnRun[d].m = manifest /\ nextIndex \in Nat \ {0}
    BY <1>1, Knows, GarbledAssumption DEF TypedDn, Informed, TypedFiles
  <2>2. Exists(part) /\ Len(part.data) >= OffsetBefore(manifest, nextIndex)
          /\ OffsetBefore(manifest, nextIndex) > 0 /\ OffsetBefore(manifest, nextIndex) \in Nat
    BY <1>1, <2>1, ManifestFacts DEF Enough
  <2>3. Len(part.data) \in Nat /\ Len(part.data) > 0
    BY <2>2, ManifestFacts
  <2> QED
    BY <2>2, <2>3, EmptySeq
<1>4. DnSound(d)'
  BY <1>1, <1>3 DEF DnSound, WritesPart, HashedIsThere, CheckedIsWhole, NeverEmpties, Writing
<1>5. ASSUME NEW e \in Downloaders \ {d} PROVE Apart(d, e)' /\ Apart(e, d)'
  <2>1. ~Discarding(dnRun'[d].pc, dnRun'[d].resume) /\ dnRun'[d].pc \notin Receiving
    BY <1>1 DEF Discarding, Receiving, Writing
  <2>2. ~Discarding(dnRun[e].pc, dnRun[e].resume)
    BY <1>1, <1>5 DEF DownloadsInv, Apart, Idle
  <2> QED
    BY <1>1, <1>3, <1>5, <2>1, <2>2 DEF Apart, Exists
<1> QED
  BY <1>2, <1>4, <1>5, OneKeeps

\* The look at the partial file (receiver_download_decrypt.py:192).
LEMMA LooksKeep ==
  ASSUME DownloadsInv, FreshAlone, DownloadsTyped', UNCHANGED manifest,
         NEW d \in Downloaders, Looks(d)
  PROVE  DownloadsInv'
<1>1. /\ dnRun[d].pc = "mode" /\ UNCHANGED <<part, nextIndex, out, fd>>
      /\ dnRun'[d].pc = IF Exists(part) /\ part.data # <<>> THEN "openOld" ELSE "openNew"
      /\ dnRun'[d].resume = dnRun[d].resume /\ dnRun'[d].m = dnRun[d].m
      /\ dnRun'[d].index = dnRun[d].index /\ dnRun'[d].hashed = dnRun[d].hashed
      /\ \A e \in Downloaders \ {d} : dnRun'[e] = dnRun[e]
  BY RunGoes DEF Looks
<1>2. PartFits' /\ OutputWhole' /\ \A e \in Downloaders \ {d} : Aside(e)
  BY <1>1, FilesKept, Knows DEF TypedFiles
<1>3. DnSound(d)'
  <2>1. dnRun[d].resume /\ dnRun'[d].pc = "openNew" => ~Exists(part')
    BY <1>1, Knows DEF DnSound, NeverEmpties
  <2>2. dnRun'[d].pc \in {"openOld", "openNew"}
    BY <1>1
  <2> QED
    BY <1>1, <2>1, <2>2
    DEF DnSound, WritesPart, HashedIsThere, CheckedIsWhole, NeverEmpties, Writing
<1>4. ASSUME NEW e \in Downloaders \ {d} PROVE Apart(d, e)' /\ Apart(e, d)'
  <2>1. Apart(d, e) /\ Apart(e, d) /\ dnRun'[e] = dnRun[e]
    BY <1>1, <1>4 DEF DownloadsInv
  <2>2. dnRun'[d].pc \in {"openOld", "openNew"} /\ dnRun[d].pc = "mode"
    BY <1>1
  <2>3. ~Discarding(dnRun[e].pc, dnRun[e].resume)
    BY <2>1, <2>2 DEF Apart, Idle
  <2>4. Discarding(dnRun'[d].pc, dnRun'[d].resume) => dnRun[e].pc \in Idle
    BY <1>1, <2>1, <2>2 DEF Apart, Discarding
  <2>5. dnRun[e].pc \in Opening => Exists(part) /\ part.data # <<>>
    BY <2>1, <2>2 DEF Apart, Opening
  <2>6. dnRun'[d].pc \notin Receiving
    BY <2>2 DEF Receiving, Writing
  <2>7. dnRun[e].pc \in Receiving => Exists(part)
    BY <2>1, <2>2 DEF Apart
  <2> QED
    BY <1>1, <2>1, <2>3, <2>4, <2>5, <2>6, <2>7 DEF Apart, Exists
<1> QED
  BY <1>2, <1>3, <1>4, OneKeeps

\* A run writes the chunk, or a part of it, to its place.
LEMMA FilesWritten ==
  ASSUME DownloadsInv, NEW d \in Downloaders, UNCHANGED manifest,
         PlaceOf(d) \in Nat, NEW c \in Seq(Byte), PlaceOf(d) + Len(c) <= Len(manifest.plain),
         \A i \in 1..Len(c) : c[i] = manifest.plain[PlaceOf(d) + i],
         DnWrites(d, c), fd' \in {fd, ClosedBy(d)},
         \A e \in Downloaders \ {d} : dnRun'[e] = dnRun[e]
  PROVE  /\ PartFits' /\ OutputWhole'
         /\ \A e \in Downloaders \ {d} : Aside(e)
         /\ Exists(part') <=> Exists(part)
         /\ Exists(part) => Grown(part, part')
         /\ fd[d] = "part" =>
              /\ PlaceOf(d) + Len(c) <= Len(part'.data)
              /\ \A i \in PlaceOf(d) + 1..PlaceOf(d) + Len(c) : part'.data[i] = manifest.plain[i]
<1> DEFINE p == manifest.plain
           off == PlaceOf(d)
<1>1. /\ fd \in [Clients -> {"part", "out", "gone", "none"}] /\ Downloaders \subseteq Clients
      /\ part \in File \cup {Absent} /\ out \in File \cup {Absent}
      /\ \A e \in Downloaders : (fd[e] = "part" => Exists(part)) /\ (fd[e] = "out" => Exists(out))
  BY TwoDownloaders, Knows DEF TypedFiles
<1>2. p \in Seq(Byte)
  BY ManifestFacts
<1>3. ASSUME fd[d] = "part"
      PROVE  /\ Grown(part, part') /\ off + Len(c) <= Len(part'.data)
             /\ \A i \in off + 1..off + Len(c) : part'.data[i] = p[i]
  <2>1. part' = WriteAt(part, off, c) /\ out' = out /\ part \in File /\ Len(part.data) <= Len(p)
          /\ Exists(part)
    BY <1>1, <1>3, ManifestFacts DEF DnWrites
  <2>2. /\ Grown(part, part') /\ off + Len(c) <= Len(part'.data)
        /\ \A i \in off + 1..off + Len(c) : part'.data[i] = p[i]
    BY <1>2, <2>1, PieceWritten
  <2> QED
    BY <2>1, <2>2
<1>4. fd[d] # "part" => part' = part
  BY DEF DnWrites
<1>5. Exists(part) => Grown(part, part')
  BY <1>3, <1>4, ManifestFacts, GrownSame
<1>6. part' \in File \cup {Absent} /\ (Exists(part') <=> Exists(part))
  <2>1. CASE Exists(part)
    BY <1>5, <2>1, FilesAssumption DEF Grown, Exists
  <2>2. CASE ~Exists(part)
    BY <1>1, <1>4, <2>2 DEF Exists
  <2> QED
    BY <2>1, <2>2
<1>7. out' \in File \cup {Absent} /\ (Exists(out') <=> Exists(out))
        /\ (Exists(out') => Whole(out'))
  <2>1. CASE fd[d] = "out"
    <3>1. out' = WriteAt(out, off, c) /\ out \in File /\ Whole(out) /\ Exists(out)
      BY <1>1, <2>1, ManifestFacts DEF DnWrites
    <3>2. Len(out.data) <= Len(p)
      BY <1>2, <3>1 DEF Whole
    <3>3. Grown(out, out')
      BY <1>2, <3>1, <3>2, PieceWritten
    <3>4. Whole(out') /\ out' \in File
      BY <1>2, <3>1, <3>3, GrownWhole DEF Grown
    <3> QED
      BY <3>1, <3>4, FilesAssumption DEF Exists
  <2>2. CASE fd[d] # "out"
    BY <1>1, <2>2, ManifestFacts DEF DnWrites, Exists
  <2> QED
    BY <2>1, <2>2
<1>8. \A e \in Downloaders \ {d} : fd'[e] = fd[e]
  BY <1>1 DEF ClosedBy
<1>9. PartFits'
  BY <1>5, <1>6 DEF PartFits, Grown
<1>10. OutputWhole'
  BY <1>7 DEF OutputWhole, Whole
<1>11. \A e \in Downloaders \ {d} : Aside(e)
  BY <1>5, <1>6, <1>8 DEF Aside
<1> QED
  BY <1>3, <1>5, <1>6, <1>9, <1>10, <1>11

\* A new partial file: no other run is about to use an older one
\* (receiver_download_decrypt.py:192-194).
LEMMA OpensNewKeeps ==
  ASSUME DownloadsInv, FreshAlone, DownloadsTyped', UNCHANGED manifest,
         NEW d \in Downloaders, OpensNew(d)
  PROVE  DownloadsInv'
<1>1. /\ dnRun[d].pc = "openNew" /\ part' = EmptyFile /\ UNCHANGED <<nextIndex, out>>
      /\ fd' = OpenedBy(d)
      /\ dnRun'[d].pc = "chunk" /\ dnRun'[d].resume = dnRun[d].resume
      /\ dnRun'[d].m = dnRun[d].m /\ dnRun'[d].index = dnRun[d].index
      /\ dnRun'[d].hashed = dnRun[d].hashed
      /\ \A e \in Downloaders \ {d} : dnRun'[e] = dnRun[e]
  BY RunGoes DEF OpensNew
<1>2. /\ fd \in [Clients -> {"part", "out", "gone", "none"}] /\ Downloaders \subseteq Clients
      /\ out \in File \cup {Absent} /\ nextIndex \in (Nat \ {0}) \cup {Absent, Garbled}
      /\ \A e \in Downloaders : fd[e] = "out" => Exists(out)
      /\ delivered \subseteq Seq(Byte)
  BY TwoDownloaders, Knows DEF TypedFiles
<1>3. part' \in File /\ Exists(part') /\ part'.data = <<>>
  BY <1>1, EmptyFileFacts
<1>4. /\ fd' \in [Clients -> {"part", "out", "gone", "none"}] /\ fd'[d] = "part"
      /\ \A e \in Downloaders : fd'[e] = "out" => Exists(out)
      /\ \A e \in Downloaders \ {d} : fd'[e] = fd[e]
  BY <1>1, <1>2 DEF OpenedBy
<1>5. PartFits' /\ OutputWhole'
  <2>1. Len(part'.data) = 0 /\ Len(manifest.plain) \in Nat
    BY <1>3, ManifestFacts
  <2>2. OutputWhole
    BY Knows
  <2> QED
    BY <1>1, <2>1, <2>2 DEF PartFits, OutputWhole, Exists, Whole
<1>6. ASSUME NEW e \in Downloaders \ {d}
      PROVE  dnRun[e].pc \notin Receiving \cup {"mode", "openNew"}
  <2>1. Apart(d, e) /\ Apart(e, d)
    BY DEF DownloadsInv
  <2>2. CASE ~dnRun[d].resume
    <3>1. Discarding(dnRun[d].pc, dnRun[d].resume)
      BY <1>1, <2>2 DEF Discarding
    <3> QED
      BY <2>1, <3>1 DEF Apart, Idle, Receiving, Writing
  <2>3. CASE dnRun[d].resume
    <3>1. ~Exists(part)
      BY <1>1, <2>3, Knows DEF DnSound, NeverEmpties
    <3>2. dnRun[e].pc \notin Receiving
      BY <1>1, <2>1, <3>1 DEF Apart
    <3>3. dnRun[e].pc \notin Opening
      BY <1>1, <2>1, <3>1 DEF Apart, Opening
    <3> QED
      BY <3>2, <3>3 DEF Opening
  <2> QED
    BY <2>2, <2>3
<1>7. \A e \in Downloaders \ {d} : Aside(e)
  BY <1>1, <1>4, <1>6 DEF Aside
<1>8. DnSound(d)'
  <2>1. dnRun'[d].hashed = <<>> /\ dnRun'[d].index \in Nat
    BY <1>1, Knows DEF TypedDn, NotOpened
  <2>2. PosOf(d)' \in Nat /\ PosOf(d)' <= Len(manifest.plain)
    BY <1>1, <2>1, ManifestFacts DEF PosOf
  <2>3. <<>> = SubSeq(manifest.plain, 1, PosOf(d)') => PosOf(d)' = 0
    <3>1. Len(SubSeq(manifest.plain, 1, PosOf(d)')) = PosOf(d)'
      BY <2>2, ManifestFacts, FirstPiece
    <3> QED
      BY <3>1
  <2>4. PosOf(d)' = 0 => Alike(PosOf(d))'
    BY <1>3 DEF Alike
  <2>5. HashedIsThere(d)'
    BY <1>1, <2>1, <2>2, <2>3, <2>4 DEF HashedIsThere
  <2> QED
    BY <1>1, <1>4, <2>5 DEF DnSound, WritesPart, CheckedIsWhole, NeverEmpties
<1>9. \A e \in Downloaders \ {d} : Apart(d, e)' /\ Apart(e, d)'
  BY <1>1, <1>3, ApartLater DEF NotOpened, Idle
<1> QED
  BY <1>5, <1>7, <1>8, <1>9, OneKeeps

\* An old one: nothing of it is hashed yet (receiver_download_decrypt.py:192-197).
LEMMA OpensOldKeeps ==
  ASSUME DownloadsInv, FreshAlone, DownloadsTyped', UNCHANGED manifest,
         NEW d \in Downloaders, OpensOld(d)
  PROVE  DownloadsInv'
<1>1. /\ dnRun[d].pc = "openOld" /\ Exists(part)
      /\ fd' = OpenedBy(d) /\ UNCHANGED <<part, nextIndex, out>>
      /\ dnRun'[d].pc = AfterHashingOf(d, 0) /\ dnRun'[d].pc \in {"hash", "chunk"}
      /\ dnRun'[d].resume = dnRun[d].resume
      /\ dnRun'[d].m = dnRun[d].m /\ dnRun'[d].index = dnRun[d].index
      /\ dnRun'[d].hashed = dnRun[d].hashed
      /\ \A e \in Downloaders \ {d} : dnRun'[e] = dnRun[e]
  BY RunGoes DEF OpensOld, AfterHashingOf
<1>2. dnRun[d].m = manifest /\ dnRun[d].index \in Nat /\ dnRun[d].hashed = <<>>
  BY <1>1, Knows DEF TypedDn, Informed, NotOpened
<1>3. PlaceOf(d) = OffsetBefore(manifest, dnRun[d].index) /\ PlaceOf(d) \in Nat
  BY <1>2, ManifestFacts DEF PlaceOf
<1>4. PartFits' /\ OutputWhole' /\ \A e \in Downloaders \ {d} : Aside(e)
  BY <1>1, FilesKept, Knows DEF TypedFiles
<1>5. fd'[d] = "part"
  BY <1>1, OwnFile
<1>6. DnSound(d)'
  <2>1. PosOf(d)' = 0 /\ dnRun'[d].hashed = <<>> /\ Len(dnRun'[d].hashed) = 0
    BY <1>1, <1>2, <1>3 DEF PosOf, AfterHashingOf
  <2>2. Alike(PosOf(d))'
    BY <1>1, <2>1, ManifestFacts DEF Alike
  <2>3. dnRun'[d].pc = "hash" =>
          Len(dnRun'[d].hashed) < OffsetBefore(manifest', dnRun'[d].index)
    BY <1>1, <1>3, <2>1 DEF AfterHashingOf
  <2>4. HashedIsThere(d)'
    BY <2>1, <2>2, <2>3 DEF HashedIsThere
  <2> QED
    BY <1>1, <1>5, <2>4 DEF DnSound, WritesPart, CheckedIsWhole, NeverEmpties
<1>7. \A e \in Downloaders \ {d} : Apart(d, e)' /\ Apart(e, d)'
  BY <1>1, ApartLater DEF NotOpened, Idle, Exists
<1> QED
  BY <1>4, <1>6, <1>7, OneKeeps

\* One more byte of it is hashed: if that is the published one, the partial file
\* has it there (receiver_download_decrypt.py:196-204).
LEMMA HashesKeep ==
  ASSUME DownloadsInv, FreshAlone, DownloadsTyped', UNCHANGED manifest,
         NEW d \in Downloaders, Hashes(d)
  PROVE  DownloadsInv'
<1> DEFINE p == manifest.plain
           h == dnRun[d].hashed
           n == Len(dnRun[d].hashed)
<1>1. PICK b \in Byte : HashesByte(d, b)
  BY DEF Hashes
<1>2. /\ dnRun[d].pc = "hash" /\ UNCHANGED <<part, nextIndex, out, fd>>
      /\ dnRun'[d].pc = AfterHashingOf(d, n + 1) /\ dnRun'[d].pc \in {"hash", "chunk"}
      /\ dnRun'[d].resume = dnRun[d].resume /\ dnRun'[d].m = dnRun[d].m
      /\ dnRun'[d].index = dnRun[d].index /\ dnRun'[d].hashed = Append(h, b)
      /\ \A e \in Downloaders \ {d} : dnRun'[e] = dnRun[e]
  BY <1>1, HashesByteFields
<1>3. fd[d] = "part" => n + 1 <= Len(part.data) /\ b = part.data[n + 1]
  BY <1>1 DEF HashesByte
<1>4. /\ dnRun[d].m = manifest /\ dnRun[d].index \in Nat /\ h \in Seq(Byte) /\ n \in Nat
      /\ WritesPart(d) /\ HashedIsThere(d)
  BY <1>2, Knows DEF TypedDn, DnSound, Informed, Receiving, Writing
<1>5. PlaceOf(d) = OffsetBefore(manifest, dnRun[d].index) /\ PlaceOf(d) \in Nat
        /\ PlaceOf(d) <= Len(p) /\ p \in Seq(Byte) /\ Len(p) \in Nat
  BY <1>4, ManifestFacts DEF PlaceOf
<1>6. n < PlaceOf(d)
  BY <1>2, <1>4, <1>5 DEF HashedIsThere, Writing
<1>7. PartFits' /\ OutputWhole' /\ \A e \in Downloaders \ {d} : Aside(e)
  BY <1>2, FilesKept
<1>8. /\ Append(h, b) \in Seq(Byte) /\ Len(Append(h, b)) = n + 1
      /\ Append(h, b)[n + 1] = b /\ \A i \in 1..n : Append(h, b)[i] = h[i]
  BY <1>4, AppendProperties
<1>9. PosOf(d)' = n + 1
  BY <1>2, <1>4, <1>5, <1>6, <1>8 DEF PosOf, AfterHashingOf
<1>10. ASSUME Append(h, b) = SubSeq(p, 1, n + 1), Exists(part)
       PROVE  Alike(PosOf(d))'
  <2>1. SubSeq(p, 1, n + 1) = Append(SubSeq(p, 1, n), p[n + 1]) /\ p[n + 1] \in Byte
    BY <1>4, <1>5, <1>6, LongerPiece
  <2>2. SubSeq(p, 1, n) \in Seq(Byte) /\ Len(SubSeq(p, 1, n)) = n
    BY <1>4, <1>5, <1>6, FirstPiece
  <2>3. /\ Append(SubSeq(p, 1, n), p[n + 1])[n + 1] = p[n + 1]
        /\ \A i \in 1..n : Append(SubSeq(p, 1, n), p[n + 1])[i] = SubSeq(p, 1, n)[i]
    BY <1>4, <2>1, <2>2, AppendProperties
  <2>4. b = p[n + 1] /\ \A i \in 1..n : h[i] = SubSeq(p, 1, n)[i]
    BY <1>8, <1>10, <2>1, <2>3
  <2>5. h = SubSeq(p, 1, n)
    BY <1>4, <2>2, <2>4, SeqEqual
  <2>6. Alike(n)
    BY <1>2, <1>4, <1>10, <2>5 DEF HashedIsThere, PosOf, Writing
  <2>7. fd[d] = "part"
    BY <1>2, <1>4, <1>10 DEF WritesPart, Writing
  <2>8. n + 1 <= Len(part.data) /\ part.data[n + 1] = p[n + 1]
    BY <1>3, <2>4, <2>7
  <2>9. ASSUME NEW i \in 1..n + 1 PROVE part.data[i] = p[i]
    <3>1. i \in 1..n \/ i = n + 1
      BY <1>4
    <3> QED
      BY <2>6, <2>8, <3>1 DEF Alike
  <2> QED
    BY <1>2, <1>9, <2>8, <2>9 DEF Alike
<1>11. dnRun'[d].pc = "hash" => n + 1 < OffsetBefore(manifest, dnRun[d].index)
  BY <1>2, <1>5 DEF AfterHashingOf
<1>12. HashedIsThere(d)'
  BY <1>2, <1>4, <1>8, <1>9, <1>10, <1>11 DEF HashedIsThere, Exists
<1>13. WritesPart(d)'
  BY <1>2, <1>4 DEF WritesPart, Writing, Exists
<1>14. DnSound(d)'
  BY <1>2, <1>12, <1>13 DEF DnSound, CheckedIsWhole, NeverEmpties
<1>15. \A e \in Downloaders \ {d} : Apart(d, e)' /\ Apart(e, d)'
  BY <1>2, ApartLater DEF NotOpened, Idle, Receiving, Writing, Exists
<1> QED
  BY <1>7, <1>14, <1>15, OneKeeps

\* Two sequences that are made equal by the same end.
LEMMA SameFront ==
  ASSUME NEW a \in Seq(Byte), NEW b \in Seq(Byte), NEW c \in Seq(Byte), Len(a) = Len(b),
         a \o c = b \o c
  PROVE  a = b
<1>1. ASSUME NEW i \in 1..Len(a) PROVE a[i] = b[i]
  <2>1. (a \o c)[i] = a[i] /\ (b \o c)[i] = b[i]
    BY <1>1
  <2> QED
    BY <2>1
<1> QED
  BY <1>1, SeqEqual

\* A chunk that comes back as listed is written and hashed
\* (receiver_download_decrypt.py:213-236).
LEMMA FetchesKeep ==
  ASSUME DownloadsInv, FreshAlone, DownloadsTyped', UNCHANGED manifest,
         NEW d \in Downloaders, Fetches(d)
  PROVE  DownloadsInv'
<1> DEFINE c == PieceOf(d)
           p == manifest.plain
           h == dnRun[d].hashed
           off == PlaceOf(d)
<1>1. /\ dnRun[d].pc = "chunk" /\ MoreFor(d) /\ DnWrites(d, c) /\ UNCHANGED <<nextIndex, fd>>
      /\ dnRun'[d].pc = "save" /\ dnRun'[d].resume = dnRun[d].resume
      /\ dnRun'[d].m = dnRun[d].m /\ dnRun'[d].index = dnRun[d].index
      /\ dnRun'[d].hashed = h \o c
      /\ \A e \in Downloaders \ {d} : dnRun'[e] = dnRun[e]
  <2> DEFINE hc == h \o c
  <2>1. /\ dnRun[d].pc = "chunk" /\ MoreFor(d) /\ DnWrites(d, c) /\ UNCHANGED <<nextIndex, fd>>
        /\ dnRun'[d] = DnRun("save", dnRun[d].resume, dnRun[d].m, dnRun[d].index, hc)
        /\ \A e \in Downloaders \ {d} : dnRun'[e] = dnRun[e]
    BY DEF Fetches, DnBecomes
  <2> HIDE DEF hc
  <2>2. /\ dnRun'[d].pc = "save" /\ dnRun'[d].resume = dnRun[d].resume
        /\ dnRun'[d].m = dnRun[d].m /\ dnRun'[d].index = dnRun[d].index
        /\ dnRun'[d].hashed = hc
    BY <2>1, RunBecomes
  <2> QED
    BY <2>1, <2>2 DEF hc
<1>2. /\ c \in Seq(Byte) /\ Len(c) \in Nat /\ off \in Nat /\ off = PosOf(d)
      /\ dnRun[d].m = manifest
      /\ off + Len(c) = OffsetBefore(manifest, dnRun[d].index + 1)
      /\ off + Len(c) <= Len(p)
      /\ \A i \in 1..Len(c) : c[i] = p[off + i]
      /\ SubSeq(p, 1, off) \o c = SubSeq(p, 1, off + Len(c))
  BY <1>1, PieceFacts DEF DownloadsInv
<1> HIDE DEF c, off
<1>3. /\ PartFits' /\ OutputWhole'
      /\ \A e \in Downloaders \ {d} : Aside(e)
      /\ Exists(part') <=> Exists(part)
      /\ Exists(part) => Grown(part, part')
      /\ fd[d] = "part" =>
           off + Len(c) <= Len(part'.data) /\ \A i \in off + 1..off + Len(c) : part'.data[i] = p[i]
  BY <1>1, <1>2, FilesWritten DEF off
<1>4. TypedDn(d) /\ WritesPart(d) /\ HashedIsThere(d) /\ h \in Seq(Byte) /\ Len(h) \in Nat
        /\ dnRun[d].index \in Nat
  BY Knows DEF DnSound, TypedDn
<1>5. PosOf(d)' = off + Len(c)
  BY <1>1, <1>2, <1>4 DEF PosOf
<1>6. Len(h) <= off
  BY <1>1, <1>2, <1>4 DEF HashedIsThere, Writing
<1>7. Len(h \o c) <= off + Len(c) /\ Len(h \o c) = Len(h) + Len(c)
  BY <1>2, <1>4, <1>6
<1>8. ASSUME h \o c = SubSeq(p, 1, off + Len(c)), Exists(part)
      PROVE  Alike(PosOf(d))'
  <2>1. p \in Seq(Byte) /\ Len(p) \in Nat /\ part \in File /\ Len(part.data) \in Nat
    BY <1>8, ManifestFacts
  <2>2. Len(SubSeq(p, 1, off + Len(c))) = off + Len(c) /\ SubSeq(p, 1, off) \in Seq(Byte)
          /\ Len(SubSeq(p, 1, off)) = off
    BY <1>2, <2>1, FirstPiece
  <2>3. Len(h) = off
    <3>1. Len(h) + Len(c) = off + Len(c)
      BY <1>7, <1>8, <2>2
    <3> QED
      BY <1>2, <1>4, <3>1
  <2>4. h = SubSeq(p, 1, off)
    BY <1>2, <1>4, <1>8, <2>2, <2>3, SameFront
  <2>5. Alike(off)
    BY <1>1, <1>2, <1>4, <1>8, <2>4 DEF HashedIsThere, Writing
  <2>6. fd[d] = "part"
    BY <1>1, <1>4, <1>8 DEF WritesPart, Writing
  <2>7. off + Len(c) <= Len(part'.data)
          /\ \A i \in off + 1..off + Len(c) : part'.data[i] = p[i]
    BY <1>3, <2>6
  <2>8. Grown(part, part')
    BY <1>3, <1>8
  <2>9. ASSUME NEW i \in 1..off PROVE part'.data[i] = p[i]
    <3>1. off <= Len(part.data) /\ part.data[i] = p[i]
      BY <2>5 DEF Alike
    <3>2. i \in 1..Len(part.data)
      BY <1>2, <2>1, <3>1
    <3> QED
      BY <2>8, <3>1, <3>2 DEF Grown
  <2>10. \A i \in 1..off + Len(c) : part'.data[i] = p[i]
    BY <1>2, <2>7, <2>9
  <2> QED
    BY <1>5, <2>7, <2>10 DEF Alike
<1>9. HashedIsThere(d)'
  BY <1>1, <1>3, <1>5, <1>7, <1>8 DEF HashedIsThere
<1>10. WritesPart(d)'
  BY <1>1, <1>3, <1>4 DEF WritesPart, Writing
<1>11. DnSound(d)'
  BY <1>1, <1>9, <1>10 DEF DnSound, CheckedIsWhole, NeverEmpties
<1>12. \A e \in Downloaders \ {d} : Apart(d, e)' /\ Apart(e, d)'
  BY <1>1, <1>3, ApartLater DEF NotOpened, Idle, Receiving, Writing
<1> QED
  BY <1>3, <1>11, <1>12, OneKeeps

\* A write that stops half way.
LEMMA BreaksOffKeeps ==
  ASSUME DownloadsInv, FreshAlone, DownloadsTyped', UNCHANGED manifest,
         NEW d \in Downloaders, BreaksOff(d)
  PROVE  DownloadsInv'
<1>1. PICK n \in 1..Len(PieceOf(d)) : DnWrites(d, SubSeq(PieceOf(d), 1, n))
  BY DEF BreaksOff
<1> DEFINE c == SubSeq(PieceOf(d), 1, n)
           off == PlaceOf(d)
<1>2. /\ dnRun[d].pc = "chunk" /\ MoreFor(d) /\ fd' = ClosedBy(d) /\ UNCHANGED nextIndex
      /\ DnBecomes(d, Over) \/ Goes(d, "fail")
  BY DEF BreaksOff
<1>3. /\ dnRun'[d].pc \in {"off", "fail"} /\ dnRun'[d].resume \in BOOLEAN
      /\ dnRun'[d].m \in {Absent, dnRun[d].m}
      /\ dnRun'[d].index \in {0, dnRun[d].index}
      /\ dnRun'[d].hashed \in {<<>>, dnRun[d].hashed}
      /\ \A e \in Downloaders \ {d} : dnRun'[e] = dnRun[e]
  <2>1. CASE DnBecomes(d, Over)
    BY <2>1, OverFields DEF DnBecomes
  <2>2. CASE Goes(d, "fail")
    BY <2>2, RunGoes, Knows DEF TypedDn
  <2> QED
    BY <1>2, <2>1, <2>2
<1>4. /\ PieceOf(d) \in Seq(Byte) /\ Len(PieceOf(d)) \in Nat /\ off \in Nat
      /\ off + Len(PieceOf(d)) <= Len(manifest.plain)
      /\ \A i \in 1..Len(PieceOf(d)) : PieceOf(d)[i] = manifest.plain[off + i]
  BY <1>2, PieceFacts DEF DownloadsInv
<1>5. c \in Seq(Byte) /\ Len(c) = n /\ \A i \in 1..n : c[i] = PieceOf(d)[i]
  BY <1>4, FirstPiece
<1> HIDE DEF c, off
<1>6. off + Len(c) <= Len(manifest.plain) /\ \A i \in 1..Len(c) : c[i] = manifest.plain[off + i]
  <2>1. off + n <= Len(manifest.plain)
    <3>1. Len(manifest.plain) \in Nat
      BY ManifestFacts
    <3> QED
      BY <1>4, <3>1
  <2>2. ASSUME NEW i \in 1..n PROVE c[i] = manifest.plain[off + i]
    <3>1. i \in 1..Len(PieceOf(d))
      BY <1>4, <2>2
    <3>2. c[i] = PieceOf(d)[i]
      BY <1>5, <2>2
    <3> QED
      BY <1>4, <3>1, <3>2
  <2> QED
    BY <1>5, <2>1, <2>2
<1>7. DnWrites(d, c)
  BY <1>1 DEF c
<1>8. /\ PartFits' /\ OutputWhole'
      /\ \A e \in Downloaders \ {d} : Aside(e)
      /\ Exists(part') <=> Exists(part)
  BY <1>2, <1>3, <1>4, <1>5, <1>6, <1>7, FilesWritten DEF off
<1>9. DnSound(d)'
  BY <1>3, NotReceiving DEF Idle
<1>10. \A e \in Downloaders \ {d} : Apart(d, e)' /\ Apart(e, d)'
  BY <1>2, <1>3, ApartLater DEF NotOpened, Idle, Receiving, Writing
<1> QED
  BY <1>8, <1>9, <1>10, OneKeeps

\* A run that has counted a chunk goes on with the next one: where it is in the
\* file stays the same.
LEMMA CountedOn ==
  ASSUME DownloadsInv, UNCHANGED <<manifest, part>>, NEW d \in Downloaders,
         dnRun[d].pc = "save", dnRun'[d] = Counted(d), fd'[d] = fd[d]
  PROVE  DnSound(d)' /\ dnRun'[d].pc = "chunk"
<1>1. /\ dnRun'[d].pc = "chunk" /\ dnRun'[d].index = dnRun[d].index + 1
      /\ dnRun'[d].hashed = dnRun[d].hashed
  BY CountTyped DEF DownloadsInv
<1>2. WritesPart(d) /\ HashedIsThere(d)
  BY Knows DEF DnSound
<1>3. PosOf(d)' = PosOf(d)
  BY <1>1 DEF PosOf
<1>4. WritesPart(d)'
  BY <1>2 DEF WritesPart, Writing
<1>5. HashedIsThere(d)'
  BY <1>1, <1>2, <1>3 DEF HashedIsThere, Alike, Writing
<1>6. CheckedIsWhole(d)' /\ NeverEmpties(d)'
  BY <1>1 DEF CheckedIsWhole, NeverEmpties
<1> QED
  BY <1>1, <1>4, <1>5, <1>6 DEF DnSound

\* The state file counts the chunk (receiver_download_decrypt.py:238-247).
LEMMA SavesKeep ==
  ASSUME DownloadsInv, FreshAlone, DownloadsTyped', UNCHANGED manifest,
         NEW d \in Downloaders, Saves(d)
  PROVE  DownloadsInv'
<1>1. /\ dnRun[d].pc = "save" /\ UNCHANGED <<part, out, fd>>
      /\ dnRun'[d] = Counted(d) /\ \A e \in Downloaders \ {d} : dnRun'[e] = dnRun[e]
  BY DEF Saves, DnBecomes
<1>2. PartFits' /\ OutputWhole' /\ \A e \in Downloaders \ {d} : Aside(e)
  BY <1>1, FilesKept
<1>3. DnSound(d)' /\ dnRun'[d].pc = "chunk"
  BY <1>1, CountedOn
<1>4. \A e \in Downloaders \ {d} : Apart(d, e)' /\ Apart(e, d)'
  BY <1>1, <1>3, ApartLater DEF NotOpened, Idle, Receiving, Writing
<1> QED
  BY <1>2, <1>3, <1>4, OneKeeps

\* Both runs write the temporary file of the state file.
LEMMA CollidesKeep ==
  ASSUME DownloadsInv, FreshAlone, DownloadsTyped', UNCHANGED manifest,
         NEW d \in Downloaders, Collides(d)
  PROVE  DownloadsInv'
<1>1. PICK e \in Downloaders \ {d} : Downloaders = {d, e}
  BY TwoDownloaders DEF Downloaders
<1>2. /\ dnRun[d].pc = "save" /\ dnRun'[d] = Counted(d)
      /\ dnRun'[e] = DnRun("fail", dnRun[e].resume, dnRun[e].m, dnRun[e].index, dnRun[e].hashed)
      /\ fd' = ClosedBy(e) /\ UNCHANGED <<part, out>>
  BY <1>1 DEF Collides
<1>3. fd'[d] = fd[d]
  BY <1>1, <1>2, TwoDownloaders, Knows DEF TypedFiles, ClosedBy
<1>4. PartFits' /\ OutputWhole'
  BY <1>2, Knows DEF PartFits, OutputWhole, Exists, Whole
<1>5. DnSound(d)' /\ dnRun'[d].pc = "chunk"
  BY <1>2, <1>3, CountedOn
<1>6. dnRun'[e].pc = "fail"
  BY <1>2, RunBecomes
<1>7. DnSound(e)'
  BY <1>6, NotReceiving
<1>8. Apart(d, e)' /\ Apart(e, d)'
  BY <1>5, <1>6 DEF Apart, Discarding, Receiving, Writing, Opening
<1> QED
  BY <1>1, <1>4, <1>5, <1>7, <1>8 DEF DownloadsInv

\* os.fsync reaches the disk, or it cannot matter.
Durable == ~FsyncMayFail \/ ~PowerMayFail

\* What a run has hashed to the end is all of the partial file.
LEMMA HashedToTheEnd ==
  ASSUME DownloadsInv, NEW d \in Downloaders, dnRun[d].pc = "chunk", ~MoreFor(d), Exists(part),
         dnRun[d].hashed = manifest.plain
  PROVE  part.data = manifest.plain /\ fd[d] = "part"
<1> DEFINE p == manifest.plain
<1>1. dnRun[d].m = manifest /\ dnRun[d].index \in Nat /\ WritesPart(d) /\ HashedIsThere(d)
  BY Knows DEF TypedDn, DnSound, Informed, Receiving, Writing
<1>2. /\ manifest \in Manifest /\ p \in Seq(Byte) /\ Len(p) \in Nat
      /\ part \in File /\ part.data \in Seq(Byte) /\ Len(part.data) \in Nat
      /\ Len(part.data) <= Len(p)
  BY ManifestFacts DEF File
<1>3. PosOf(d) = Len(p)
  BY <1>1, <1>2, PrefixOfChunks DEF PosOf, MoreFor
<1>4. p = SubSeq(p, 1, Len(p))
  <2>1. /\ SubSeq(p, 1, Len(p)) \in Seq(Byte) /\ Len(SubSeq(p, 1, Len(p))) = Len(p)
        /\ \A i \in 1..Len(p) : SubSeq(p, 1, Len(p))[i] = p[i]
    BY <1>2, FirstPiece
  <2> QED
    BY <1>2, <2>1, SeqEqual
<1>5. Alike(Len(p))
  BY <1>1, <1>3, <1>4 DEF HashedIsThere, Writing
<1>6. Len(part.data) = Len(p) /\ \A i \in 1..Len(p) : part.data[i] = p[i]
  BY <1>2, <1>5 DEF Alike
<1>7. part.data = p
  BY <1>2, <1>6, SeqEqual
<1>8. fd[d] = "part"
  BY <1>1 DEF WritesPart, Writing
<1> QED
  BY <1>7, <1>8

\* All chunks are there: the file is synced (receiver_download_decrypt.py:252-255).
LEMMA SyncsKeep ==
  ASSUME DownloadsInv, FreshAlone, Durable, DownloadsTyped', UNCHANGED manifest,
         NEW d \in Downloaders, Syncs(d)
  PROVE  DownloadsInv'
<1>1. /\ dnRun[d].pc = "chunk" /\ ~MoreFor(d) /\ fd' = ClosedBy(d) /\ UNCHANGED nextIndex
      /\ dnRun'[d].pc = "verify" /\ dnRun'[d].resume = dnRun[d].resume
      /\ dnRun'[d].m = dnRun[d].m /\ dnRun'[d].index = dnRun[d].index
      /\ dnRun'[d].hashed = dnRun[d].hashed
      /\ \A e \in Downloaders \ {d} : dnRun'[e] = dnRun[e]
  BY RunGoes DEF Syncs
<1>2. /\ part' = part \/ (fd[d] = "part" /\ part' = Synced(part))
      /\ out' = out \/ (fd[d] = "out" /\ out' = Synced(out))
      /\ FsyncMayFail \/ (fd[d] = "part" => part' = Synced(part))
  BY DEF Syncs
<1>3. /\ fd \in [Clients -> {"part", "out", "gone", "none"}] /\ Downloaders \subseteq Clients
      /\ part \in File \cup {Absent} /\ out \in File \cup {Absent}
      /\ nextIndex \in (Nat \ {0}) \cup {Absent, Garbled}
      /\ \A e \in Downloaders : (fd[e] = "part" => Exists(part)) /\ (fd[e] = "out" => Exists(out))
      /\ delivered \subseteq Seq(Byte)
  BY TwoDownloaders, Knows DEF TypedFiles
<1>4. Exists(part) => Grown(part, part') /\ part'.data = part.data /\ part' \in File
  BY <1>2, ManifestFacts, GrownSame, SyncedFile
<1>5. part' \in File \cup {Absent} /\ (Exists(part') <=> Exists(part))
  <2>1. CASE Exists(part)
    BY <1>4, <2>1, FilesAssumption DEF Exists
  <2>2. CASE ~Exists(part)
    BY <1>2, <1>3, <2>2 DEF Exists
  <2> QED
    BY <2>1, <2>2
<1>6. out' \in File \cup {Absent} /\ (Exists(out') <=> Exists(out))
        /\ (Exists(out') => Whole(out'))
  <2>1. CASE fd[d] = "out" /\ out' = Synced(out)
    <3>1. out \in File /\ Whole(out) /\ Exists(out)
      BY <1>3, <2>1, ManifestFacts
    <3>2. Synced(out) \in File /\ Synced(out).data = out.data /\ Synced(out).synced = Len(out.data)
      BY <3>1, SyncedFile
    <3> QED
      BY <2>1, <3>1, <3>2, FilesAssumption DEF Exists, Whole
  <2>2. CASE out' = out
    BY <1>3, <2>2, ManifestFacts DEF Exists
  <2> QED
    BY <1>2, <2>1, <2>2
<1>7. /\ fd' \in [Clients -> {"part", "out", "gone", "none"}] /\ fd'[d] = "none"
      /\ \A e \in Downloaders :
             (fd'[e] = "part" => Exists(part')) /\ (fd'[e] = "out" => Exists(out'))
      /\ \A e \in Downloaders \ {d} : fd'[e] = fd[e]
  BY <1>1, <1>3, <1>5, <1>6 DEF ClosedBy
<1>8. PartFits' /\ OutputWhole'
  <2>1. Exists(part') => Len(part'.data) <= Len(manifest.plain)
    BY <1>4, <1>5 DEF Grown
  <2> QED
    BY <1>6, <2>1 DEF PartFits, OutputWhole, Whole
<1>9. \A e \in Downloaders \ {d} : Aside(e)
  BY <1>1, <1>4, <1>5, <1>7 DEF Aside
<1>10. ASSUME dnRun[d].hashed = manifest.plain, Exists(part)
       PROVE  Whole(part')
  <2>1. part.data = manifest.plain /\ fd[d] = "part"
    BY <1>1, <1>10, HashedToTheEnd
  <2>2. CASE FsyncMayFail
    BY <1>4, <1>10, <2>1, <2>2 DEF Whole, Durable
  <2>3. CASE ~FsyncMayFail
    <3>1. part' = Synced(part) /\ part \in File
      BY <1>2, <1>10, <2>1, <2>3, ManifestFacts
    <3> QED
      BY <2>1, <3>1, SyncedFile DEF Whole
  <2> QED
    BY <2>2, <2>3
<1>11. CheckedIsWhole(d)'
  BY <1>1, <1>5, <1>10 DEF CheckedIsWhole, Whole
<1>12. DnSound(d)'
  BY <1>1, <1>11 DEF DnSound, WritesPart, HashedIsThere, NeverEmpties, Writing
<1>13. \A e \in Downloaders \ {d} : Apart(d, e)' /\ Apart(e, d)'
  BY <1>1, <1>5, ApartLater DEF NotOpened, Idle, Receiving, Writing
<1> QED
  BY <1>8, <1>9, <1>12, <1>13, OneKeeps

\* The hash is that of the manifest (receiver_download_decrypt.py:257-261).
LEMMA VerifiesKeep ==
  ASSUME DownloadsInv, FreshAlone, DownloadsTyped', UNCHANGED manifest,
         NEW d \in Downloaders, Verifies(d)
  PROVE  DownloadsInv'
<1>1. /\ dnRun[d].pc = "verify" /\ dnRun[d].hashed = dnRun[d].m.plain
      /\ UNCHANGED <<part, nextIndex, out, fd>>
      /\ dnRun'[d].pc = "promote" /\ dnRun'[d].resume = dnRun[d].resume
      /\ dnRun'[d].m = dnRun[d].m /\ dnRun'[d].index = dnRun[d].index
      /\ dnRun'[d].hashed = dnRun[d].hashed
      /\ \A e \in Downloaders \ {d} : dnRun'[e] = dnRun[e]
  BY RunGoes DEF Verifies
<1>2. PartFits' /\ OutputWhole' /\ \A e \in Downloaders \ {d} : Aside(e)
  BY <1>1, FilesKept, Knows DEF TypedFiles
<1>3. dnRun[d].m = manifest /\ CheckedIsWhole(d)
  BY <1>1, Knows DEF TypedDn, DnSound, Informed, Receiving
<1>4. CheckedIsWhole(d)'
  BY <1>1, <1>3 DEF CheckedIsWhole, Whole, Exists
<1>5. DnSound(d)'
  BY <1>1, <1>4 DEF DnSound, WritesPart, HashedIsThere, NeverEmpties, Writing
<1>6. \A e \in Downloaders \ {d} : Apart(d, e)' /\ Apart(e, d)'
  BY <1>1, ApartLater DEF NotOpened, Idle, Receiving, Exists
<1> QED
  BY <1>2, <1>5, <1>6, OneKeeps

\* The rename of the partial file to the output (receiver_download_decrypt.py:263-267).
LEMMA PromotesKeep ==
  ASSUME DownloadsInv, FreshAlone, DownloadsTyped', UNCHANGED manifest,
         NEW d \in Downloaders, Promotes(d)
  PROVE  DownloadsInv'
<1>1. /\ dnRun[d].pc = "promote" /\ Exists(part)
      /\ out' = part /\ part' = Absent /\ fd' = FdsRenamed /\ UNCHANGED nextIndex
      /\ dnRun'[d].pc = "promoted" /\ dnRun'[d].resume = dnRun[d].resume
      /\ dnRun'[d].m = dnRun[d].m /\ dnRun'[d].index = dnRun[d].index
      /\ dnRun'[d].hashed = dnRun[d].hashed
      /\ \A e \in Downloaders \ {d} : dnRun'[e] = dnRun[e]
  BY RunGoes DEF Promotes
<1>2. Whole(part)
  BY <1>1, Knows DEF DnSound, CheckedIsWhole
<1>3. /\ PartFits' /\ OutputWhole' /\ \A e \in Downloaders \ {d} : Aside(e)
  BY <1>1, <1>2, PartGoes
<1>4. DnSound(d)'
  BY <1>1, NotReceiving
<1>5. \A e \in Downloaders \ {d} : Apart(d, e)' /\ Apart(e, d)'
  BY <1>1, ApartLater DEF NotOpened, Idle, Receiving, Writing
<1> QED
  BY <1>3, <1>4, <1>5, OneKeeps

\* The state file goes; exit code 0 (receiver_download_decrypt.py:271-275).
LEMMA FinishesKeep ==
  ASSUME DownloadsInv, FreshAlone, DownloadsTyped', UNCHANGED manifest,
         NEW d \in Downloaders, Finishes(d)
  PROVE  DownloadsInv'
<1>1. /\ dnRun[d].pc = "promoted" /\ nextIndex' = Absent /\ UNCHANGED <<part, out, fd>>
      /\ dnRun'[d].pc = "ok" /\ dnRun'[d].resume = dnRun[d].resume
      /\ dnRun'[d].m = dnRun[d].m /\ dnRun'[d].index = dnRun[d].index
      /\ dnRun'[d].hashed = dnRun[d].hashed
      /\ \A e \in Downloaders \ {d} : dnRun'[e] = dnRun[e]
  BY RunGoes DEF Finishes
<1>2. PartFits' /\ OutputWhole' /\ \A e \in Downloaders \ {d} : Aside(e)
  BY <1>1, FilesKept
<1>3. DnSound(d)'
  BY <1>1, NotReceiving DEF Idle
<1>4. \A e \in Downloaders \ {d} : Apart(d, e)' /\ Apart(e, d)'
  BY <1>1, ApartLater DEF NotOpened, Idle, Receiving, Writing
<1> QED
  BY <1>2, <1>3, <1>4, OneKeeps

\* A step of no run that leaves the partial file alone.
LEMMA BothAside ==
  ASSUME DownloadsInv, DownloadsTyped', UNCHANGED <<manifest, part, dnRun>>,
         OutputWhole', \A d \in Downloaders : Aside(d)
  PROVE  DownloadsInv'
<1>1. \A d \in Downloaders : DnSound(d)'
  BY Looker
<1>2. PartFits'
  BY Knows, TwoDownloaders DEF PartFits, Exists
<1>3. \A d \in Downloaders : \A e \in Downloaders \ {d} : Apart(d, e)'
  BY DEF DownloadsInv, Apart, Exists
<1> QED
  BY <1>1, <1>2, <1>3 DEF DownloadsInv

\* Nothing but the broker, or what has been delivered, takes note.
LEMMA NothingKeeps ==
  ASSUME DownloadsInv, DownloadsTyped', UNCHANGED manifest, NothingDone
  PROVE  DownloadsInv'
<1>1. UNCHANGED <<part, out, fd, dnRun>>
  BY DEF NothingDone
<1>2. OutputWhole'
  BY <1>1, Knows, TwoDownloaders DEF OutputWhole, Exists, Whole
<1>3. \A d \in Downloaders : Aside(d)
  <2>1. Exists(part) => Grown(part, part')
    BY <1>1, ManifestFacts, GrownSame
  <2> QED
    BY <1>1, <2>1 DEF Aside, Exists
<1> QED
  BY <1>1, <1>2, <1>3, BothAside

\* The user removes the output: no run that writes has it open.
LEMMA TakesOutputKeeps ==
  ASSUME DownloadsInv, DownloadsTyped', UNCHANGED manifest, TakesOutput
  PROVE  DownloadsInv'
<1>1. /\ out' = Absent /\ UNCHANGED <<part, dnRun>>
      /\ fd' = [c \in Clients |-> IF fd[c] = "out" THEN "gone" ELSE fd[c]]
  BY DEF TakesOutput
<1>2. \A d \in Downloaders : fd'[d] = IF fd[d] = "out" THEN "gone" ELSE fd[d]
  BY <1>1, TwoDownloaders
<1>3. OutputWhole'
  BY <1>1 DEF OutputWhole, Exists
<1>4. ASSUME NEW d \in Downloaders PROVE Aside(d)
  <2>1. Exists(part) => fd[d] # "out"
    BY <1>4, Knows DEF TypedDn, DnSound, WritesPart
  <2>2. Exists(part) => Grown(part, part')
    BY <1>1, ManifestFacts, GrownSame
  <2> QED
    BY <1>1, <1>2, <2>1, <2>2 DEF Aside, Exists
<1> QED
  BY <1>1, <1>3, <1>4, BothAside

\* The host loses power: the output is on the disk, of the partial file a beginning
\* that may be damaged.
LEMMA LosesPowerKeeps ==
  ASSUME DownloadsInv, DownloadsTyped', UNCHANGED manifest, LosesPower
  PROVE  DownloadsInv'
<1>1. /\ PowerMayFail /\ part' \in Torn(part) /\ out' \in Torn(out)
      /\ \A d \in Downloaders : dnRun'[d].pc = "off"
  BY OverFields DEF LosesPower, DnDiskLosesPower
<1>2. part \in File \cup {Absent} /\ out \in File \cup {Absent}
  BY Knows, TwoDownloaders DEF TypedFiles
<1>3. PartFits'
  <2>1. /\ part' \in File \cup {Absent} /\ (Exists(part') <=> Exists(part))
        /\ Exists(part) => Len(part'.data) <= Len(part.data)
    BY <1>1, <1>2, TornFile
  <2>2. Exists(part') => Len(part'.data) \in Nat
    BY <2>1 DEF Exists, File
  <2>3. Exists(part) => /\ Len(part.data) \in Nat /\ Len(manifest.plain) \in Nat
                        /\ Len(part.data) <= Len(manifest.plain)
    BY ManifestFacts
  <2>4. Exists(part') => Len(part'.data) <= Len(manifest.plain)
    BY <2>1, <2>2, <2>3
  <2> QED
    BY <2>4 DEF PartFits
<1>4. OutputWhole'
  <2>1. Exists(out) => Whole(out) /\ out.synced = Len(out.data)
    BY <1>1, ManifestFacts DEF Whole
  <2>2. (Exists(out') <=> Exists(out)) /\ (Exists(out) => out' = out)
    BY <1>1, <1>2, <2>1, TornFile
  <2> QED
    BY <2>1, <2>2 DEF OutputWhole, Whole
<1>5. \A d \in Downloaders : DnSound(d)'
  BY <1>1, NotReceiving DEF Idle
<1>6. \A d \in Downloaders : \A e \in Downloaders \ {d} : Apart(d, e)'
  BY <1>1 DEF Apart, Discarding, Receiving, Writing, Opening, Idle
<1> QED
  BY <1>3, <1>4, <1>5, <1>6 DEF DownloadsInv

\* The invariant survives every step.
LEMMA DownloadsStepInv ==
  ASSUME DownloadsInv, FreshAlone, Durable, DownloadsStep
  PROVE  DownloadsInv'
<1>1. DownloadsTyped' /\ UNCHANGED manifest
  BY DownloadsStayTyped, ManifestStays DEF DownloadsInv, DownloadsTyped, DownloadsStep
<1>2. ASSUME NEW d \in Downloaders, DnActs(d) PROVE DownloadsInv'
  <2>1. CASE Starts(d)
    BY <1>1, <2>1, StartsKeep
  <2>2. CASE Quits(d)
    BY <1>1, <2>2, QuitsKeep
  <2>3. CASE Raises(d)
    BY <1>1, <2>3, RaisesKeep
  <2>4. CASE GetsManifest(d)
    BY <1>1, <2>4, GetsManifestKeeps
  <2>5. CASE Drops(d)
    BY <1>1, <2>5, DropsKeep
  <2>6. CASE DropsState(d)
    BY <1>1, <2>6, DropsStateKeeps
  <2>7. CASE Resumes(d)
    BY <1>1, <2>7, ResumesKeep
  <2>8. CASE Looks(d)
    BY <1>1, <2>8, LooksKeep
  <2>9. CASE OpensNew(d)
    BY <1>1, <2>9, OpensNewKeeps
  <2>10. CASE OpensOld(d)
    BY <1>1, <2>10, OpensOldKeeps
  <2>11. CASE Fetches(d)
    BY <1>1, <2>11, FetchesKeep
  <2>12. CASE BreaksOff(d)
    BY <1>1, <2>12, BreaksOffKeeps
  <2>13. CASE Saves(d)
    BY <1>1, <2>13, SavesKeep
  <2>14. CASE Collides(d)
    BY <1>1, <2>14, CollidesKeep
  <2>15. CASE Syncs(d)
    BY <1>1, <2>15, SyncsKeep
  <2>16. CASE Verifies(d)
    BY <1>1, <2>16, VerifiesKeep
  <2>17. CASE Promotes(d)
    BY <1>1, <2>17, PromotesKeep
  <2>18. CASE Finishes(d)
    BY <1>1, <2>18, FinishesKeep
  <2>19. CASE Hashes(d)
    BY <1>1, <2>19, HashesKeep
  <2> QED
    BY <1>2, <2>1, <2>2, <2>3, <2>4, <2>5, <2>6, <2>7, <2>8, <2>9, <2>10, <2>11, <2>12, <2>13,
       <2>14, <2>15, <2>16, <2>17, <2>18, <2>19 DEF DnActs
<1>3. LosesPower => DownloadsInv'
  BY <1>1, LosesPowerKeeps
<1>4. TakesOutput => DownloadsInv'
  BY <1>1, TakesOutputKeeps
<1>5. NothingDone => DownloadsInv'
  BY <1>1, NothingKeeps
<1> QED
  BY <1>2, <1>3, <1>4, <1>5 DEF DownloadsStep

\* The invariant holds in the beginning.
LEMMA DownloadsBegin ==
  ASSUME MaxStray # 0, DownloadsInit
  PROVE  DownloadsInv
<1>1. /\ DownloadsTyped /\ ~Exists(part) /\ ~Exists(out)
      /\ \A d \in Downloaders : dnRun[d].pc = "off"
  BY DownloadsBeginTyped, OverFields
<1>3. \A d \in Downloaders : DnSound(d)
  BY <1>1 DEF DnSound, WritesPart, HashedIsThere, CheckedIsWhole, NeverEmpties, Writing
<1>4. \A d \in Downloaders : \A e \in Downloaders \ {d} : Apart(d, e)
  BY <1>1 DEF Apart, Discarding, Receiving, Writing, Opening, Idle
<1> QED
  BY <1>1, <1>3, <1>4 DEF DownloadsInv, PartFits, OutputWhole

(***************************************************************************)
(* The output never shows anything but the published content, whatever the *)
(* two runs do to each other's files (receiver_download_decrypt.py:192-205,*)
(* 232-235, 257-267), if no run is active while one discards what is there *)
(* and os.fsync reaches the disk or power is not lost.                     *)
(***************************************************************************)
THEOREM OutputIsWholeHolds ==
  ASSUME FreshAlone, ~FsyncMayFail \/ ~PowerMayFail, MaxStray # 0
  PROVE  DownloadsSpec => []OutputIsWhole
<1>1. DownloadsInv /\ [DownloadsNext]_downloadsVars => DownloadsInv'
  BY DownloadsMoves, DownloadsStepInv DEF Durable
<1>2. DownloadsInit => DownloadsInv
  BY DownloadsBegin
<1>3. DownloadsInv => OutputIsWhole
  BY DEF DownloadsInv, OutputWhole, OutputIsWhole, Whole
<1> QED
  BY <1>1, <1>2, <1>3, PTL DEF DownloadsSpec
=============================================================================
