--------------------------- MODULE EnvelopeSender ---------------------------
(***************************************************************************)
(* The uploading program of the envelope transfer                          *)
(* (sender_encrypt_upload.py) for one session id.  A run makes a data key  *)
(* and a sidecar file, or takes the key from the sidecar (--resume), asks  *)
(* the broker which chunks it has, compares those with what it would       *)
(* upload, uploads the others, and publishes the signed manifest.          *)
(***************************************************************************)
EXTENDS Broker

CONSTANTS
  Uploader,       \* this client
  ReuseSession    \* a run without --resume may use the session id again

ASSUME SenderAssumption == Uploader \in Clients /\ ReuseSession \in BOOLEAN

VARIABLES
  input,       \* the file named by --input, as it is now
  sidecar,     \* the sidecar file
  usedDeks,    \* history: data keys made so far
  upPc,        \* where the run is; "ok": the last run ended with exit code 0
  upDek,       \* dek of this run
  upSize,      \* plaintext_size of this run
  upOnBroker,  \* on_broker, the answer to LIST
  upHashed,    \* the bytes of the chunks done, which full_h was fed
  published    \* history: contents for which a manifest was signed and sent

upLocal == <<upDek, upSize, upOnBroker, upHashed>>
upVars == <<input, sidecar, usedDeks, upPc, upLocal, published>>

UpActive == {"list", "upload"}

Sidecar == [dek : Deks, size : Nat]

ASSUME SidecarAssumption == Absent \notin Deks \cup Sidecar

UpTypeOK ==
  /\ input \in Inputs
  /\ sidecar \in Sidecar \cup {Absent}
  /\ usedDeks \subseteq Deks
  /\ upPc \in UpActive \cup {"off", "ok"}
  /\ upDek \in Deks \cup {Absent}
  /\ (upDek # Absent) = (upPc \in UpActive)
  /\ upSize \in Nat
  /\ upOnBroker \subseteq Indices
  /\ upHashed \in Seq(Byte)
  /\ published \subseteq Seq(Byte)

UpInit ==
  /\ input \in Inputs
  /\ sidecar = Absent
  /\ usedDeks = {}
  /\ upPc = "off"
  /\ upDek = Absent
  /\ upSize = 0
  /\ upOnBroker = {}
  /\ upHashed = <<>>
  /\ published = {}

\* The run ends; its memory and its connection are gone.
UpExit(state) ==
  /\ upPc' = state
  /\ upDek' = Absent
  /\ upSize' = 0
  /\ upOnBroker' = {}
  /\ upHashed' = <<>>
  /\ connected' = connected \ {Uploader}

\* The run has its key and its sidecar, and connects to the broker.
UpBegin(dek) ==
  /\ upPc \in {"off", "ok"}
  /\ upDek' = dek
  /\ upSize' = Len(input)
  /\ upPc' = "list"
  /\ connected' = connected \cup {Uploader}
  /\ UNCHANGED <<input, upOnBroker, upHashed, published, store, stray>>

\* Without --resume: generate_dek, and a new sidecar over an old one.
UpStart(dek) ==
  /\ usedDeks = {} \/ ReuseSession
  /\ dek \notin usedDeks
  /\ usedDeks' = usedDeks \cup {dek}
  /\ sidecar' = [dek |-> dek, size |-> Len(input)]
  /\ UpBegin(dek)

\* Mutant of ResumeDek: the run resumes with a key of its own.
ResumeDekNew == CHOOSE k \in Deks : k # sidecar.dek

\* Mutant of ResumeDek: what is in the sidecar is not unwrapped.
ResumeDekWrapped == sidecar

ResumeDek == sidecar.dek

UpResume ==
  /\ sidecar # Absent
  /\ sidecar.size = Len(input)
  /\ UpBegin(ResumeDek)
  /\ UNCHANGED <<sidecar, usedDeks>>

UpList ==
  /\ upPc = "list" /\ Uploader \in connected
  /\ upOnBroker' = Stored
  /\ upPc' = "upload"
  /\ UNCHANGED <<input, sidecar, usedDeks, upDek, upSize, upHashed, published,
                 brokerVars>>

\* The loop has come to this chunk: there is one more, and it can be read.
Next_i == ChunkCount(Len(upHashed))
MoreChunks == Next_i < ChunkCount(upSize)
Readable == Offset(Next_i) + ChunkLength(Next_i, upSize) <= Len(input)
Plain == PlainChunk(input, Next_i, upSize)
Cipher == Encrypt(upDek, Next_i, Plain)

ChunkDone ==
  /\ upHashed' = upHashed \o Plain
  /\ UNCHANGED <<input, sidecar, usedDeks, upPc, upDek, upSize, upOnBroker, published>>

\* Mutant of SameAsStored: what is on the broker is taken to be right.
SameAsStoredAlways == TRUE

SameAsStored == chunks[Next_i] = Cipher

\* The broker has the chunk: GET it and compare.
UpCompare ==
  /\ upPc = "upload" /\ MoreChunks /\ Readable
  /\ Next_i \in upOnBroker /\ Uploader \in connected
  /\ SameAsStored
  /\ ChunkDone
  /\ UNCHANGED brokerVars

UpMismatch ==
  /\ upPc = "upload" /\ MoreChunks /\ Readable
  /\ Next_i \in upOnBroker /\ Uploader \in connected
  /\ ~SameAsStored
  /\ UpExit("off")
  /\ UNCHANGED <<input, sidecar, usedDeks, published, store, stray>>

\* Mutant of UpPut: the run does not wait for the answer.
UpPutUnanswered ==
  /\ upPc = "upload" /\ MoreChunks /\ Readable
  /\ Next_i \notin upOnBroker /\ Uploader \in connected
  /\ stray' = stray \cup {[cmd |-> "PUT_CHUNK", index |-> Next_i, ct |-> Cipher]}
  /\ ChunkDone
  /\ UNCHANGED <<store, connected>>

UpPut ==
  /\ upPc = "upload" /\ MoreChunks /\ Readable
  /\ Next_i \notin upOnBroker /\ Uploader \in connected
  /\ StoreChunk(Next_i, Cipher)
  /\ ChunkDone
  /\ UNCHANGED <<stray, connected>>

UpShortRead ==
  /\ upPc = "upload" /\ MoreChunks /\ ~Readable
  /\ UpExit("off")
  /\ UNCHANGED <<input, sidecar, usedDeks, published, store, stray>>

\* The manifest of the chunks done.
Signed == [dek |-> upDek, plain |-> upHashed]

\* PUT_MANIFEST is sent, the last request of the run.
UpEnd(state) ==
  /\ upPc = "upload" /\ ~MoreChunks /\ Uploader \in connected
  /\ published' = published \cup {upHashed}
  /\ UpExit(state)
  /\ UNCHANGED <<input, usedDeks, stray>>

\* It is answered; the sidecar is rewritten with a flag that nobody reads.
UpPublish == UpEnd("ok") /\ StoreManifest(Signed) /\ UNCHANGED sidecar

\* The request the run would send next, if it changes the broker.
Outstanding ==
  IF upPc # "upload" THEN {}
  ELSE IF ~MoreChunks THEN {[cmd |-> "PUT_MANIFEST", manifest |-> Signed]}
  ELSE IF Readable /\ Next_i \notin upOnBroker
       THEN {[cmd |-> "PUT_CHUNK", index |-> Next_i, ct |-> Cipher]}
  ELSE {}

\* The connection is gone, or the broker answers with an error.
UpFail ==
  /\ upPc \in UpActive
  /\ UpExit("off")
  /\ UNCHANGED <<input, sidecar, usedDeks, published, store, stray>>

\* Killed or timed out after it has sent a request.
UpFailSent ==
  /\ upPc \in UpActive /\ Uploader \in connected
  /\ Cardinality(stray) < MaxStray
  /\ \E r \in Outstanding :
       /\ stray' = stray \cup {r}
       /\ published' = IF r.cmd = "PUT_MANIFEST" THEN published \cup {upHashed}
                       ELSE published
  /\ UpExit("off")
  /\ UNCHANGED <<input, sidecar, usedDeks, store>>

\* It is answered, but the rewrite of the sidecar fails or the run is killed.
UpPublishCut == UpEnd("off") /\ StoreManifest(Signed) /\ UNCHANGED sidecar

\* It is answered with an error: the second rename has failed.
UpPublishHalf == UpEnd("off") /\ HalfManifest(Signed) /\ UNCHANGED sidecar

UpFault == UpFail \/ UpFailSent \/ UpPublishCut \/ UpPublishHalf

UpStep == UpList \/ UpCompare \/ UpMismatch \/ UpPut \/ UpShortRead \/ UpPublish

\* The user rewrites the input file in place.
EditInput ==
  /\ input' \in Inputs \ {input}
  /\ UNCHANGED <<sidecar, usedDeks, upPc, upLocal, published, brokerVars>>
=============================================================================
