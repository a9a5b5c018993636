# Verification of the two file-transfer programs

The repository holds two independent ways of moving one large file from a
sender to a receiver:

* **Approach A** (`approach-a-mtls-stream/`): two programs on one mutual-TLS
  connection; the receiver writes a partial file, verifies it and renames it.
* **Approach B** (`approach-b-envelope-broker/__pycache__/`): the sender
  encrypts the file chunk by chunk, stores the chunks and a signed manifest on
  a broker, and the receiver fetches, decrypts, verifies and renames.

Both promise the same thing to their user, and this project states that promise
once, in `AtomicDelivery`, and shows that both implement it: the destination
only ever shows a whole content the sender committed to, it appears in one
step, an existing one is replaced only with `--overwrite`, and success is only
reported for what was delivered. What makes it hard is resumption: both sides
can be killed, cut off, rerun and resumed between any two system calls, while
the input is edited and hosts lose power.

Source paths below are relative to the two directories above. "Model-checked"
means TLC on the small instances listed; "proved" means TLAPS, for all values
of the constants.

## 1. Inventory

| Component | State it keeps | Operations | Talks to |
|---|---|---|---|
| A receiver, `receiver.py` | per session `{session}.partial`, `{session}.meta.json`; the destination; in memory: OPEN message, next offset, running hash | accept, OPEN (new / resume / refuse), OPEN_ACK, chunk, EOF, verify, discard, promote, SERVER_OK / SERVER_ERROR | A sender, file system |
| A sender, `sender.py` | nothing on disk; in memory: offset, running hash | connect, OPEN, hash the prefix, chunks, EOF, verdict | A receiver, input file |
| A protocol, `common/protocol.py` | – | framing, field encodings, `write_chunk_at` | – |
| TLS contexts, `common/tls_context.py` | – | build `ssl` contexts | – |
| B broker, `broker_server.py` | per session: chunk files, `manifest.json`, `manifest.sig`; one lock per session | PUT_CHUNK, GET_CHUNK, LIST, PUT_MANIFEST, GET_MANIFEST | both B clients, one thread per connection |
| B sender, `sender_encrypt_upload.py` | sidecar `*.bupload.json` with the wrapped data key | new run / `--resume`, LIST, per chunk compare or PUT, publish the manifest | broker, input file |
| B receiver, `receiver_download_decrypt.py` | `*.partial`, state file `*.bdownload.json`, the output | manifest, new / `--resume`, per chunk GET, verify, write, save state; verify the whole; rename; fail closed | broker, file system |
| B crypto and manifest, `common/chunk_crypto.py`, `common/manifest.py` | – | derived nonces, AES-GCM, canonical JSON, PSS, OAEP | – |
| B protocol and client, `common/broker_protocol.py`, `common/broker_client.py` | – | framing, one request and one answer | – |
| `scripts/` | – | certificates, keys, a test file, comparing hashes | – |

**Hard behaviours and the properties they call for** (each one is at its line
in `PROJECT.json` "hazards"):

* A receiver: creating a session takes two file operations, finishing it two,
  discarding it two. A kill in between leaves one of the files. → `RerunSucceeds`.
* A receiver: the running hash, the next offset and the partial file must stay
  together over resumptions, part writes and power losses. → `StreamIsContiguous`,
  `PartialFitsMeta`, `DestinationIsVerified`, `DestinationWasOffered`, `ProgressIsKept`.
* A, both: the sender rehashes its own prefix, the receiver its own; they are
  equal only if nobody has edited the input. → `NothingRejected`,
  `HonestStreamAccepted`, `SuccessMeansDelivered`, `ImplementsDelivery`.
* A, both: blocking sockets on both sides. → `RunsEnd`.
* A and B receiver: the check of the destination is made early and again late;
  resumed runs skip the early one. → `NeverReplaced`, `OutputNeverReplaced`.
* B sender: an answer is lost, a run is resumed with the key of the sidecar, a
  session id is used again, a request of a killed run arrives late, the input
  is edited. → `PublishedIsComplete`, `HonestUploadAccepted`, `ImplementsDelivery`.
* B receiver: data, state file and running hash advance one after the other;
  partial files of other contents are resumed. → `HashCoversPartial`,
  `CountedIsThere`, `HonestUploadAccepted`, `LostConnectionIsResumable`.
* B sender, two runs of one upload beside each other: outdated answers to LIST,
  the same chunk put twice. → `PublishedIsComplete`, `StoredChunksStay` (`two_uploads`).
* B receiver, two runs beside each other: they share partial, state and output
  file, look at names, open them later, and check a hash of what they have
  written, not of what they rename. → `OutputIsWhole`.
* Broker: two renames for one manifest; nothing is ever fsynced. →
  `DownloadSucceeds`, `ImplementsDelivery`.
* Broker: a thread per connection, shared temporary files, one lock per session;
  frames in pieces or cut off; answers longer than a frame. → `ImplementsStore`,
  `FailsForAReason`, `CallsEnd`, and the theorems about `BrokerLimits`.

## 2. Modules

```
AtomicDelivery                          what a transfer promises
TransferFiles                           files: write at, fsync, power loss
  StreamProtocol                        A: frames, two FIFOs, the connection
    StreamSender                        A: sender.py
    OutputDirectory -> StreamReceiver   A: receiver.py
      ReceiverAnyPeer                   A: receiver against any well-formed peer
      MtlsStream                        A: everything together
  EnvelopeFormat                        B: chunks, ciphertexts, manifests
    Broker                              B: the broker, one step per request
      EnvelopeSender, EnvelopeReceiver  B: the two programs
        EnvelopeTransfer                B: everything together
      ConcurrentUploads                 B: two runs of one upload, the broker
      ConcurrentDownloads               B: two runs of one download, the broker
SessionRequests                         B: requests, answers, files of a session
  SessionStore                          B: what the broker promises (abstract)
  BrokerService                         B: threads, lock, temporary files, frames
BrokerLimits                            B: size limits of the protocol
TransferFileProofs                      lemmas about files and byte sequences
  StreamReceiverProofs -> ReceiverAnyPeerProofs, MtlsStreamProofs    A: proofs
BrokerProofs -> EnvelopeTransferProofs, ConcurrentRunsProofs         B: proofs
BrokerServiceProofs                     (with BrokerLimits)          B: proofs
MCMtlsStream, MCReceiverAnyPeer, MCEnvelopeTransfer, MCConcurrentUploads,
MCConcurrentDownloads, MCBrokerService
```

**Files (`TransferFiles`).** A file is its bytes and how many of them are known
to be on the disk. `WriteAt` is seek and write (a gap reads as `Zero`), `Synced`
is fsync. `Torn` is what a power loss may leave: cut anywhere after the synced
part, each later byte kept or zero. Renames, creations and unlinks are taken as
ordered and durable; SHA-256 is taken as injective, so a digest is represented
by the bytes it was computed from.

**Approach A.** One action per blocking step or file operation.

| Code | Module, actions |
|---|---|
| `receiver.py` 78-148 (OPEN, meta, ACK) | StreamReceiver: `RcvAccept`, `RcvOpenResume`, `RcvOpenNew`, `RcvOpenRefused`, `RcvWriteMeta`, `RcvAck` |
| 150-174 (chunks, EOF, fsync) | `RcvChunk`, `RcvStreamRefused`, `RcvEof`, fault `RcvPartWrite` |
| 176-189 (verify), 69-75 + 178-184 (clean up) | `RcvVerifyOk`, `RcvVerifyMismatch`, `RcvVerifyBlocked`, `RcvReject`, `RcvDiscard`, `RcvDiscardMeta`, fault `RcvDiscardFails` |
| 191-204 (rename, unlink, SERVER_OK) | `RcvPromote`, `RcvUnlinkMeta`, `RcvReply` |
| `main`'s exception handler, 241-257 | `Raise`, `RcvFail`, `RcvIoError` |
| `sender.py` 108-170 | StreamSender: `SndOpen`, `SndRecvAck`, `SndRecvAckEdited` (the input is rewritten while its prefix is hashed), `SndRecvRefusal`, `SndChunk`, `SndShortRead`, `SndEof`, `SndRecvOk`, `SndRecvError`, `SndFail` |

`rcvPc` and `sndPc` name the next step. `OutputDirectory` holds the partial and
meta file of every session and the destination, which all sessions share. The
wire is two FIFOs of frames; a lost connection keeps a prefix of what was on
the way. Kills (`SndKill`, `RcvKill`), I/O errors and power loss may hit
between any two steps. `offered` and `delivered` are history variables.

`ReceiverAnyPeer` replaces the sender by a peer that sends any well-formed
frames: what the receiver guarantees there it guarantees by its own checks.

**Approach B.**

| Code | Module, actions |
|---|---|
| `broker_server.py` 94-155 | Broker: `StoreChunk`, `StoreManifest`, `Stored` (LIST), reads of `chunks`, `manifest`, `signature` |
| `broker_server.py` 138-139, only the first rename done | `HalfManifest`: in `BrokerKilled`, `StrayHalfDone`, `UpPublishHalf` |
| `broker_client.py` 25-33: a client that is gone before the answer | `UpFailSent` leaves the request in `stray`; `ServeStray` serves it later, or never |
| `sender_encrypt_upload.py` 128-182 | EnvelopeSender: `UpStart` (new key, new sidecar), `UpResume` |
| 184-225 | `UpList`, `UpCompare`, `UpMismatch`, `UpPut`, `UpShortRead` |
| 227-251 | `UpPublish`, faults `UpPublishCut`, `UpPublishHalf`; with two runs `SidecarLost` (ConcurrentUploads) |
| `receiver_download_decrypt.py` 126-164 | EnvelopeReceiver: `DnStart`, `DnGetManifest`, `DnNoManifest`, `DnBadManifest` |
| 166-186 | `DnDiscardOld`, `DnDiscardState`, `DnResumable`, `DnCannotResume`, `DnUnreadableState` |
| 192 (choice of the mode), 194-204 (open, hash the prefix) | `DnMode`, `DnOpenNew`, `DnOpenOld`, `DnOpenFails`, `DnHash` (one byte a step), `DnShortPrefix` |
| 206-255 | `DnChunk`, `DnNoChunk`, `DnBadChunk`, `DnSave`, `DnSync`, fault `DnPartWrite` |
| 257-296 | `DnVerifyOk`, `DnVerifyMismatch`, `DnVerifyBlocked`, `DnPromote`, `DnNothingToPromote`, `DnFinish` |
| 286-289, 96-102 | `DnRaise`, `DnFailClosed`, `DnFailState` |

The receiver leaves in two ways and the model keeps them apart: `SystemExit`
(`DnStop`) keeps the files, any other exception (`DnRaise`) goes on to
`_fail_closed`. In these modules a request and its answer are one step, except for
the stray requests; that this is what the broker's threads amount to is shown by
`BrokerService` (below). A ciphertext is the triple (key, index, plaintext) that
determines it, because nonces are derived; a manifest is the key and the bytes
its hashes were computed from. The history variable `published` gets a content
when its signed manifest is sent.

The receiver's model keeps names and open files apart (`fd`): a run writes
through the file it has opened, and removes, measures and renames whatever has
the name. What a file that has lost its name contains is not kept: reading it
may give anything (`Reads`). For one run names and open files agree;
`ConcurrentDownloads` instantiates the program a second time
(`INSTANCE EnvelopeReceiver WITH ...`) on the same files, and adds `SaveCollision`, the two runs writing one temporary file
(`_atomic_write_json`, 59-64). `ConcurrentUploads` does the same for the sender;
there the runs share the input, the sidecar and the broker. The names of the two
modules differ (`UploadsNext`, `DownloadsNext`), so that one proof module can
extend both.

**The broker itself.** `SessionStore` is the abstract specification: a request is
carried out once, whole, at one instant between call and answer; one whose client
has given up later or never; a broker that is killed, or whose second rename
fails, may leave half a manifest. It is what `Broker` takes for granted. `BrokerService` is the code:

| Code | BrokerService |
|---|---|
| `broker_protocol.py` 38-66 | `Frame`, `Recv`, `FrameRead`, `CannotRead`: streams of units, delivered in pieces |
| `broker_client.py` 25-33 | `Send`, `Return`, `CallFails`, `Leave` |
| `broker_server.py` 72-92 | `CanServe`, `Done`, `Reply`, `ReplyTooLong`, `HandlerEnds` |
| 95-105, 126-140 | `Acquire`, `Write`, `WriteFails`, `RenameChunk`, `RenameManifest`, `RenameSignature`, `RenameFails` |
| 107-124, 142-155 | `Look` |

The refinement mapping shows the old manifest until the signature is renamed,
counts a request as carried out by its last rename (or when the handler has
looked), and calls a request stray when its client has gone and the whole frame
can still be read. A lock that protects only a reading handler is taken and
released in one step (`Look`).

## 3. What the runs check

TLC checks every run completely; the bounds are in the `.cfg` and `MC` files.

| Run | Instance | Shows |
|---|---|---|
| `stream_safety` | 2 sessions, one destination, 3 versions of the input (two of one length, the empty one), no `--overwrite` | `TypeOK`, `SuccessMeansDelivered`, `NeverReplaced`, refinement of `AtomicDelivery` |
| `stream_resume` | 1 unedited input, 2 sessions, 2 chunk sizes, fsync that may fail | `NothingRejected`, `ProgressIsKept` |
| `stream_retry` | power losses, edits, chunks of 2 in files of 3, buffers of one frame; a user who reruns both programs and removes orphans when told to | `DestinationWasOffered`, `HonestStreamAccepted`, `RunsEnd`, `RerunSucceeds` |
| `stream_wedged` (violation) | files of 2, without the manual cleanup | finding 1 |
| `any_peer` | 2 sessions, all frames with offsets 0..1 | `StreamIsContiguous`, `PartialFitsMeta`, `DestinationIsVerified`, `NeverReplaced`, `ProgressIsKept`, `TypeOK` |
| `envelope_safety` | 1 key, inputs of 1 and 2 chunks edited at any time, power losses of both hosts | `TypeOK`, `HashCoversPartial`, `OutputNeverReplaced`, refinement of `AtomicDelivery` |
| `envelope_retry` | one upload with `--resume`, an unedited input of 3 units in chunks of 2, up to 2 stray requests, fairness | `PublishedIsComplete`, `HonestUploadAccepted`, `CountedIsThere`, `DownloadSucceeds` |
| `envelope_interrupted` (violation) | the same, safety only | finding 2 |
| `two_uploads` | 2 keys, the session id used again, 3 versions of the input, a broker that may lose power | `PublishedIsComplete`, `StoredChunksStay`, `UploadsTypeOK` |
| `two_downloads` | 2 runs, 2 chunks, no `--overwrite`, kills, part writes, failing unlinks, power losses, a late PUT of another upload; nobody else active while a run discards (`FreshAlone`) | `OutputIsWhole`, `DownloadsTypeOK` |
| `two_downloads_fresh` (violation) | the same without `FreshAlone`, power losses and failing unlinks | finding 3 |
| `broker_rpc` | 2 connections, 2 requests (all kinds but GET_CHUNK, which takes the path of GET_MANIFEST), 2 manifests, a LIST answer that grows too long, full disks | refinement of `SessionStore`, `FailsForAReason`, `CallsEnd`, `TypeOK` |

**Why the bounds are enough.** Two sessions (A) are what it takes for one to
deliver while another is verifying. Files of two or three units in chunks of
one or two give a first, a last and a shorter last chunk, a chunk that is
written in part, and a resumption in the middle of a chunk; two versions that
differ in one unit show every mix. `Byte = {0, 1}` with `Zero = 0` lets a lost
block be seen or go unseen. `MaxInFlight = 1` makes every send block until the
peer has read; 2 lets frames be lost behind each other. `MaxStray` bounds the
requests of killed clients (each kill leaves at most one); they are in
`envelope_retry`, `two_downloads` and, in detail, in `broker_rpc`. Two runs of a program are what
it takes for one to act on what the other has changed. `two_downloads` runs
without `--overwrite`, which keeps it small: with it, a run may also start afresh
over a finished output; that is left to the theorem, which holds for both. In
`broker_rpc` two calls
give a write beside a write or a read, or one after a stray one; a header, a
command with its session id, and a payload are a few units, so that a stream
can end and a `recv` return inside each of them. Two data keys are
enough for a key to be the wrong one. Session and key symmetry is used for
safety only. The two runs of `two_downloads` are alike, so its `VIEW` (`EitherWay`)
does not tell which is which.

**Fairness.** Programs never wait for anything but their peer, so each program
has weak fairness on its own steps (`ProgramsRun`); in approach B also on
noticing that its connection is gone, which the socket timeout gives. In
`BrokerService` it is enough that some handler or client goes on as long as any
can. Nothing
is assumed of kills, faults, stray requests or edits. That the user runs the
programs again, takes the output away (B) or removes orphaned files (A, only in
`CaringUserSpec`) is assumed where a property says so; the last one needs strong
fairness because it is only possible between runs, and so does a download
without `--resume`, which the user must choose now and then. `Calm` is "from some
point on no faults, no edits, nobody puts a file at the output"; `[]<>` after it
covers every state that the faults before it can leave.

**Environment assumptions of approach B.** In `EnvelopeTransfer`, where requests
of killed runs may be served late, `PublishedIsComplete`, `HonestUploadAccepted`,
`CountedIsThere` and `DownloadSucceeds` are about the documented use: one upload
per session id and an input that stays as it is. `two_uploads` shows that only
late requests need the first: without them a session id may be used again. With
them, a late PUT of a killed run can overwrite a chunk of a published manifest;
the receiver then refuses it, and nothing wrong is delivered
(`OutputIsWhole`: `two_downloads` has such a request). In `ConcurrentUploads` the
user does not edit the input while two runs overlap (the history variable `overlapped`) and does not start a
run without `--resume` beside another: two data keys would mix, and the code
promises nothing for that. `DnReturnOutput` never puts a file at the output in
the instant between the last check (line 263) and the rename (line 267): there
the code would replace it, as it does when two runs finish together. So
`OutputNeverReplaced` says nothing of that instant.

**What the runs do not meet.** The inputs of `stream_retry` have one length and
are not empty; a file that has become shorter, and the empty file, are in
`stream_safety`, where deadlock is checked, but not in the liveness run. No power is
lost in `any_peer`: that a session never outgrows its recorded size after one is
only proved (`NoSessionOutgrows`). An upload whose old data key is
lost (the sidecar overwritten by a new run) is covered by no property: the code
promises nothing for it.

## 4. Findings

1. `stream_wedged`: a receiver killed between the two file operations that
   create (`receiver.py` 129-130) or finish (192-198) a session leaves one of its
   two files, and line 125 refuses the session on every later run. README.md:77
   says rerunning receiver and sender resumes.
2. `envelope_interrupted`: a connection lost in the middle of a download raises
   into `except Exception` (`receiver_download_decrypt.py` 286-288), which deletes
   the partial file and the state file; there is nothing left to `--resume` from.
   DESIGN.md:129 promises "receiver resume via partial + sidecar" for interrupted
   transfers.
3. `two_downloads_fresh`: nothing keeps two runs of one session and output apart.
   A run without `--resume` that removes or empties the partial file while another
   run is between its verification (`receiver_download_decrypt.py` 257-260) and its
   rename (267) makes that run install an incomplete file and exit 0.
   DESIGN.md:55: "unsafe partial files removed or not promoted to final names".
   `two_downloads` shows that resumed runs do not do this to each other.

Also seen, without a run of their own: on a digest mismatch the receiver of
approach A sends SERVER_ERROR before the cleanup (`receiver.py` 183-184), so a send
that raises leaves the corrupt partial file, although DESIGN.md:53 says "clear
partial state on cryptographic failure" (the next run resumes it and rejects it
again, `DestinationWasOffered`). And the broker never fsyncs: after a power loss a
resumed upload can meet a damaged chunk, which it refuses instead of uploading it
again (DESIGN.md:129 calls the chunks durable).

## 5. What is proved

For all sessions, inputs, bytes, chunk sizes, keys, buffer sizes and bounds:

| Theorem | Statement | Assumes |
|---|---|---|
| **ReceiverAnyPeerProofs** (A, against any peer) | | |
| `StreamSafe` | `[]StreamIsContiguous` | |
| `NoSessionOutgrows` | `[]PartialFitsMeta` | |
| `ProgressIsKeptHolds` | `ProgressIsKept` | no power loss |
| `DestinationVerified` | `[]DestinationIsVerified` | durable fsync |
| `NeverReplacedHolds` | `NeverReplaced` | durable fsync |
| `TypeCorrect` | `[]TypeOK` | |
| **MtlsStreamProofs** (A, both programs) | | |
| `StreamImplementsDelivery` | `ImplementsDelivery` | durable fsync |
| `DestinationIsOffered` | `[]DestinationWasOffered` | durable fsync |
| `SuccessIsDelivery` | `[]SuccessMeansDelivered` | |
| `NeverReplacedHolds` | `NeverReplaced` | durable fsync |
| `HonestStream` | `[]HonestStreamAccepted` | |
| `NothingIsRejected` | `[]NothingRejected` | `OneVersion`, no power loss |
| `ProgressIsKeptHolds` | `ProgressIsKept` | no power loss |
| `TypeCorrect` | `[]TypeOK` | |
| **EnvelopeTransferProofs** (B, both programs and the broker) | | |
| `TransferImplementsDelivery` | `ImplementsDelivery` | durable fsync |
| `NeverReplacedHolds` | `OutputNeverReplaced` | |
| `HashIsOfThePartial` | `[]HashCoversPartial` | |
| `PublishedIsCompleteHolds` | `[]PublishedIsComplete` | `SingleUpload` |
| `HonestUploadIsAccepted` | `[]HonestUploadAccepted` | `DocumentedUse` |
| `CountedIsThereHolds` | `[]CountedIsThere` | `DocumentedUse` |
| `TypeCorrect` | `[]TypeOK` | |
| **BrokerServiceProofs** (B, the broker's threads) | | |
| `ServiceImplementsStore` | `ImplementsStore` | |
| `NoBrokenConnection` | `[]FailsForAReason` | |
| `TypeCorrect` | `[]TypeOK` | |
| `ChunksFit`, `PublishedIsFetchable`, `PublishedIsListable` | about `BrokerLimits`, see below | |
| **ConcurrentRunsProofs** (B, two runs of one program) | | |
| `PublishedIsCompleteHolds` | `[]PublishedIsComplete` | no late requests |
| `OneUploadIsComplete` | `[]PublishedIsComplete` | `SingleUpload` |
| `StoredChunksStayHolds` | `StoredChunksStay` | no late requests |
| `UploadsTypeCorrect` | `[]UploadsTypeOK` | |
| `OutputIsWholeHolds` | `[]OutputIsWhole` | `FreshAlone`, durable fsync, room for the late request |
| `DownloadsTypeCorrect` | `[]DownloadsTypeOK` | room for the late request |

**Assumptions.** All rest on the named `ASSUME`s of the modules (bytes contain
`Zero`, `Absent` is not a file, chunk sizes are positive, inputs are byte
sequences), which TLC evaluates in every run. Beyond those:

* Durable fsync is `~(FsyncMayFail /\ PowerMayFail)`: the code logs a failing fsync
  and goes on, so with both the delivered file may be damaged later.
* No power loss is `~PowerMayFail`: a partial file may lose what was not fsynced,
  as `Torn` says, and then neither program can help it.
* `OneVersion`: nobody edits the input. An edit between two runs makes the
  receiver find a mixed file, which it must reject.
* `SingleUpload`: the input stays as it is, and a session id is not used for a
  second upload. Late requests of killed runs and power losses of the broker's
  host are allowed. Without the second part a late PUT of the first upload may
  replace a chunk of the second.
* `DocumentedUse`: `SingleUpload`, hosts that keep their files, and an unlink that
  works (a run without `--resume` that cannot remove an old partial file goes on
  with its state file).
* No late requests is `MaxStray = 0`: a request of an upload under another key that
  is served after the end of a run replaces what is stored, and `PublishedIsComplete` and
  `StoredChunksStay` fail with it. In exchange the session id may be used again and
  the input edited, under any number of keys.
* `FreshAlone`: no other run is active while one discards the partial file and opens
  its new one. Finding 3 is that `OutputIsWhole` fails without it.
* Room for the late request is `MaxStray # 0`. `ConcurrentDownloads` starts with one
  late request, so with `MaxStray = 0` its first state would exceed its own bound; it
  is no `ASSUME` because the uploads are also proved about with `MaxStray = 0`.
* `ServiceAssumption` (BrokerService, an `ASSUME`): the requests made are those the
  client can pack (a longer body raises in `write_frame` before anything is sent),
  a header has at least one unit, and there are finitely many chunk indices.
  Answers may be longer than a frame. Connections, requests, pieces and
  interleavings are arbitrary.

**The inductive invariants.** None of the properties is inductive by itself; what
each proof adds is the part of the code's reasoning that no line of it states.
TLC checked each of them on the instances of section 3 before it was proved.

* `RcvInv` (StreamReceiverProofs): types, `StreamIsContiguous`, `PartialFitsMeta`,
  and what they need: the meta file of a running session records what OPEN
  announced (`SessionIsRecorded`; otherwise a resumed chunk might outgrow it),
  a new run has hashed nothing (`RunStartsEmpty`), what is being promoted has
  been verified (`PromotionIsChecked`), and what was verified is on the disk
  (`CheckedIsDurable`; otherwise a power loss between fsync and rename, or after
  it, would break the rest). `RcvStepInv` proves it for every step of the
  receiver, its faults and its user once, and both compositions use it. So they
  do with `RcvKeepsProgress`, the same for `ProgressIsKept`.
* `BaseInv` (MtlsStreamProofs): `RcvInv` and the sender's own `SndInv` (its offset
  is the length of what it has hashed and stays below what it announced).
* `OfferInv`: every digest on the wire, and the one the receiver compares with,
  was offered by a run of the sender; with `PromotionIsChecked` the renamed file
  was offered.
* `VerdictInv`: ties the sender that waits for the verdict to the receiver that
  computes it: an EOF on the wire or in the receiver's hands is of this very
  run, and a SERVER_OK on the way means that its bytes were delivered.
* `RefineInv`: `OfferInv`, `VerdictInv` and "`delivered` is a subset of `offered`"; with
  it each step of `Next` is a step of `AtomicDelivery` or a stutter.
* `ConversationInv`: the frames on the wire continue each other and the receiver
  (`FramesFollow`: each chunk starts where the one before, or the receiver, ends,
  and an EOF comes at the announced size), an OPEN is alone on the wire, and each
  program is where the other takes it to be (`OpeningInStep`, `SendingInStep`).
  It gives `HonestStreamAccepted`: the receiver's checks of offset and size never
  fire on its own sender.
* `VersionInv`: `ConversationInv`, and with one version of the input every partial
  file is a beginning of it (`PartialsAreBeginnings`), every frame a piece of it at
  its place (`FramesArePieces`), and both hashes are of it.
* `BrokerInv` (BrokerProofs): types, and finitely many stray requests. `BrokerStepInv`
  also says where the manifest that verifies comes from: it was there, or a stray
  request carried it. `ServeStore` says the same of chunks.
* `TransferInv` (EnvelopeTransferProofs): `UploadInv` (a run works on a key it has, for
  a size the sidecar records, in order), `DownloadInv` (the partial file it writes
  is the one with the name, `PartIsOpen`; `HashCoversPartial`; what is promoted is
  what its manifest lists and is on the disk; while the prefix is hashed byte by byte,
  `HashedSoFar`, it is not all hashed yet), and the two links between the
  programs: the manifest on the broker, or on its way there, and the one the
  receiver has fetched are of published contents. `UploadActInv` and
  `DownloadActInv` prove it for every step of either program.
* `UploadedInv`: with one upload there is one key (`OneKey`), everything stored or on
  its way is what the input encrypts to under it (`AllIsOurs`), and a chunk that a
  run has passed is on the broker (`DoneIsThere`), so all are before there is a
  manifest.
* `DocumentedInv`: `UploadedInv`, nothing is garbled, the partial file is a beginning
  of the input with at least the chunks the state file counts (`PartIsPrefix`), and
  a run that opens a partial file has the state file of that partial file or none
  (`StateIsResumed`).
* `ServiceInv` (BrokerServiceProofs), for each connection: a connection that stands
  has both its ends (`LinkStands`); what the handler has read and what is still in
  the stream are together a beginning of one request (`Asked`), and towards the
  client of the one answer it waits for (`Answered`); a handler serves only a whole
  frame, and a request once (`Served`); the lock is held exactly by the handler that
  is in it (`LockHeld`), whose temporary files are then those of its own request
  (`Progress`). As two beginnings never share a stream, `BeginningOfFrame` and
  `ReadsUntilTheEnd` give that a frame is complete exactly when `recv_exact` has
  what it asked for, and that nothing but a lost peer ends a read.

* `RunsTyped` (ConcurrentRunsProofs), for each of two uploads: types, and the loop over
  the chunks (`InOrder`: a run has done whole chunks of a file of its size).
* `UploadsInv`, without late requests: a run that goes on works on the key and size of
  the sidecar (`FromSidecar`: neither an edit of the input nor a new upload gets
  between two runs), what it has done is stored (`DoneIsStored`), and, the core of
  it, a chunk that was not there when it looked is still not there or is the one
  it would put itself (`AheadIsSame`). So the outdated answer to LIST does no harm,
  `PutsTheSame` gives `StoredChunksStay`, and with it what is published stays
  complete, also when it was published before under another key.
* `OneUploadInv`: the counterpart of `UploadedInv` for two runs, with late requests.
* `DownloadsTyped`: types of two downloads, with the manifest that stays
  (`OneManifest`) and what each run has open by where it is.
* `DownloadsInv`: whatever one run does to the names, a run that writes has the partial
  file open or there is no partial file (`WritesPart`), and what it has hashed is what
  the partial file begins with if it is the published content so far
  (`HashedIsThere`, also in the middle of hashing the prefix). Both runs only ever write content of the manifest to its place
  (`Grown`), so a file that has begun well stays so, and what is about to be renamed is
  whole and synced or is gone (`CheckedIsWhole`). A resumed run never finds the
  partial file empty (`NeverEmpties`), so only a run that starts afresh can empty
  it, and `Apart` says that no other run is writing then. This is the one place
  `FreshAlone` is needed in.

Both programs of a module are the same, so `UploadsSteps` and `DownloadsSteps` first
show that every step of the specification is one of a few of one run `u` or `d`, over
functions of the run, and the invariants are proved for those: once, not twice.

`ServiceImplementsStore` goes through the actions: the rename of a chunk, the
rename of a signature and `Look` carry a request out (`Execute`, or `ExecuteStray`
when its client has gone); a disk that is full refuses it; a client that leaves
gives its call up; a kill between the two renames of a manifest, or a second one
that fails, is the half manifest that the store allows; every other step, the lock, the temporary files
and the pieces of frames among them, is a stutter. This is why `Broker`, on
which the theorems of approach B rest, may take a request as one step.

For the broker's protocol (`BrokerLimits`; the theorems are in BrokerServiceProofs), in bytes and for all sizes: a chunk
size the sender allows always fits a frame (`ChunksFit`), a manifest that can be
published can be fetched (`PublishedIsFetchable`), and an upload whose manifest
can be published can be listed, so it can be resumed (`PublishedIsListable`; an
entry of a manifest is never shorter than 247 bytes, an index in the answer to
LIST takes 8).

**Only model-checked.** All liveness (`RunsEnd`, `RerunSucceeds`,
`DownloadSucceeds`, `CallsEnd`), which is out of TLAPS's reach here. Every other
property of a passing run is a theorem. The two conditions on the user in
`ConcurrentUploads` (no edit and no run without `--resume` beside another run) are
part of its `UploadsUser`, so the theorems have them too.

## 6. Not modelled

* Cryptography: hashes, AES-GCM, signatures and key wrapping are ideal. TLS
  delivers frames in order and unchanged, or breaks.
* The encodings inside a body, beyond their lengths (`BrokerLimits`) and the
  framing (`BrokerService`; for approach A frames are records); argument parsing,
  logging, progress and throughput output.
* Wall-clock time: a socket timeout is a lost connection, a manifest that has
  become too old is an error that may happen at any resumption.
* Two receivers in one output directory (A).
* Two uploads of one session with two data keys at the same time, and edits of
  the input while two runs of one upload overlap (B).
* Power failures together with `BrokerService`: what they leave is in `Broker`.
* A power failure of the sender's host (the B sidecar is not fsynced).
* File names: all sessions of approach A share one destination name, as they do
  when the sender announces the same name; several destinations do not interact.
* An error in a first rename of the broker (104, 138): it leaves what a failing
  write leaves, which is modelled.
* The branch `start_idx == 0` of a resumed download (186-187): a state file is only
  written after a chunk, so it never counts 0.
* The scripts, which have no state.

## 7. What could come next

1. Two receivers of approach A in one output directory: `receiver.py` has the same
   gap between the hash and the rename as finding 3.
2. Two uploads that each make a data key at the same time: a weaker promise than
   `PublishedIsComplete` (the receiver refuses the mixture) should hold.
3. A power failure of the sender's host: the sidecar is renamed but not fsynced.
