-------------------------- MODULE EnvelopeReceiver --------------------------
(***************************************************************************)
(* The downloading program of the envelope transfer                        *)
(* (receiver_download_decrypt.py) for one session id and one output path.  *)
(* A run fetches and verifies the manifest, discards what an earlier run   *)
(* has left or resumes from it (--resume), fetches and decrypts the chunks *)
(* into the partial file, verifies the whole and renames it.               *)
(*                                                                         *)
(* The code leaves in two ways.  SystemExit ends the run and keeps the     *)
(* partial file and the state file; any other exception, a lost connection *)
(* among them, removes both.                                               *)
(*                                                                         *)
(* Names and open files are kept apart: a run writes through the file it   *)
(* has opened, whatever has become of its name, and everything else it     *)
(* does goes by name.  While it is the only run the two agree.             *)
(***************************************************************************)
EXTENDS Broker

CONSTANTS
  Downloader,    \* this client
  Overwrite,     \* --overwrite
  FsyncMayFail,  \* os.fsync may raise OSError (only logged by the code)
  UnlinkMayFail, \* removing a file may raise OSError (only logged by the code)
  PowerMayFail   \* the host of the output file may lose power

ASSUME ReceiverAssumption ==
  /\ Downloader \in Clients
  /\ {Overwrite, FsyncMayFail, UnlinkMayFail, PowerMayFail} \subseteq BOOLEAN

VARIABLES
  part,        \* <output>.<session>.partial
  nextIndex,   \* next_chunk_index in the state file <output>.<session>.bdownload.json
  out,         \* the output file
  fd,          \* per client, the file it has open: "part" or "out" if it has
               \* that name, "gone" if it has no name any more, or "none"
  delivered,   \* history: contents that have been renamed to the output
  dnPc,        \* where the run is; "ok": the last run ended with exit code 0
  dnResume,    \* --resume
  dnManifest,  \* m, the verified manifest
  dnIndex,     \* index of the next chunk
  dnHashed     \* the bytes full_h was fed

dnDisk == <<part, nextIndex, out, fd, delivered>>
dnLocal == <<dnResume, dnManifest, dnIndex, dnHashed>>
dnVars == <<dnDisk, dnPc, dnLocal>>

Idle == {"off", "ok"}
Writing == {"hash", "chunk", "save"}
Receiving == Writing \cup {"verify", "promote"}
DnActive == {"manifest", "begin", "discardState", "mode", "openOld", "openNew",
             "promoted", "fail", "failState"} \cup Receiving

DnTypeOK ==
  /\ part \in File \cup {Absent}
  /\ nextIndex \in Nat \cup {Absent, Garbled}
  /\ out \in File \cup {Absent}
  /\ fd \in [Clients -> {"part", "out", "gone", "none"}]
  /\ (fd[Downloader] = "none") = (dnPc \notin Writing)
  /\ delivered \subseteq Seq(Byte)
  /\ dnPc \in Idle \cup DnActive
  /\ dnResume \in BOOLEAN
  /\ dnManifest \in Manifest \cup {Absent}
  /\ dnIndex \in Nat
  /\ dnHashed \in Seq(Byte)

DnInit ==
  /\ part = Absent
  /\ nextIndex = Absent
  /\ out = Absent
  /\ fd = [c \in Clients |-> "none"]
  /\ delivered = {}
  /\ dnPc = "off"
  /\ dnResume = FALSE
  /\ dnManifest = Absent
  /\ dnIndex = 0
  /\ dnHashed = <<>>

\* This client opens the partial file, or has closed what it had open.
Opened == [fd EXCEPT ![Downloader] = "part"]

\* Mutant of Closed: the run fails, or ends, with the file still open.
ClosedLater == fd

Closed == [fd EXCEPT ![Downloader] = "none"]

\* What the open files are after the partial file is removed or renamed.
FdsUnlinked == [c \in Clients |-> IF fd[c] = "part" THEN "gone" ELSE fd[c]]
FdsRenamed ==
  [c \in Clients |-> CASE fd[c] = "part" -> "out"
                        [] fd[c] = "out"  -> "gone"
                        [] OTHER          -> fd[c]]

\* The process ends with its memory and its connection.
DnForget ==
  /\ dnPc' = "off"
  /\ dnResume' = FALSE
  /\ dnManifest' = Absent
  /\ dnIndex' = 0
  /\ dnHashed' = <<>>

DnExit ==
  /\ DnForget
  /\ connected' = connected \ {Downloader}
  /\ UNCHANGED <<store, stray>>

\* SystemExit: the files stay.
DnStop == DnExit /\ fd' = Closed /\ UNCHANGED <<part, nextIndex, out, delivered>>

\* Any other exception: on to _fail_closed([partial, state_path]).
DnRaise ==
  /\ dnPc' = "fail"
  /\ fd' = Closed
  /\ UNCHANGED <<part, nextIndex, out, delivered, dnLocal, brokerVars>>

DnStart(resume) ==
  /\ dnPc \in Idle
  /\ Exists(out) => Overwrite \/ resume
  /\ dnPc' = "manifest"
  /\ dnResume' = resume
  /\ dnManifest' = Absent
  /\ dnIndex' = 0
  /\ dnHashed' = <<>>
  /\ connected' = connected \cup {Downloader}
  /\ UNCHANGED <<dnDisk, store, stray>>

\* GET_MANIFEST: both files are there.
DnManifestFound == manifest # Absent /\ signature # Absent

DnGetManifest ==
  /\ dnPc = "manifest" /\ Downloader \in connected
  /\ DnManifestFound /\ ManifestVerifies
  /\ dnManifest' = manifest
  /\ dnPc' = "begin"
  /\ UNCHANGED <<dnDisk, dnResume, dnIndex, dnHashed, brokerVars>>

DnNoManifest ==
  /\ dnPc = "manifest" /\ Downloader \in connected
  /\ ~DnManifestFound
  /\ DnStop

DnBadManifest ==
  /\ dnPc = "manifest" /\ Downloader \in connected
  /\ DnManifestFound /\ ~ManifestVerifies
  /\ DnRaise

\* _fail_closed, one file: an unlink that fails is logged, the file stays.
Unlinked(f) == {Absent} \cup (IF UnlinkMayFail THEN {f} ELSE {})

UnlinkPart ==
  /\ part' \in Unlinked(part)
  /\ fd' = IF part' = Absent THEN FdsUnlinked ELSE fd

\* Without --resume: _fail_closed([partial, state_path]).
DnDiscardOld ==
  /\ dnPc = "begin" /\ ~dnResume
  /\ UnlinkPart
  /\ dnPc' = "discardState"
  /\ UNCHANGED <<nextIndex, out, delivered, dnLocal, brokerVars>>

DnDiscardState ==
  /\ dnPc = "discardState"
  /\ nextIndex' \in Unlinked(nextIndex)
  /\ dnPc' = "mode"
  /\ UNCHANGED <<part, out, fd, delivered, dnLocal, brokerVars>>

\* What is left covers the first n chunks.
Prefix(n) == OffsetBefore(dnManifest, n)
Covers(n) == Exists(part) /\ Len(part.data) >= Prefix(n)

DnResumable ==
  /\ dnPc = "begin" /\ dnResume
  /\ nextIndex \in Nat /\ Covers(nextIndex)
  /\ dnIndex' = nextIndex
  /\ dnPc' = "mode"
  /\ UNCHANGED <<dnDisk, dnResume, dnManifest, dnHashed, brokerVars>>

\* Mutant of DnMode: the partial file is always emptied.
DnModeNew ==
  /\ dnPc = "mode"
  /\ dnPc' = "openNew"
  /\ UNCHANGED <<dnDisk, dnLocal, brokerVars>>

\* The mode is chosen by a look at the partial file, before it is opened.
DnMode ==
  /\ dnPc = "mode"
  /\ dnPc' = IF Exists(part) /\ part.data # <<>> THEN "openOld" ELSE "openNew"
  /\ UNCHANGED <<dnDisk, dnLocal, brokerVars>>

\* Mode "wb" creates the file, or empties the one that is there.
DnOpenNew ==
  /\ dnPc = "openNew"
  /\ part' = EmptyFile
  /\ fd' = Opened
  /\ dnPc' = "chunk"
  /\ UNCHANGED <<nextIndex, out, delivered, dnLocal, brokerVars>>

\* Mutant of AfterHashing: what is there is not hashed.
AfterHashingNothing(n) == "chunk"

\* Where a run goes on that has hashed n bytes of the prefix.
AfterHashing(n) == IF n < Prefix(dnIndex) THEN "hash" ELSE "chunk"

\* Mode "r+b": the file that is there.
DnOpenOld ==
  /\ dnPc = "openOld" /\ Exists(part)
  /\ fd' = Opened
  /\ dnPc' = AfterHashing(0)
  /\ UNCHANGED <<part, nextIndex, out, delivered, dnLocal, brokerVars>>

\* It has been removed since the last look.
DnOpenFails == dnPc = "openOld" /\ ~Exists(part) /\ DnRaise

\* The open file can be read at i and there is b.  What a file without a name
\* contains is not kept: it may be anything.
Reads(i, b) ==
  CASE fd[Downloader] = "part" -> i <= Len(part.data) /\ b = part.data[i]
    [] fd[Downloader] = "out"  -> i <= Len(out.data) /\ b = out.data[i]
    [] OTHER                   -> TRUE

\* A resumed run hashes the prefix of the open file, byte by byte.
DnHash ==
  /\ dnPc = "hash"
  /\ \E b \in Byte :
       /\ Reads(Len(dnHashed) + 1, b)
       /\ dnHashed' = Append(dnHashed, b)
  /\ dnPc' = AfterHashing(Len(dnHashed) + 1)
  /\ UNCHANGED <<dnDisk, dnResume, dnManifest, dnIndex, brokerVars>>

\* It is shorter than the chunks counted.
DnShortPrefix ==
  /\ dnPc = "hash"
  /\ fd[Downloader] = "gone" \/ \A b \in Byte : ~Reads(Len(dnHashed) + 1, b)
  /\ DnRaise

\* No state file, or too little to resume from.  (A state file never counts 0.)
DnCannotResume ==
  /\ dnPc = "begin" /\ dnResume
  /\ nextIndex = Absent \/ (nextIndex \in Nat /\ ~Covers(nextIndex))
  /\ DnStop

DnUnreadableState ==
  /\ dnPc = "begin" /\ dnResume
  /\ nextIndex = Garbled
  /\ DnRaise

DnMoreChunks == dnIndex < ChunkCount(Len(dnManifest.plain))
DnPlain == PlainChunk(dnManifest.plain, dnIndex, Len(dnManifest.plain))

\* The ciphertext has the listed hash; it then decrypts to the listed plaintext.
Genuine == chunks[dnIndex] = Listed(dnManifest, dnIndex)

\* A write goes to the open file.
Write(data) ==
  LET off == OffsetBefore(dnManifest, dnIndex)
  IN /\ part' = IF fd[Downloader] = "part" THEN WriteAt(part, off, data) ELSE part
     /\ out'  = IF fd[Downloader] = "out"  THEN WriteAt(out, off, data)  ELSE out

DnChunk ==
  /\ dnPc = "chunk" /\ DnMoreChunks /\ Downloader \in connected
  /\ chunks[dnIndex] # Absent /\ Genuine
  /\ Write(chunks[dnIndex].data)
  /\ dnHashed' = dnHashed \o chunks[dnIndex].data
  /\ dnPc' = "save"
  /\ UNCHANGED <<nextIndex, fd, delivered, dnResume, dnManifest, dnIndex, brokerVars>>

DnNoChunk ==
  /\ dnPc = "chunk" /\ DnMoreChunks /\ Downloader \in connected
  /\ chunks[dnIndex] = Absent
  /\ DnStop

DnBadChunk ==
  /\ dnPc = "chunk" /\ DnMoreChunks /\ Downloader \in connected
  /\ chunks[dnIndex] # Absent /\ ~Genuine
  /\ DnRaise

\* Mutant of SavedIndex: the chunk after this one is counted too.
SavedIndexAhead == dnIndex + 2

SavedIndex == dnIndex + 1

\* The state file counts the chunk as done.
DnSave ==
  /\ dnPc = "save"
  /\ nextIndex' = SavedIndex
  /\ dnIndex' = dnIndex + 1
  /\ dnPc' = "chunk"
  /\ UNCHANGED <<part, out, fd, delivered, dnResume, dnManifest, dnHashed, brokerVars>>

\* os.fsync and the end of the with block.
DnSync ==
  /\ dnPc = "chunk" /\ ~DnMoreChunks
  /\ \/ /\ part' = IF fd[Downloader] = "part" THEN Synced(part) ELSE part
        /\ out'  = IF fd[Downloader] = "out"  THEN Synced(out)  ELSE out
     \/ FsyncMayFail /\ UNCHANGED <<part, out>>
  /\ fd' = Closed
  /\ dnPc' = "verify"
  /\ UNCHANGED <<nextIndex, delivered, dnLocal, brokerVars>>

\* Mutant of DnVerified: the size alone is checked.
DnVerifiedSize == Exists(part) /\ Len(part.data) = Len(dnManifest.plain)

\* The hash is of the bytes written, the size that of the file with the name.
DnVerified ==
  /\ dnHashed = dnManifest.plain
  /\ Exists(part) /\ Len(part.data) = Len(dnManifest.plain)

\* Mutant of DnMayInstall: the output is checked at the start only.
DnMayInstallAlways == TRUE

DnMayInstall == Overwrite \/ ~Exists(out)

DnVerifyOk ==
  /\ dnPc = "verify" /\ DnVerified /\ DnMayInstall
  /\ dnPc' = "promote"
  /\ UNCHANGED <<dnDisk, dnLocal, brokerVars>>

DnVerifyMismatch == dnPc = "verify" /\ ~DnVerified /\ DnRaise

DnVerifyBlocked == dnPc = "verify" /\ DnVerified /\ ~DnMayInstall /\ DnStop

DnPromote ==
  /\ dnPc = "promote" /\ Exists(part)
  /\ out' = part
  /\ fd' = FdsRenamed
  /\ delivered' = delivered \cup {part.data}
  /\ part' = Absent
  /\ dnPc' = "promoted"
  /\ UNCHANGED <<nextIndex, dnLocal, brokerVars>>

DnNothingToPromote == dnPc = "promote" /\ ~Exists(part) /\ DnStop

\* The state file goes; exit code 0.
DnFinish ==
  /\ dnPc = "promoted"
  /\ nextIndex' = Absent
  /\ dnPc' = "ok"
  /\ connected' = connected \ {Downloader}
  /\ UNCHANGED <<part, out, fd, delivered, dnLocal, store, stray>>

\* A request fails with the connection: timeout, reset, broker gone.
DnDisconnected ==
  /\ Downloader \notin connected
  /\ dnPc = "manifest" \/ (dnPc = "chunk" /\ DnMoreChunks)
  /\ DnRaise

\* _fail_closed, file by file.
DnFailClosed ==
  /\ dnPc = "fail"
  /\ UnlinkPart
  /\ dnPc' = "failState"
  /\ UNCHANGED <<nextIndex, out, delivered, dnLocal, brokerVars>>

DnFailState ==
  /\ dnPc = "failState"
  /\ nextIndex' \in Unlinked(nextIndex)
  /\ DnExit
  /\ UNCHANGED <<part, out, fd, delivered>>

DnStep ==
  \/ DnGetManifest \/ DnNoManifest \/ DnBadManifest
  \/ DnDiscardOld \/ DnDiscardState
  \/ DnResumable \/ DnCannotResume \/ DnUnreadableState
  \/ DnMode \/ DnOpenNew \/ DnOpenOld \/ DnOpenFails \/ DnHash \/ DnShortPrefix
  \/ DnChunk \/ DnNoChunk \/ DnBadChunk \/ DnSave \/ DnSync
  \/ DnVerifyOk \/ DnVerifyMismatch \/ DnVerifyBlocked \/ DnPromote
  \/ DnNothingToPromote \/ DnFinish
  \/ DnDisconnected \/ DnFailClosed \/ DnFailState

-----------------------------------------------------------------------------
(* Faults, and the user.                                                   *)

\* A file operation raises OSError, or the manifest has become too old.
DnError ==
  /\ dnPc \in {"begin", "discardState", "mode", "openOld", "openNew", "hash", "save",
               "verify", "promoted"}
       \/ (dnPc = "manifest" /\ DnManifestFound /\ ManifestVerifies)
  /\ DnRaise

\* The rename fails, or the broker answers with an error.
DnStopped == dnPc \in {"manifest", "chunk", "promote"} /\ DnStop

DnKill == dnPc \in DnActive /\ DnStop

\* The write of a chunk stops half way: killed, or out of space.
DnPartWrite ==
  /\ dnPc = "chunk" /\ DnMoreChunks /\ Downloader \in connected
  /\ chunks[dnIndex] # Absent /\ Genuine
  /\ \E n \in 1..Len(chunks[dnIndex].data) : Write(SubSeq(chunks[dnIndex].data, 1, n))
  /\ fd' = Closed
  /\ UNCHANGED <<nextIndex, delivered>>
  /\ \/ DnExit
     \/ dnPc' = "fail" /\ UNCHANGED <<dnLocal, brokerVars>>

\* The state file is never fsynced.
DnDiskLosesPower ==
  /\ PowerMayFail
  /\ part' \in Torn(part)
  /\ out' \in Torn(out)
  /\ nextIndex' \in Unsynced(nextIndex)
  /\ fd' = [c \in Clients |-> "none"]
  /\ UNCHANGED delivered

DnPowerLoss == DnDiskLosesPower /\ DnExit

DnFault ==
  DnError \/ DnStopped \/ DnKill \/ DnPartWrite \/ DnPowerLoss

\* The user removes the output.
DnTakeOutput ==
  /\ Exists(out)
  /\ out' = Absent
  /\ fd' = [c \in Clients |-> IF fd[c] = "out" THEN "gone" ELSE fd[c]]
  /\ UNCHANGED <<part, nextIndex, delivered, dnPc, dnLocal, brokerVars>>

\* The user puts a delivered file back, with all of it on the disk; not in the
\* instant between the run's last look at the output and its rename.
DnReturnOutput ==
  /\ ~Exists(out) /\ dnPc # "promote"
  /\ \E c \in delivered : out' = [data |-> c, synced |-> Len(c)]
  /\ UNCHANGED <<part, nextIndex, fd, delivered, dnPc, dnLocal, brokerVars>>

-----------------------------------------------------------------------------
(***************************************************************************)
(* While chunks are written, the running hash is of the bytes that the     *)
(* partial file begins with, also after a resumption from a partial file   *)
(* of another run (receiver_download_decrypt.py:195-206, 232-236).         *)
(***************************************************************************)
HashCoversPartial ==
  dnPc \in Receiving =>
    /\ Exists(part)
    /\ Len(dnHashed) <= Len(part.data)
    /\ SubSeq(part.data, 1, Len(dnHashed)) = dnHashed

(***************************************************************************)
(* Without --overwrite no rename finds an output that exists, also at the  *)
(* end of a resumed run, which does not check it at the start, and of one  *)
(* during which it has appeared (receiver_download_decrypt.py:127,         *)
(* 263-267).                                                               *)
(***************************************************************************)
OutputNeverReplaced ==
  [][~Overwrite /\ dnPc # "promoted" /\ dnPc' = "promoted" => ~Exists(out)]_dnVars

(***************************************************************************)
(* A download that has chunks counted in its state file keeps them when    *)
(* the connection is lost, unless they are not what the manifest lists: it *)
(* can be resumed (README.md:163, DESIGN.md:129).                          *)
(***************************************************************************)
LostConnectionIsResumable ==
  [][dnPc = "fail" /\ Downloader \notin connected /\ dnManifest # Absent
       /\ nextIndex \in Nat /\ Exists(part) /\ ~Exists(part')
       => part.data # SubSeq(dnManifest.plain, 1, Len(part.data))]_dnVars
=============================================================================
