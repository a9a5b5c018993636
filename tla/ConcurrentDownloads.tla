------------------------ MODULE ConcurrentDownloads -------------------------
(***************************************************************************)
(* Two runs of the downloading program for one session id and one output:  *)
(* a user who does not know that a download still hangs (its socket        *)
(* timeout is two hours) starts it again.  Nothing keeps the runs apart:   *)
(* they share the partial file, the state file with its temporary file,    *)
(* and the output.  The upload is over and every chunk on the broker, whose *)
(* host keeps its files; but a request of an upload of another version of  *)
(* the file that was killed may still reach it and replace the last chunk. *)
(***************************************************************************)
EXTENDS EnvelopeReceiver

CONSTANTS
  Downloader2,   \* the second run
  FreshAlone     \* no other run is active while one discards what is there

ASSUME DownloadersAssumption ==
  /\ Downloader2 \in Clients \ {Downloader}
  /\ FreshAlone \in BOOLEAN

VARIABLES dnPc2, dnResume2, dnManifest2, dnIndex2, dnHashed2

dnLocal2 == <<dnResume2, dnManifest2, dnIndex2, dnHashed2>>
firstDn == <<dnPc, dnLocal>>
secondDn == <<dnPc2, dnLocal2>>

SecondDn == INSTANCE EnvelopeReceiver WITH
  Downloader <- Downloader2,
  dnPc       <- dnPc2,
  dnResume   <- dnResume2,
  dnManifest <- dnManifest2,
  dnIndex    <- dnIndex2,
  dnHashed   <- dnHashed2

downloadsVars == <<brokerVars, dnDisk, firstDn, secondDn>>

Late(dek, i) == [cmd |-> "PUT_CHUNK", index |-> i, ct |-> Encrypt(dek, i, <<Zero>>)]

Published(m) ==
  /\ manifest = m
  /\ signature = "valid"
  /\ chunks = [i \in Indices |->
                 IF i < ChunkCount(Len(m.plain)) THEN Listed(m, i) ELSE Absent]
  /\ stray = {Late(m.dek, ChunkCount(Len(m.plain)) - 1)}
  /\ connected = {}

DownloadsInit ==
  /\ \E dek \in Deks, f \in Inputs : Published([dek |-> dek, plain |-> f])
  /\ DnInit /\ SecondDn!DnInit

\* A run without --resume that has not opened its new partial file yet.
Discarding(pc, resume) ==
  ~resume /\ pc \in {"manifest", "begin", "discardState", "mode", "openNew"}

MayStart(resume, otherPc, otherResume) ==
  FreshAlone => \/ otherPc \in Idle
                \/ resume /\ ~Discarding(otherPc, otherResume)

DownloadsUser ==
  \/ \E resume \in BOOLEAN :
       MayStart(resume, dnPc2, dnResume2) /\ DnStart(resume) /\ UNCHANGED secondDn
  \/ \E resume \in BOOLEAN :
       MayStart(resume, dnPc, dnResume) /\ SecondDn!DnStart(resume) /\ UNCHANGED firstDn
  \/ DnTakeOutput /\ UNCHANGED secondDn

\* Both runs write the temporary file of the state file at the same time: the
\* one that renames it installs what either of them has written, or nothing,
\* and the other one finds nothing to rename, an OSError.
SaveCollision ==
  /\ dnPc = "save" /\ dnPc2 = "save"
  /\ nextIndex' \in {SavedIndex, SecondDn!SavedIndex, Garbled}
  /\ \/ /\ dnPc' = "chunk" /\ dnIndex' = dnIndex + 1 /\ UNCHANGED dnIndex2
        /\ dnPc2' = "fail" /\ fd' = SecondDn!Closed
     \/ /\ dnPc2' = "chunk" /\ dnIndex2' = dnIndex2 + 1 /\ UNCHANGED dnIndex
        /\ dnPc' = "fail" /\ fd' = Closed
  /\ UNCHANGED <<part, out, delivered, brokerVars, dnResume, dnManifest, dnHashed,
                 dnResume2, dnManifest2, dnHashed2>>

DownloadsPrograms ==
  \/ DnStep /\ UNCHANGED secondDn
  \/ SecondDn!DnStep /\ UNCHANGED firstDn
  \/ SaveCollision
  \/ ServeStray /\ UNCHANGED <<dnDisk, firstDn, secondDn>>

\* The host of the output loses power: both runs end with it.
PowerLoss ==
  /\ DnDiskLosesPower
  /\ DnForget /\ SecondDn!DnForget
  /\ connected' = {}
  /\ UNCHANGED <<store, stray>>

FirstFault == DnError \/ DnStopped \/ DnKill \/ DnPartWrite
SecondFault ==
  SecondDn!DnError \/ SecondDn!DnStopped \/ SecondDn!DnKill \/ SecondDn!DnPartWrite

\* A broker that is killed is two connections lost; its files stay.
DownloadsFault ==
  \/ FirstFault /\ UNCHANGED secondDn
  \/ SecondFault /\ UNCHANGED firstDn
  \/ PowerLoss
  \/ (\E c \in Clients : Disconnect(c)) /\ UNCHANGED <<dnDisk, firstDn, secondDn>>

DownloadsNext == DownloadsUser \/ DownloadsPrograms \/ DownloadsFault

DownloadsSpec == DownloadsInit /\ [][DownloadsNext]_downloadsVars

-----------------------------------------------------------------------------
DownloadsTypeOK == BrokerTypeOK /\ DnTypeOK /\ SecondDn!DnTypeOK

(***************************************************************************)
(* The output never shows anything but the published content, whatever     *)
(* the two runs have removed, created, written and renamed under each      *)
(* other's feet: the hash is of the bytes a run has written, the file that *)
(* is renamed may be another one (receiver_download_decrypt.py:192-205,    *)
(* 232-235, 257-267).  True if FreshAlone; DESIGN.md:55, 112-116 promise   *)
(* it without a condition.                                                 *)
(***************************************************************************)
OutputIsWhole == Exists(out) => out.data = manifest.plain
=============================================================================
