-------------------------- MODULE EnvelopeTransfer --------------------------
(***************************************************************************)
(* Approach B as a whole: the uploading program, the broker, the           *)
(* downloading program, the user who runs and resumes both, edits the      *)
(* input file and takes the output away, and the faults of processes,      *)
(* network and hosts.  One session, one output path, one run of each       *)
(* program at a time; ConcurrentUploads and ConcurrentDownloads have two.  *)
(***************************************************************************)
EXTENDS EnvelopeSender, EnvelopeReceiver

vars == <<brokerVars, upVars, dnVars>>

Init == BrokerInit /\ UpInit /\ DnInit

Upload == UpResume \/ \E dek \in Deks : UpStart(dek)

Download == \E resume \in BOOLEAN : DnStart(resume)

User ==
  \/ Upload /\ UNCHANGED dnVars
  \/ EditInput /\ UNCHANGED dnVars
  \/ Download /\ UNCHANGED upVars
  \/ (DnTakeOutput \/ DnReturnOutput) /\ UNCHANGED upVars

Programs ==
  \/ UpStep /\ UNCHANGED dnVars
  \/ DnStep /\ UNCHANGED upVars
  \/ ServeStray /\ UNCHANGED <<upVars, dnVars>>

Fault ==
  \/ UpFault /\ UNCHANGED dnVars
  \/ DnFault /\ UNCHANGED upVars
  \/ BrokerFault /\ UNCHANGED <<upVars, dnVars>>

Next == User \/ Programs \/ Fault

Spec == Init /\ [][Next]_vars

-----------------------------------------------------------------------------
(* Fairness.  A program never waits for anything but the answer of the     *)
(* broker, whose handler threads are never blocked for good, so an enabled *)
(* step of a program is taken; a program whose connection is lost notices  *)
(* (reset or socket timeout).  The rest is up to the user: both programs   *)
(* are run again, the download now and then without --resume, and the      *)
(* output is taken away.                                                   *)

ProgramsRun ==
  /\ WF_vars(UpStep /\ UNCHANGED dnVars)
  /\ WF_vars(UpFail /\ Uploader \notin connected /\ UNCHANGED dnVars)
  /\ WF_vars(DnStep /\ UNCHANGED upVars)

UserReruns ==
  /\ WF_vars(Upload /\ UNCHANGED dnVars)
  /\ SF_vars(DnStart(FALSE) /\ UNCHANGED upVars)
  /\ WF_vars(DnTakeOutput /\ UNCHANGED upVars)

FairSpec == Spec /\ ProgramsRun

RetrySpec == FairSpec /\ UserReruns

-----------------------------------------------------------------------------
(* Safety.                                                                 *)

TypeOK == BrokerTypeOK /\ UpTypeOK /\ DnTypeOK

(***************************************************************************)
(* The whole transfer implements AtomicDelivery: the output never shows    *)
(* anything but a whole content for which the sender signed a manifest,    *)
(* not a prefix, not a mix of two uploads, not blocks lost in a power      *)
(* failure (receiver_download_decrypt.py:232-269).  A content is a byte    *)
(* sequence as long as some version of the input.                          *)
(***************************************************************************)
FileContents == UNION { [1..Len(f) -> Byte] : f \in Inputs }

Delivery == INSTANCE AtomicDelivery WITH
  Contents  <- FileContents,
  Nothing   <- Absent,
  offered   <- published,
  out       <- IF Exists(out) THEN out.data ELSE Absent,
  reported  <- IF dnPc = "ok" THEN dnManifest.plain ELSE Absent

ImplementsDelivery == Delivery!Spec

-----------------------------------------------------------------------------
(* The documented use: one session id per upload, an input nobody edits, a *)
(* broker host that keeps its files.                                       *)

(***************************************************************************)
(* A manifest that verifies finds every chunk it lists on the broker, byte *)
(* for byte, also when late requests of killed runs are served after it    *)
(* (sender_encrypt_upload.py:200-212, broker_server.py:95-105).            *)
(***************************************************************************)
PublishedIsComplete == ManifestVerifies => Complete

(***************************************************************************)
(* The receiver never refuses what an honest sender has uploaded: after    *)
(* any sequence of kills and resumptions of both programs, every chunk on  *)
(* the broker is the listed one and the assembled file verifies            *)
(* (receiver_download_decrypt.py:217, 257-261).                            *)
(***************************************************************************)
HonestUploadAccepted ==
  /\ dnPc = "chunk" /\ DnMoreChunks => Genuine
  /\ dnPc = "verify" => DnVerified

(***************************************************************************)
(* The chunks the state file counts as done are in the partial file, at    *)
(* their place, wherever a run ended: a resumed run only fetches the rest  *)
(* (receiver_download_decrypt.py:232-247).                                 *)
(***************************************************************************)
CountedIsThere ==
  nextIndex \in Nat /\ Exists(part) =>
    LET done == OffsetBefore([plain |-> input], nextIndex)
    IN Len(part.data) >= done /\ SubSeq(part.data, 1, done) = SubSeq(input, 1, done)

-----------------------------------------------------------------------------
(* Liveness.                                                               *)

\* From some point on nothing fails and nobody puts a file at the output.
Calm == <>[][Programs \/ (User /\ (Exists(out') => out' = out))]_vars

(***************************************************************************)
(* Rerunning the upload with --resume and the download, with or without,   *)
(* gets the file through again and again once things stay calm, wherever   *)
(* earlier runs were interrupted (README.md:161-165).                      *)
(***************************************************************************)
DownloadSucceeds == Calm => []<>(dnPc = "ok")
=============================================================================
