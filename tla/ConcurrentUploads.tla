------------------------- MODULE ConcurrentUploads --------------------------
(***************************************************************************)
(* Two runs of the uploading program for one session: while an upload      *)
(* still hangs (its socket timeout is two hours) the user resumes it.      *)
(* Both take the data key from one sidecar, and either may act on an       *)
(* outdated list of the chunks on the broker.                              *)
(*                                                                         *)
(* The user does not start a run without --resume beside another run, and  *)
(* does not edit the input while a run that had another beside it goes on. *)
(***************************************************************************)
EXTENDS EnvelopeSender

CONSTANT Uploader2   \* the second run

ASSUME UploadersAssumption == Uploader2 \in Clients \ {Uploader}

VARIABLES
  upPc2, upDek2, upSize2, upOnBroker2, upHashed2,
  overlapped   \* history: an active run has, or had, another beside it

upLocal2 == <<upDek2, upSize2, upOnBroker2, upHashed2>>
firstUp == <<upPc, upLocal>>
secondUp == <<upPc2, upLocal2>>
upShared == <<input, sidecar, usedDeks, published>>

SecondUp == INSTANCE EnvelopeSender WITH
  Uploader   <- Uploader2,
  upPc       <- upPc2,
  upDek      <- upDek2,
  upSize     <- upSize2,
  upOnBroker <- upOnBroker2,
  upHashed   <- upHashed2

uploadsVars == <<brokerVars, upShared, firstUp, secondUp, overlapped>>

UploadsInit == BrokerInit /\ UpInit /\ SecondUp!UpInit /\ overlapped = FALSE

\* The two programs are the same: the second run is the one that is resumed.
UploadsUser ==
  \/ UpResume /\ UNCHANGED secondUp
  \/ SecondUp!UpResume /\ UNCHANGED firstUp
  \/ upPc2 \notin UpActive /\ (\E dek \in Deks : UpStart(dek)) /\ UNCHANGED secondUp
  \/ ~overlapped /\ EditInput /\ UNCHANGED secondUp

UploadsPrograms ==
  \/ UpStep /\ UNCHANGED secondUp
  \/ SecondUp!UpStep /\ UNCHANGED firstUp
  \/ ServeStray /\ UNCHANGED <<upShared, firstUp, secondUp>>

\* Both runs have published and rewrite the sidecar through one temporary file:
\* one installs what the other has just emptied, and the other is killed then.
\* Like a missing one this sidecar cannot be resumed from.  (The killed run may
\* be taken for one that has failed before, which loses no more than that.)
SidecarLost ==
  /\ overlapped /\ sidecar' = Absent
  /\ \E state \in {"off", "ok"} :
       \/ /\ {upPc2, state} = {"off", "ok"}
          /\ UpEnd(state) /\ StoreManifest(Signed)
          /\ UNCHANGED secondUp
       \/ /\ {upPc, state} = {"off", "ok"}
          /\ SecondUp!UpEnd(state) /\ StoreManifest(SecondUp!Signed)
          /\ UNCHANGED firstUp

UploadsFault ==
  \/ UpFault /\ UNCHANGED secondUp
  \/ SecondUp!UpFault /\ UNCHANGED firstUp
  \/ SidecarLost
  \/ BrokerFault /\ UNCHANGED <<upShared, firstUp, secondUp>>

Overlap ==
  overlapped' = \/ {upPc', upPc2'} \subseteq UpActive
                \/ overlapped /\ (upPc' \in UpActive \/ upPc2' \in UpActive)

UploadsNext == (UploadsUser \/ UploadsPrograms \/ UploadsFault) /\ Overlap

UploadsSpec == UploadsInit /\ [][UploadsNext]_uploadsVars

-----------------------------------------------------------------------------
UploadsTypeOK == BrokerTypeOK /\ UpTypeOK /\ SecondUp!UpTypeOK /\ overlapped \in BOOLEAN

(***************************************************************************)
(* A manifest that verifies finds every chunk it lists on the broker, byte *)
(* for byte, whichever run has put it there and how often, whatever other  *)
(* upload has used the session id before, and although a run only looks    *)
(* once which chunks are there (sender_encrypt_upload.py:186-212;          *)
(* "idempotent chunk PUT", DESIGN.md:53).                                  *)
(***************************************************************************)
PublishedIsComplete == ManifestVerifies => Complete

(***************************************************************************)
(* A PUT overwrites whatever is stored (broker_server.py:95-105), but none *)
(* ever replaces a chunk by anything but the same ciphertext, also when it *)
(* comes from a run that has looked before the other one has put its own   *)
(* (sender_encrypt_upload.py:200-212; "idempotent chunk PUT",              *)
(* DESIGN.md:53).                                                          *)
(***************************************************************************)
NothingReplaced ==
  \A i \in Indices : chunks[i] # Absent => chunks'[i] \in {chunks[i], Garbled}
StoredChunksStay == [][NothingReplaced]_uploadsVars
=============================================================================
