--------------------------- MODULE StreamReceiver ---------------------------
(***************************************************************************)
(* The receiving program of the mTLS stream (receiver.py): one connection  *)
(* per process, then exit; the user restarts it.  A run can stop between   *)
(* any two system calls; what it keeps is in the output directory.         *)
(***************************************************************************)
EXTENDS OutputDirectory

CONSTANTS
  Overwrite,     \* --overwrite
  FsyncMayFail,  \* os.fsync may raise OSError (only logged by the code)
  PowerMayFail   \* the host of the output directory may lose power

ASSUME ReceiverAssumption == {Overwrite, FsyncMayFail, PowerMayFail} \subseteq BOOLEAN

VARIABLES
  rcvPc,         \* where the run is
  rcvOpen,       \* open_msg of this run
  expectedNext,  \* offset the next chunk must have
  rcvHashed,     \* the bytes fed to hasher so far
  digest         \* the digest of the EOF frame

local == <<rcvOpen, expectedNext, rcvHashed, digest>>
rcvVars == <<disk, local, rcvPc>>

Down == {"off", "failed"}     \* "failed": the last run ended with exit code 1
Transferring == {"ack", "stream", "verify", "promote"}
Serving == {"accepted", "touched"} \cup Transferring
             \cup {"reject", "discard", "discardMeta", "promoted", "reply"}

Session == rcvOpen.session

RcvTypeOK ==
  /\ DiskTypeOK
  /\ rcvPc \in Down \cup Serving
  /\ rcvOpen \in OpenFrame \cup {Absent}
  /\ (rcvOpen # Absent) = (rcvPc \in Serving \ {"accepted"})
  /\ expectedNext \in Nat
  /\ rcvHashed \in Seq(Byte)
  /\ digest \in Seq(Byte)

RcvInit ==
  /\ DiskInit
  /\ rcvPc = "off"
  /\ rcvOpen = Absent
  /\ expectedNext = 0
  /\ rcvHashed = <<>>
  /\ digest = <<>>

-----------------------------------------------------------------------------
(* Replies and ways out.                                                   *)

\* The receiver sends frames fs; on a broken link they go nowhere.
Reply(fs) == toSender' = IF link = "up" THEN toSender \o fs ELSE toSender

\* The process ends: its memory, its socket and what it had not read are gone.
Exit(state) ==
  /\ rcvPc' = state
  /\ rcvOpen' = Absent
  /\ expectedNext' = 0
  /\ rcvHashed' = <<>>
  /\ digest' = <<>>
  /\ toReceiver' = <<>>
  /\ link' = "broken"

\* _handle_client sends fs and raises; main sends one more SERVER_ERROR.
Raise(fs) == Reply(Append(fs, ServerError)) /\ Exit("failed")

-----------------------------------------------------------------------------
(* The steps of a run.                                                     *)

\* The user has started the program; accept() and the TLS handshake.
RcvAccept ==
  /\ rcvPc \in Down
  /\ rcvPc' = "accepted"
  /\ UNCHANGED <<disk, local>>

\* Both files of the session are there, were made for the same transfer and
\* do not hold more than it announces.
Resumable(f) ==
  /\ Exists(partial[f.session]) /\ Exists(meta[f.session])
  /\ meta[f.session] = [size |-> f.size, chunk |-> f.chunk]
  /\ Len(partial[f.session].data) <= f.size

\* Mutant of Fresh: a left-over partial file without its meta file is reused.
FreshIgnoringPartial(f) == ~Exists(meta[f.session]) /\ (Overwrite \/ ~Exists(dest))

Fresh(f) ==
  /\ ~Exists(partial[f.session]) /\ ~Exists(meta[f.session])
  /\ Overwrite \/ ~Exists(dest)

RcvOpenResume ==
  /\ rcvPc = "accepted" /\ Arrived(toReceiver, "OPEN")
  /\ Resumable(Head(toReceiver))
  /\ rcvOpen' = Head(toReceiver)
  /\ rcvHashed' = partial[rcvOpen'.session].data
  /\ expectedNext' = Len(rcvHashed')
  /\ rcvPc' = "ack"
  /\ toReceiver' = Tail(toReceiver)
  /\ UNCHANGED <<disk, digest, toSender, link>>

\* partial.touch(exist_ok=False); the meta file is the next step's.
RcvOpenNew ==
  /\ rcvPc = "accepted" /\ Arrived(toReceiver, "OPEN")
  /\ Fresh(Head(toReceiver))
  /\ rcvOpen' = Head(toReceiver)
  /\ partial' = [partial EXCEPT ![rcvOpen'.session] = EmptyFile]
  /\ rcvPc' = "touched"
  /\ toReceiver' = Tail(toReceiver)
  /\ UNCHANGED <<meta, dest, delivered, expectedNext, rcvHashed, digest,
                 toSender, link>>

\* Not an OPEN, or a session whose files the receiver refuses to touch.
RcvOpenRefused ==
  /\ rcvPc = "accepted" /\ toReceiver # <<>>
  /\ Arrived(toReceiver, "OPEN") =>
       ~Resumable(Head(toReceiver)) /\ ~Fresh(Head(toReceiver))
  /\ Raise(<<>>)
  /\ UNCHANGED disk

\* _write_meta: temporary file, fsync, rename.
RcvWriteMeta ==
  /\ rcvPc = "touched"
  /\ meta' = [meta EXCEPT ![Session] =
                [size |-> rcvOpen.size, chunk |-> rcvOpen.chunk]]
  /\ rcvPc' = "ack"
  /\ UNCHANGED <<partial, dest, delivered, local, wire>>

\* Mutant of Ack: only a resumption is acknowledged.
AckOfResumption ==
  IF expectedNext = 0 THEN <<>> ELSE <<[type |-> "OPEN_ACK", have |-> expectedNext]>>

Ack == <<[type |-> "OPEN_ACK", have |-> expectedNext]>>

RcvAck ==
  /\ rcvPc = "ack"
  /\ Reply(Ack)
  /\ rcvPc' = "stream"
  /\ UNCHANGED <<disk, local, toReceiver, link>>

\* Mutants of Acceptable: without the offset check, without the size check.
AcceptableAnywhere(f) ==
  f.type = "CHUNK" /\ f.data # <<>> /\ f.offset + Len(f.data) <= rcvOpen.size

AcceptableAnySize(f) == f.type = "CHUNK" /\ f.data # <<>> /\ f.offset = expectedNext

\* A chunk that continues the stream and stays inside the announced size.
Acceptable(f) ==
  /\ f.type = "CHUNK" /\ f.data # <<>>
  /\ f.offset = expectedNext
  /\ f.offset + Len(f.data) <= rcvOpen.size

RcvChunk ==
  /\ rcvPc = "stream" /\ toReceiver # <<>>
  /\ LET f == Head(toReceiver) IN
       /\ Acceptable(f)
       /\ partial' = [partial EXCEPT ![Session] = WriteAt(@, f.offset, f.data)]
       /\ rcvHashed' = rcvHashed \o f.data
       /\ expectedNext' = expectedNext + Len(f.data)
  /\ toReceiver' = Tail(toReceiver)
  /\ UNCHANGED <<meta, dest, delivered, rcvPc, rcvOpen, digest, toSender, link>>

RcvStreamRefused ==
  /\ rcvPc = "stream" /\ toReceiver # <<>>
  /\ ~Acceptable(Head(toReceiver)) /\ ~Arrived(toReceiver, "EOF")
  /\ Raise(<<>>)
  /\ UNCHANGED disk

\* EOF ends the loop; the partial file is flushed and fsynced.
RcvEof ==
  /\ rcvPc = "stream" /\ Arrived(toReceiver, "EOF")
  /\ digest' = Head(toReceiver).digest
  /\ \/ partial' = [partial EXCEPT ![Session] = Synced(@)]
     \/ FsyncMayFail /\ UNCHANGED partial
  /\ rcvPc' = "verify"
  /\ toReceiver' = Tail(toReceiver)
  /\ UNCHANGED <<meta, dest, delivered, rcvOpen, expectedNext, rcvHashed,
                 toSender, link>>

\* Mutants of Verified: without the digest, without the announced size.
VerifiedBySize ==
  expectedNext = rcvOpen.size /\ Len(partial[Session].data) = rcvOpen.size

VerifiedByDigest == rcvHashed = digest

\* The size on disk, the size received and the digest are the announced ones.
Verified ==
  /\ expectedNext = rcvOpen.size
  /\ Len(partial[Session].data) = rcvOpen.size
  /\ rcvHashed = digest

\* Mutant of MayInstall: the destination is checked at OPEN only.
MayInstallAlways == TRUE

MayInstall == Overwrite \/ ~Exists(dest)

RcvVerifyOk ==
  /\ rcvPc = "verify" /\ Verified /\ MayInstall
  /\ rcvPc' = "promote"
  /\ UNCHANGED <<disk, local, wire>>

RcvVerifyMismatch ==
  /\ rcvPc = "verify" /\ ~Verified
  /\ rcvPc' = "reject"
  /\ UNCHANGED <<disk, local, wire>>

\* The destination has appeared meanwhile; both files of the session are kept.
RcvVerifyBlocked ==
  /\ rcvPc = "verify" /\ Verified /\ ~MayInstall
  /\ Raise(<<ServerError>>)
  /\ UNCHANGED disk

\* A mismatch: SERVER_ERROR first, then _fail_closed_cleanup, then the raise.
RcvReject ==
  /\ rcvPc = "reject"
  /\ Reply(<<ServerError>>)
  /\ rcvPc' = "discard"
  /\ UNCHANGED <<disk, local, toReceiver, link>>

\* Mutant of RcvDiscard: the mismatch is raised without the cleanup.
RcvDiscardNothing ==
  /\ rcvPc = "discard"
  /\ Raise(<<>>)
  /\ UNCHANGED disk

RcvDiscard ==
  /\ rcvPc = "discard"
  /\ partial' = [partial EXCEPT ![Session] = Absent]
  /\ rcvPc' = "discardMeta"
  /\ UNCHANGED <<meta, dest, delivered, local, wire>>

RcvDiscardMeta ==
  /\ rcvPc = "discardMeta"
  /\ meta' = [meta EXCEPT ![Session] = Absent]
  /\ Raise(<<>>)
  /\ UNCHANGED <<partial, dest, delivered>>

\* os.replace(partial, dest)
RcvPromote ==
  /\ rcvPc = "promote"
  /\ dest' = partial[Session]
  /\ delivered' = delivered \cup {partial[Session].data}
  /\ partial' = [partial EXCEPT ![Session] = Absent]
  /\ rcvPc' = "promoted"
  /\ UNCHANGED <<meta, local, wire>>

RcvUnlinkMeta ==
  /\ rcvPc = "promoted"
  /\ meta' = [meta EXCEPT ![Session] = Absent]
  /\ rcvPc' = "reply"
  /\ UNCHANGED <<partial, dest, delivered, local, wire>>

RcvReply ==
  /\ rcvPc = "reply"
  /\ Reply(<<ServerOk>>)
  /\ Exit("off")
  /\ UNCHANGED disk

\* The connection is gone: sendall raises, or recv has nothing left to return.
RcvFail ==
  /\ \/ rcvPc \in {"ack", "reject", "reply"}
     \/ rcvPc \in {"accepted", "stream"} /\ toReceiver = <<>>
  /\ link = "broken"
  /\ Exit("failed")
  /\ UNCHANGED <<disk, toSender>>

RcvStep ==
  \/ RcvOpenResume \/ RcvOpenNew \/ RcvOpenRefused \/ RcvWriteMeta \/ RcvAck
  \/ RcvChunk \/ RcvStreamRefused \/ RcvEof
  \/ RcvVerifyOk \/ RcvVerifyMismatch \/ RcvVerifyBlocked
  \/ RcvReject \/ RcvDiscard \/ RcvDiscardMeta
  \/ RcvPromote \/ RcvUnlinkMeta \/ RcvReply \/ RcvFail

-----------------------------------------------------------------------------
(* Faults, and the user.                                                   *)

\* A file operation raises OSError (disk full, permissions).  A rename that
\* fails is reported before it is raised.
RcvIoError ==
  /\ rcvPc \in {"accepted", "touched", "stream", "verify", "promote", "promoted"}
  /\ Raise(IF rcvPc = "promote" THEN <<ServerError>> ELSE <<>>)
  /\ UNCHANGED disk

\* _fail_closed_cleanup logs an unlink that fails and goes on.
RcvDiscardFails ==
  /\ rcvPc = "discard"
  /\ rcvPc' = "discardMeta"
  /\ UNCHANGED <<disk, local, wire>>

RcvKill ==
  /\ rcvPc \in Serving
  /\ Exit("off")
  /\ UNCHANGED <<disk, toSender>>

\* fp.write stops half way, killed or out of space: a part is in the file.
RcvPartWrite ==
  /\ rcvPc = "stream" /\ toReceiver # <<>>
  /\ LET f == Head(toReceiver) IN
       /\ Acceptable(f)
       /\ \E n \in 1..Len(f.data) :
            partial' = [partial EXCEPT ![Session] =
                          WriteAt(@, f.offset, SubSeq(f.data, 1, n))]
  /\ \/ Exit("off") /\ UNCHANGED toSender
     \/ Raise(<<>>)
  /\ UNCHANGED <<meta, dest, delivered>>

PowerLoss ==
  /\ PowerMayFail
  /\ LosePower
  /\ Exit("off")
  /\ UNCHANGED toSender

RcvFault == RcvIoError \/ RcvDiscardFails \/ RcvKill \/ RcvPartWrite \/ PowerLoss

ManualCleanup(s) ==
  /\ rcvPc \in Down
  /\ RemoveOrphan(s)
  /\ UNCHANGED <<local, rcvPc, wire>>

RcvUser ==
  \/ TakeOutput /\ UNCHANGED <<local, rcvPc, wire>>
  \/ \E s \in Sessions : ManualCleanup(s)

-----------------------------------------------------------------------------
(* What the receiver guarantees by itself, whoever is at the other end.    *)

(***************************************************************************)
(* While a transfer runs, the partial file, the running hash and the next  *)
(* offset describe the same bytes, also after a resumption and after an    *)
(* interrupted write: a chunk that leaves a gap, comes twice or runs past  *)
(* the announced size is never stored (README.md:101).                     *)
(***************************************************************************)
StreamIsContiguous ==
  rcvPc \in Transferring =>
    /\ Exists(partial[Session])
    /\ partial[Session].data = rcvHashed
    /\ expectedNext = Len(rcvHashed)
    /\ expectedNext <= rcvOpen.size

(***************************************************************************)
(* On disk, between runs as well, a session never holds more bytes than    *)
(* its meta file announces, so that "partial file larger than declared     *)
(* file_size" is never the receiver's own doing (receiver.py:110).         *)
(***************************************************************************)
PartialFitsMeta ==
  \A s \in Sessions :
    Exists(partial[s]) /\ Exists(meta[s]) => Len(partial[s].data) <= meta[s].size

(***************************************************************************)
(* Without --overwrite a destination that exists is only ever taken away   *)
(* by the user, never replaced: the check at OPEN is skipped on a resume   *)
(* and another session may have delivered meanwhile (receiver.py:127,187). *)
(***************************************************************************)
NeverReplaced ==
  [][~Overwrite /\ Exists(dest) => dest' \in {dest, Absent}]_rcvVars

(***************************************************************************)
(* What a session has received is kept: from one step to the next its      *)
(* partial file is the same, longer, or gone because it was promoted,      *)
(* found corrupt, or removed by the user between runs (README.md:83).      *)
(***************************************************************************)
ProgressIsKept ==
  [][\A s \in Sessions : Exists(partial[s]) =>
       \/ /\ Exists(partial'[s])
          /\ Len(partial'[s].data) >= Len(partial[s].data)
          /\ SubSeq(partial'[s].data, 1, Len(partial[s].data)) = partial[s].data
       \/ partial'[s] = Absent /\ rcvPc \in {"promote", "discard"} \cup Down]_rcvVars
=============================================================================
