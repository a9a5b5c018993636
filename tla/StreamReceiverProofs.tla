------------------------ MODULE StreamReceiverProofs ------------------------
(***************************************************************************)
(* Facts about the receiver of the mTLS stream that hold whoever is at the *)
(* other end of the connection.  RcvInv is inductive: the receiver's own   *)
(* steps, its faults and its user preserve it.  MtlsStreamProofs and       *)
(* ReceiverAnyPeerProofs combine these facts with what the peer may do.    *)
(***************************************************************************)
EXTENDS StreamReceiver, TransferFileProofs

-----------------------------------------------------------------------------
(* The inductive invariant.                                                *)

\* The session being served has a meta file that announces this transfer.
SessionIsRecorded ==
  rcvPc \in Transferring =>
    meta[Session] = [size |-> rcvOpen.size, chunk |-> rcvOpen.chunk]

\* A run begins with nothing received, and with an empty file if it creates one.
RunStartsEmpty ==
  /\ rcvPc \in Down \cup {"accepted", "touched"} => expectedNext = 0 /\ rcvHashed = <<>>
  /\ rcvPc = "touched" => partial[Session] = EmptyFile

\* What is about to be renamed has passed every check.
PromotionIsChecked ==
  rcvPc = "promote" =>
    expectedNext = rcvOpen.size /\ rcvHashed = digest /\ MayInstall

\* As long as fsync works, what is checked and what is promoted is on the disk.
CheckedIsDurable ==
  ~FsyncMayFail =>
    /\ rcvPc \in {"verify", "promote"} =>
         partial[Session].synced = Len(partial[Session].data)
    /\ Exists(dest) => dest.synced = Len(dest.data)

RcvInv ==
  /\ WireTypeOK
  /\ RcvTypeOK
  /\ StreamIsContiguous
  /\ PartialFitsMeta
  /\ SessionIsRecorded
  /\ RunStartsEmpty
  /\ PromotionIsChecked
  /\ CheckedIsDurable

\* Replies keep the channel to the sender well formed.
LEMMA ReplyType ==
  ASSUME WireTypeOK, NEW fs \in Seq(ReceiverFrame), Reply(fs)
  PROVE  toSender' \in Seq(ReceiverFrame)
BY DEF WireTypeOK, Reply

\* The frames the receiver sends are receiver's frames.
LEMMA ReceiverFrames ==
  /\ ServerError \in ReceiverFrame
  /\ ServerOk \in ReceiverFrame
  /\ Ack \in Seq([type : {"OPEN_ACK"}, have : {expectedNext}])
BY DEF ServerError, ServerOk, Ack, ReceiverFrame, ErrorFrame, OkFrame

\* A run that ends leaves the invariant to the files.
LEMMA ExitInv ==
  ASSUME RcvInv,
         NEW state \in Down, Exit(state),
         toSender' \in Seq(ReceiverFrame),
         DiskTypeOK', PartialFitsMeta',
         ~FsyncMayFail => (Exists(dest) => dest.synced = Len(dest.data))'
  PROVE  RcvInv'
<1>1. WireTypeOK'
  BY DEF Exit, WireTypeOK
<1>2. RcvTypeOK'
  BY DEF Exit, RcvTypeOK, Down, Serving, Transferring
<1>3. StreamIsContiguous' /\ SessionIsRecorded' /\ RunStartsEmpty'
        /\ PromotionIsChecked' /\ CheckedIsDurable'
  BY DEF Exit, StreamIsContiguous, SessionIsRecorded, RunStartsEmpty,
         PromotionIsChecked, CheckedIsDurable, Down, Transferring
<1> QED
  BY <1>1, <1>2, <1>3 DEF RcvInv

\* The ways a run ends that leave the directory alone.
LEMMA ExitKeepsDisk ==
  ASSUME RcvInv, NEW state \in Down, Exit(state), UNCHANGED disk,
         toSender' \in Seq(ReceiverFrame)
  PROVE  RcvInv'
<1>1. DiskTypeOK' /\ PartialFitsMeta'
  BY DEF RcvInv, RcvTypeOK, DiskTypeOK, PartialFitsMeta, disk
<1>2. ~FsyncMayFail => (Exists(dest) => dest.synced = Len(dest.data))'
  BY DEF RcvInv, CheckedIsDurable, disk
<1> QED
  BY <1>1, <1>2, ExitInv

\* A run that raises preserves RcvInv if it left the directory alone.
LEMMA RaiseKeepsDisk ==
  ASSUME RcvInv, NEW fs \in Seq(ReceiverFrame), Raise(fs), UNCHANGED disk
  PROVE  RcvInv'
<1>1. Append(fs, ServerError) \in Seq(ReceiverFrame)
  BY ReceiverFrames
<1>2. toSender' \in Seq(ReceiverFrame)
  BY <1>1, ReplyType DEF Raise, RcvInv
<1> QED
  BY <1>2, ExitKeepsDisk DEF Raise, Down

-----------------------------------------------------------------------------
(* Every step of a run preserves the invariant.                            *)

\* Resuming a session (receiver.py:101-121).
LEMMA OpenResumeInv == ASSUME RcvInv, RcvOpenResume PROVE RcvInv'
<1> DEFINE f == Head(toReceiver)
           p == partial[f.session]
<1>1. f \in OpenFrame /\ toReceiver # <<>> /\ toReceiver' \in Seq(SenderFrame)
  BY DEF RcvInv, WireTypeOK, RcvOpenResume, Arrived, SenderFrame, OpenFrame,
         ChunkFrame, EofFrame
<1>2. f.session \in Sessions /\ p \in File /\ Exists(p) /\ Exists(meta[f.session])
        /\ meta[f.session] = [size |-> f.size, chunk |-> f.chunk]
        /\ Len(p.data) <= f.size
  BY <1>1 DEF RcvInv, RcvTypeOK, DiskTypeOK, RcvOpenResume, Resumable, OpenFrame, Exists
<1>3. rcvOpen' = f /\ rcvHashed' = p.data /\ expectedNext' = Len(p.data)
        /\ rcvPc' = "ack" /\ partial' = partial /\ meta' = meta /\ dest' = dest
        /\ delivered' = delivered /\ digest' = digest /\ toSender' = toSender
        /\ link' = link
  BY DEF RcvOpenResume, disk
<1>4. f # Absent
  BY <1>1, ProtocolAssumption
<1>5. WireTypeOK'
  BY <1>1, <1>3 DEF RcvInv, WireTypeOK
<1>6. RcvTypeOK'
  BY <1>1, <1>2, <1>3, <1>4 DEF RcvInv, RcvTypeOK, DiskTypeOK, File, Serving, Transferring
<1>7. StreamIsContiguous' /\ SessionIsRecorded'
  BY <1>2, <1>3 DEF StreamIsContiguous, SessionIsRecorded, Exists, Session, Transferring
<1>8. PartialFitsMeta' /\ RunStartsEmpty' /\ PromotionIsChecked' /\ CheckedIsDurable'
  BY <1>3 DEF RcvInv, PartialFitsMeta, RunStartsEmpty, PromotionIsChecked,
              CheckedIsDurable, Down, Exists
<1> QED
  BY <1>5, <1>6, <1>7, <1>8 DEF RcvInv

\* Creating the partial file of a new session (receiver.py:124-129).
LEMMA OpenNewInv == ASSUME RcvInv, RcvOpenNew PROVE RcvInv'
<1> DEFINE f == Head(toReceiver)
<1>1. f \in OpenFrame /\ toReceiver # <<>> /\ toReceiver' \in Seq(SenderFrame)
  BY DEF RcvInv, WireTypeOK, RcvOpenNew, Arrived, SenderFrame, OpenFrame,
         ChunkFrame, EofFrame
<1>2. f.session \in Sessions /\ ~Exists(meta[f.session]) /\ f # Absent
  BY <1>1, ProtocolAssumption DEF RcvOpenNew, Fresh, OpenFrame
<1>3. EmptyFile \in File
  BY EmptyFileFacts
<1>4. rcvOpen' = f /\ rcvHashed' = rcvHashed /\ expectedNext' = expectedNext
        /\ rcvPc' = "touched" /\ partial' = [partial EXCEPT ![f.session] = EmptyFile]
        /\ meta' = meta /\ dest' = dest /\ delivered' = delivered
        /\ digest' = digest /\ toSender' = toSender /\ link' = link
  BY DEF RcvOpenNew
<1>5. WireTypeOK'
  BY <1>1, <1>4 DEF RcvInv, WireTypeOK
<1>6. RcvTypeOK'
  BY <1>1, <1>2, <1>3, <1>4 DEF RcvInv, RcvTypeOK, DiskTypeOK, Serving, Transferring
<1>7. RunStartsEmpty'
  BY <1>2, <1>4 DEF RcvInv, RcvTypeOK, DiskTypeOK, RunStartsEmpty, Session, RcvOpenNew
<1>8. PartialFitsMeta'
  BY <1>2, <1>4 DEF RcvInv, RcvTypeOK, DiskTypeOK, PartialFitsMeta, Exists
<1>9. StreamIsContiguous' /\ SessionIsRecorded' /\ PromotionIsChecked' /\ CheckedIsDurable'
  BY <1>4 DEF RcvInv, StreamIsContiguous, SessionIsRecorded, PromotionIsChecked,
              CheckedIsDurable, Transferring
<1> QED
  BY <1>5, <1>6, <1>7, <1>8, <1>9 DEF RcvInv

\* Writing the meta file (receiver.py:130-138).
LEMMA WriteMetaInv == ASSUME RcvInv, RcvWriteMeta PROVE RcvInv'
<1> DEFINE m == [size |-> rcvOpen.size, chunk |-> rcvOpen.chunk]
<1>1. rcvOpen \in OpenFrame /\ Session \in Sessions /\ m \in Meta
  BY DEF RcvInv, RcvTypeOK, RcvWriteMeta, Serving, OpenFrame, Session, Meta
<1>2. partial[Session] = EmptyFile /\ rcvHashed = <<>> /\ expectedNext = 0
  BY DEF RcvInv, RunStartsEmpty, RcvWriteMeta
<1>3. EmptyFile \in File /\ Exists(EmptyFile) /\ EmptyFile.data = <<>>
  BY EmptyFileFacts
<1>4. rcvPc' = "ack" /\ meta' = [meta EXCEPT ![Session] = m] /\ UNCHANGED wire
        /\ UNCHANGED <<partial, dest, delivered, local>>
  BY DEF RcvWriteMeta
<1>5. WireTypeOK' /\ RcvTypeOK'
  BY <1>1, <1>4 DEF RcvInv, WireTypeOK, RcvTypeOK, DiskTypeOK, RcvWriteMeta, wire, local,
                    Serving, Transferring
<1>6. StreamIsContiguous' /\ SessionIsRecorded'
  BY <1>1, <1>2, <1>3, <1>4
  DEF RcvInv, RcvTypeOK, DiskTypeOK, StreamIsContiguous, SessionIsRecorded, Session,
      local, OpenFrame
<1>7. PartialFitsMeta'
  BY <1>1, <1>2, <1>3, <1>4
  DEF RcvInv, RcvTypeOK, DiskTypeOK, PartialFitsMeta, OpenFrame
<1>8. RunStartsEmpty' /\ PromotionIsChecked' /\ CheckedIsDurable'
  BY <1>4 DEF RcvInv, RunStartsEmpty, PromotionIsChecked, CheckedIsDurable, Down
<1> QED
  BY <1>5, <1>6, <1>7, <1>8 DEF RcvInv

\* Sending OPEN_ACK (receiver.py:141-145).
LEMMA AckInv == ASSUME RcvInv, RcvAck PROVE RcvInv'
<1>1. Ack \in Seq(ReceiverFrame)
  BY DEF Ack, RcvInv, RcvTypeOK, ReceiverFrame, AckFrame
<1>2. toSender' \in Seq(ReceiverFrame)
  BY <1>1, ReplyType DEF RcvAck, RcvInv
<1>3. rcvPc = "ack" /\ rcvPc' = "stream" /\ UNCHANGED <<disk, local, toReceiver, link>>
  BY DEF RcvAck
<1>4. WireTypeOK' /\ RcvTypeOK'
  BY <1>2, <1>3 DEF RcvInv, WireTypeOK, RcvTypeOK, DiskTypeOK, disk, local, Serving,
                    Transferring
<1>5. StreamIsContiguous' /\ SessionIsRecorded' /\ PartialFitsMeta'
  BY <1>3 DEF RcvInv, StreamIsContiguous, SessionIsRecorded, PartialFitsMeta, disk,
              local, Session, Transferring
<1>6. RunStartsEmpty' /\ PromotionIsChecked' /\ CheckedIsDurable'
  BY <1>3 DEF RcvInv, RunStartsEmpty, PromotionIsChecked, CheckedIsDurable, disk, local,
              Down, Session
<1> QED
  BY <1>4, <1>5, <1>6 DEF RcvInv

\* What a transfer in progress knows about its session.
LEMMA ServedSession ==
  ASSUME RcvInv, rcvPc \in Transferring
  PROVE  /\ rcvOpen \in OpenFrame /\ Session \in Sessions
         /\ partial[Session] \in File /\ Exists(partial[Session])
         /\ partial[Session].data = rcvHashed
         /\ expectedNext = Len(rcvHashed) /\ expectedNext <= rcvOpen.size
         /\ meta[Session] = [size |-> rcvOpen.size, chunk |-> rcvOpen.chunk]
<1>1. rcvOpen \in OpenFrame /\ Session \in Sessions
  BY DEF RcvInv, RcvTypeOK, Serving, Transferring, OpenFrame, Session
<1>2. Exists(partial[Session]) /\ partial[Session] \in File
  BY <1>1 DEF RcvInv, RcvTypeOK, DiskTypeOK, StreamIsContiguous, Exists
<1> QED
  BY <1>1, <1>2 DEF RcvInv, StreamIsContiguous, SessionIsRecorded

\* A chunk, or the first bytes of one, goes to the end of the partial file.
LEMMA AppendKeepsFiles ==
  ASSUME RcvInv, rcvPc = "stream",
         NEW data \in Seq(Byte), Len(data) <= rcvOpen.size - expectedNext,
         partial' = [partial EXCEPT ![Session] = WriteAt(@, expectedNext, data)],
         UNCHANGED <<meta, dest, delivered>>
  PROVE  /\ DiskTypeOK' /\ PartialFitsMeta'
         /\ partial'[Session] \in File /\ Exists(partial'[Session])
         /\ partial'[Session].data = rcvHashed \o data
<1> DEFINE f == partial[Session]
           w == WriteAt(f, expectedNext, data)
<1>1. /\ rcvOpen \in OpenFrame /\ Session \in Sessions /\ f \in File /\ f.data = rcvHashed
      /\ expectedNext = Len(f.data)
      /\ meta[Session] = [size |-> rcvOpen.size, chunk |-> rcvOpen.chunk]
  BY ServedSession DEF Transferring
<1>2. w \in File /\ w.data = f.data \o data
  BY <1>1, WriteAtEnd
<1>3. w # Absent
  BY <1>2, FilesAssumption
<1>4. partial' = [partial EXCEPT ![Session] = w] /\ partial \in [Sessions -> File \cup {Absent}]
  BY DEF RcvInv, RcvTypeOK, DiskTypeOK
<1>5. partial'[Session] = w
  BY <1>1, <1>4
<1>6. Len(w.data) = expectedNext + Len(data) /\ Len(data) \in Nat /\ expectedNext \in Nat
  BY <1>1, <1>2 DEF File
<1>7. Len(w.data) <= rcvOpen.size
  BY <1>1, <1>6 DEF OpenFrame
<1>8. DiskTypeOK'
  BY <1>2, <1>4 DEF RcvInv, RcvTypeOK, DiskTypeOK
<1>9. PartialFitsMeta'
  BY <1>1, <1>4, <1>7 DEF RcvInv, PartialFitsMeta
<1> QED
  BY <1>1, <1>2, <1>3, <1>5, <1>8, <1>9 DEF Exists

\* Storing and hashing a chunk (receiver.py:151-163).
LEMMA ChunkInv == ASSUME RcvInv, RcvChunk PROVE RcvInv'
<1> DEFINE f == Head(toReceiver)
<1>1. f \in SenderFrame /\ toReceiver' \in Seq(SenderFrame)
  BY DEF RcvInv, WireTypeOK, RcvChunk
<1>2. f.data \in Seq(Byte) /\ Len(f.data) \in Nat
  BY <1>1 DEF RcvChunk, Acceptable, SenderFrame, OpenFrame, ChunkFrame, EofFrame
<1>3. /\ rcvPc = "stream" /\ rcvPc' = "stream" /\ f.offset = expectedNext
      /\ f.offset + Len(f.data) <= rcvOpen.size
      /\ partial' = [partial EXCEPT ![Session] = WriteAt(@, expectedNext, f.data)]
      /\ rcvHashed' = rcvHashed \o f.data /\ expectedNext' = expectedNext + Len(f.data)
      /\ UNCHANGED <<meta, dest, delivered, rcvOpen, digest, toSender, link>>
  BY DEF RcvChunk, Acceptable
<1>4. rcvOpen \in OpenFrame /\ Session \in Sessions /\ expectedNext = Len(rcvHashed)
        /\ rcvHashed \in Seq(Byte) /\ expectedNext \in Nat /\ rcvOpen.size \in Nat
  BY <1>3, ServedSession DEF Transferring, RcvInv, RcvTypeOK, OpenFrame
<1>5. Len(f.data) <= rcvOpen.size - expectedNext
  BY <1>2, <1>3, <1>4
<1>6. DiskTypeOK' /\ PartialFitsMeta' /\ Exists(partial'[Session])
        /\ partial'[Session].data = rcvHashed'
  BY <1>2, <1>3, <1>5, AppendKeepsFiles
<1>7. rcvHashed' \in Seq(Byte) /\ Len(rcvHashed') = Len(rcvHashed) + Len(f.data)
  BY <1>2, <1>3, <1>4
<1>8. WireTypeOK' /\ RcvTypeOK'
  BY <1>1, <1>2, <1>3, <1>4, <1>6, <1>7 DEF RcvInv, WireTypeOK, RcvTypeOK
<1>9. StreamIsContiguous' /\ SessionIsRecorded'
  BY <1>2, <1>3, <1>4, <1>6, <1>7
  DEF RcvInv, StreamIsContiguous, SessionIsRecorded, Session, Transferring
<1>10. RunStartsEmpty' /\ PromotionIsChecked' /\ CheckedIsDurable'
  BY <1>3 DEF RcvInv, RunStartsEmpty, PromotionIsChecked, CheckedIsDurable, Down
<1> QED
  BY <1>6, <1>8, <1>9, <1>10 DEF RcvInv

\* Reading EOF and fsyncing the partial file (receiver.py:164-174).
LEMMA EofInv == ASSUME RcvInv, RcvEof PROVE RcvInv'
<1> DEFINE f == Head(toReceiver)
           p == partial[Session]
<1>1. f \in SenderFrame /\ toReceiver' \in Seq(SenderFrame)
  BY DEF RcvInv, WireTypeOK, RcvEof, Arrived
<1>2. f.digest \in Seq(Byte)
  BY <1>1 DEF RcvEof, Arrived, SenderFrame, OpenFrame, ChunkFrame, EofFrame
<1>3. /\ rcvPc = "stream" /\ rcvPc' = "verify" /\ digest' = f.digest
      /\ UNCHANGED <<meta, dest, delivered, rcvOpen, expectedNext, rcvHashed,
                     toSender, link>>
  BY DEF RcvEof
<1>4. Session \in Sessions /\ p \in File /\ Exists(p) /\ p.data = rcvHashed
  BY <1>3, ServedSession DEF Transferring
<1>5. Synced(p) \in File /\ Synced(p).data = p.data
        /\ Synced(p).synced = Len(Synced(p).data)
  BY <1>4 DEF Synced, File
<1>6. PICK q \in {p, Synced(p)} :
        /\ partial' = [partial EXCEPT ![Session] = q]
        /\ ~FsyncMayFail => q = Synced(p)
  <2>1. CASE partial' = [partial EXCEPT ![Session] = Synced(@)]
    BY <2>1
  <2>2. CASE FsyncMayFail /\ UNCHANGED partial
    BY <2>2 DEF RcvInv, RcvTypeOK, DiskTypeOK
  <2> QED
    BY <2>1, <2>2 DEF RcvEof
<1>7. q \in File /\ Exists(q) /\ q.data = p.data
  BY <1>4, <1>5, <1>6, FilesAssumption DEF Exists
<1>8. partial'[Session] = q
  BY <1>4, <1>6 DEF RcvInv, RcvTypeOK, DiskTypeOK
<1>9. WireTypeOK'
  BY <1>1, <1>3 DEF RcvInv, WireTypeOK
<1>10. RcvTypeOK'
  BY <1>2, <1>3, <1>6, <1>7 DEF RcvInv, RcvTypeOK, DiskTypeOK, Serving, Transferring
<1>11. StreamIsContiguous' /\ SessionIsRecorded'
  BY <1>3, <1>4, <1>7, <1>8
  DEF RcvInv, StreamIsContiguous, SessionIsRecorded, Session, Transferring
<1>12. PartialFitsMeta'
  BY <1>3, <1>4, <1>6, <1>7 DEF RcvInv, RcvTypeOK, DiskTypeOK, PartialFitsMeta
<1>13. RunStartsEmpty' /\ PromotionIsChecked'
  BY <1>3 DEF RunStartsEmpty, PromotionIsChecked, Down
<1>14. CheckedIsDurable'
  BY <1>3, <1>5, <1>6, <1>8 DEF RcvInv, CheckedIsDurable, Session
<1> QED
  BY <1>9, <1>10, <1>11, <1>12, <1>13, <1>14 DEF RcvInv

\* Passing the three checks (receiver.py:176-189).
LEMMA VerifyOkInv == ASSUME RcvInv, RcvVerifyOk PROVE RcvInv'
<1>1. /\ rcvPc = "verify" /\ rcvPc' = "promote" /\ Verified /\ MayInstall
      /\ UNCHANGED <<disk, local, wire>>
  BY DEF RcvVerifyOk
<1>2. WireTypeOK' /\ RcvTypeOK'
  BY <1>1 DEF RcvInv, WireTypeOK, RcvTypeOK, DiskTypeOK, disk, local, wire, Serving,
              Transferring
<1>3. StreamIsContiguous' /\ SessionIsRecorded' /\ PartialFitsMeta'
  BY <1>1 DEF RcvInv, StreamIsContiguous, SessionIsRecorded, PartialFitsMeta, disk,
              local, Session, Transferring
<1>4. RunStartsEmpty' /\ PromotionIsChecked' /\ CheckedIsDurable'
  BY <1>1 DEF RcvInv, RunStartsEmpty, PromotionIsChecked, CheckedIsDurable, disk, local,
              Down, Session, Verified, MayInstall
<1> QED
  BY <1>2, <1>3, <1>4 DEF RcvInv

\* A run that is past its checks leaves the invariant to the files.
LEMMA FinishingInv ==
  ASSUME RcvInv,
         rcvPc \in Serving \ {"accepted"},
         rcvPc' \in {"reject", "discard", "discardMeta", "promoted", "reply"},
         UNCHANGED local,
         WireTypeOK', DiskTypeOK', PartialFitsMeta',
         ~FsyncMayFail => (Exists(dest) => dest.synced = Len(dest.data))'
  PROVE  RcvInv'
<1>1. RcvTypeOK'
  BY DEF RcvInv, RcvTypeOK, local, Serving, Transferring
<1>2. StreamIsContiguous' /\ SessionIsRecorded' /\ RunStartsEmpty'
        /\ PromotionIsChecked' /\ CheckedIsDurable'
  BY DEF StreamIsContiguous, SessionIsRecorded, RunStartsEmpty, PromotionIsChecked,
         CheckedIsDurable, Down, Transferring
<1> QED
  BY <1>1, <1>2 DEF RcvInv

\* A run past OPEN serves one of the sessions.
LEMMA SessionKnown ==
  ASSUME RcvInv, rcvPc \in Serving \ {"accepted"}
  PROVE  Session \in Sessions
BY DEF RcvInv, RcvTypeOK, OpenFrame, Session

\* Removing a file of the session never breaks what is known of the files.
LEMMA RemovalKeepsFiles ==
  ASSUME RcvInv, NEW s \in Sessions,
         partial' = partial \/ partial' = [partial EXCEPT ![s] = Absent],
         meta' = meta \/ meta' = [meta EXCEPT ![s] = Absent],
         UNCHANGED <<dest, delivered>>
  PROVE  /\ DiskTypeOK' /\ PartialFitsMeta'
         /\ ~FsyncMayFail => (Exists(dest) => dest.synced = Len(dest.data))'
<1>1. DiskTypeOK'
  BY DEF RcvInv, RcvTypeOK, DiskTypeOK
<1>2. PartialFitsMeta'
  BY DEF RcvInv, RcvTypeOK, DiskTypeOK, PartialFitsMeta, Exists
<1> QED
  BY <1>1, <1>2 DEF RcvInv, CheckedIsDurable

\* Telling the sender of a mismatch, and removing the partial file.
LEMMA RejectInv ==
  ASSUME RcvInv, RcvVerifyMismatch \/ RcvReject \/ RcvDiscard \/ RcvDiscardFails
  PROVE  RcvInv'
<1>1. rcvPc \in Serving \ {"accepted"} /\ rcvPc' \in {"reject", "discard", "discardMeta"}
        /\ UNCHANGED local
  BY DEF RcvVerifyMismatch, RcvReject, RcvDiscard, RcvDiscardFails, Serving, Transferring
<1>2. Session \in Sessions
  BY <1>1, SessionKnown
<1>3. partial' = partial \/ partial' = [partial EXCEPT ![Session] = Absent]
  BY DEF RcvVerifyMismatch, RcvReject, RcvDiscard, RcvDiscardFails, disk
<1>4. UNCHANGED <<meta, dest, delivered>>
  BY DEF RcvVerifyMismatch, RcvReject, RcvDiscard, RcvDiscardFails, disk
<1>5. DiskTypeOK' /\ PartialFitsMeta'
        /\ (~FsyncMayFail => (Exists(dest) => dest.synced = Len(dest.data))')
  BY <1>2, <1>3, <1>4, RemovalKeepsFiles
<1>6. <<ServerError>> \in Seq(ReceiverFrame)
  BY ReceiverFrames
<1>7. WireTypeOK'
  <2>1. CASE RcvReject
    BY <2>1, <1>6, ReplyType DEF RcvReject, RcvInv, WireTypeOK
  <2>2. CASE RcvVerifyMismatch \/ RcvDiscard \/ RcvDiscardFails
    BY <2>2 DEF RcvVerifyMismatch, RcvDiscard, RcvDiscardFails, RcvInv, WireTypeOK, wire
  <2> QED
    BY <2>1, <2>2
<1> QED
  BY <1>1, <1>5, <1>7, FinishingInv

\* Removing the meta file after a mismatch (receiver.py:69-75).
LEMMA DiscardMetaInv == ASSUME RcvInv, RcvDiscardMeta PROVE RcvInv'
<1>1. Session \in Sessions
  BY SessionKnown DEF RcvDiscardMeta, Serving
<1>2. DiskTypeOK' /\ PartialFitsMeta'
        /\ (~FsyncMayFail => (Exists(dest) => dest.synced = Len(dest.data))')
  BY <1>1, RemovalKeepsFiles DEF RcvDiscardMeta
<1>3. Append(<<>>, ServerError) \in Seq(ReceiverFrame)
  BY ReceiverFrames
<1>4. toSender' \in Seq(ReceiverFrame)
  BY <1>3, ReplyType DEF RcvDiscardMeta, Raise, RcvInv
<1> QED
  BY <1>2, <1>4, ExitInv DEF RcvDiscardMeta, Raise, Down

\* Renaming the partial file to the destination (receiver.py:192).
LEMMA PromoteInv == ASSUME RcvInv, RcvPromote PROVE RcvInv'
<1> DEFINE p == partial[Session]
<1>1. /\ rcvPc = "promote" /\ rcvPc' = "promoted" /\ dest' = p
      /\ delivered' = delivered \cup {p.data}
      /\ partial' = [partial EXCEPT ![Session] = Absent]
      /\ UNCHANGED <<meta, local, wire>>
  BY DEF RcvPromote
<1>2. Session \in Sessions /\ p \in File /\ p.data \in Seq(Byte)
  BY <1>1, ServedSession DEF Transferring, File
<1>3. DiskTypeOK'
  BY <1>1, <1>2 DEF RcvInv, RcvTypeOK, DiskTypeOK
<1>4. PartialFitsMeta'
  BY <1>1, <1>2 DEF RcvInv, RcvTypeOK, DiskTypeOK, PartialFitsMeta, Exists
<1>5. ~FsyncMayFail => (Exists(dest) => dest.synced = Len(dest.data))'
  BY <1>1 DEF RcvInv, CheckedIsDurable
<1>6. WireTypeOK'
  BY <1>1 DEF RcvInv, WireTypeOK, wire
<1> QED
  BY <1>1, <1>3, <1>4, <1>5, <1>6, FinishingInv DEF Serving, Transferring

\* Removing the meta file after the rename (receiver.py:197-201).
LEMMA UnlinkMetaInv == ASSUME RcvInv, RcvUnlinkMeta PROVE RcvInv'
<1>1. rcvPc \in Serving \ {"accepted"} /\ rcvPc' = "reply"
  BY DEF RcvUnlinkMeta, Serving
<1>2. DiskTypeOK' /\ PartialFitsMeta'
        /\ (~FsyncMayFail => (Exists(dest) => dest.synced = Len(dest.data))')
  BY <1>1, SessionKnown, RemovalKeepsFiles DEF RcvUnlinkMeta
<1>3. WireTypeOK'
  BY DEF RcvUnlinkMeta, RcvInv, WireTypeOK, wire
<1> QED
  BY <1>1, <1>2, <1>3, FinishingInv DEF RcvUnlinkMeta

\* Sending SERVER_OK (receiver.py:203).
LEMMA ReplyInv == ASSUME RcvInv, RcvReply PROVE RcvInv'
<1>1. <<ServerOk>> \in Seq(ReceiverFrame)
  BY ReceiverFrames
<1>2. toSender' \in Seq(ReceiverFrame)
  BY <1>1, ReplyType DEF RcvReply, RcvInv
<1> QED
  BY <1>2, ExitKeepsDisk DEF RcvReply, Down

\* Refusing an OPEN, a chunk or a destination changes no file.
LEMMA RefusalInv ==
  ASSUME RcvInv, RcvOpenRefused \/ RcvStreamRefused \/ RcvVerifyBlocked \/ RcvIoError
  PROVE  RcvInv'
<1>1. <<>> \in Seq(ReceiverFrame) /\ <<ServerError>> \in Seq(ReceiverFrame)
  BY ReceiverFrames
<1>2. PICK fs \in {<<>>, <<ServerError>>} : Raise(fs)
  BY DEF RcvOpenRefused, RcvStreamRefused, RcvVerifyBlocked, RcvIoError
<1>3. UNCHANGED disk
  BY DEF RcvOpenRefused, RcvStreamRefused, RcvVerifyBlocked, RcvIoError
<1> QED
  BY <1>1, <1>2, <1>3, RaiseKeepsDisk

\* A lost connection or a kill changes no file.
LEMMA AbortInv == ASSUME RcvInv, RcvFail \/ RcvKill PROVE RcvInv'
<1>1. toSender' \in Seq(ReceiverFrame)
  BY DEF RcvFail, RcvKill, RcvInv, WireTypeOK
<1> QED
  BY <1>1, ExitKeepsDisk DEF RcvFail, RcvKill, Down

\* A chunk of which only a part was written still continues the file.
LEMMA PartWriteInv == ASSUME RcvInv, RcvPartWrite PROVE RcvInv'
<1> DEFINE f == Head(toReceiver)
<1>1. rcvPc = "stream" /\ f.data \in Seq(Byte) /\ f.offset = expectedNext
        /\ f.offset + Len(f.data) <= rcvOpen.size /\ UNCHANGED <<meta, dest, delivered>>
  BY DEF RcvPartWrite, Acceptable, RcvInv, WireTypeOK, SenderFrame, OpenFrame,
         ChunkFrame, EofFrame
<1>2. PICK n \in 1..Len(f.data) :
        partial' = [partial EXCEPT ![Session] =
                      WriteAt(@, expectedNext, SubSeq(f.data, 1, n))]
  BY <1>1 DEF RcvPartWrite
<1>3. SubSeq(f.data, 1, n) \in Seq(Byte) /\ Len(SubSeq(f.data, 1, n)) = n
        /\ n <= Len(f.data) /\ n \in Nat /\ Len(f.data) \in Nat
  BY <1>1
<1>4. expectedNext \in Nat /\ rcvOpen.size \in Nat
  BY <1>1, ServedSession DEF RcvInv, RcvTypeOK, Transferring, OpenFrame
<1>5. Len(SubSeq(f.data, 1, n)) <= rcvOpen.size - expectedNext
  BY <1>1, <1>3, <1>4
<1>6. DiskTypeOK' /\ PartialFitsMeta'
  BY <1>1, <1>2, <1>3, <1>5, AppendKeepsFiles
<1>7. ~FsyncMayFail => (Exists(dest) => dest.synced = Len(dest.data))'
  BY <1>1 DEF RcvInv, CheckedIsDurable
<1>8. CASE Exit("off") /\ UNCHANGED toSender
  BY <1>6, <1>7, <1>8, ExitInv DEF RcvInv, WireTypeOK, Down
<1>9. CASE Raise(<<>>)
  <2>1. Append(<<>>, ServerError) \in Seq(ReceiverFrame)
    BY ReceiverFrames
  <2>2. toSender' \in Seq(ReceiverFrame)
    BY <1>9, <2>1, ReplyType DEF Raise, RcvInv
  <2> QED
    BY <1>6, <1>7, <1>9, <2>2, ExitInv DEF Raise, Down
<1> QED
  BY <1>8, <1>9 DEF RcvPartWrite

\* A power failure only shortens or blanks files, and never the destination.
LEMMA LosePowerFiles ==
  ASSUME RcvInv, LosePower
  PROVE  /\ DiskTypeOK' /\ PartialFitsMeta'
         /\ ~FsyncMayFail => dest' = dest
         /\ ~FsyncMayFail => (Exists(dest) => dest.synced = Len(dest.data))'
<1>1. /\ \A s \in Sessions : partial'[s] \in Torn(partial[s])
      /\ DOMAIN partial' = Sessions /\ partial' = [s \in Sessions |-> partial'[s]]
      /\ dest' \in Torn(dest) /\ UNCHANGED <<meta, delivered>>
  BY DEF LosePower
<1>2. \A s \in Sessions : partial[s] \in File \cup {Absent}
  BY DEF RcvInv, RcvTypeOK, DiskTypeOK
<1>3. \A s \in Sessions :
        /\ partial'[s] \in File \cup {Absent}
        /\ Exists(partial'[s]) <=> Exists(partial[s])
        /\ Exists(partial[s]) => Len(partial'[s].data) <= Len(partial[s].data)
  BY <1>1, <1>2, TornFile
<1>4. dest \in File \cup {Absent}
  BY DEF RcvInv, RcvTypeOK, DiskTypeOK
<1>5. /\ dest' \in File \cup {Absent} /\ (Exists(dest') <=> Exists(dest))
      /\ Exists(dest) => dest'.synced = Len(dest'.data)
      /\ Exists(dest) /\ dest.synced = Len(dest.data) => dest' = dest
  BY <1>1, <1>4, TornFile
<1>6. DiskTypeOK'
  BY <1>1, <1>3, <1>5 DEF RcvInv, RcvTypeOK, DiskTypeOK
<1>7. PartialFitsMeta'
  <2> SUFFICES ASSUME NEW s \in Sessions, Exists(partial'[s]), Exists(meta[s])
               PROVE  Len(partial'[s].data) <= meta[s].size
    BY <1>1 DEF PartialFitsMeta
  <2>1. Len(partial'[s].data) <= Len(partial[s].data)
          /\ Len(partial[s].data) <= meta[s].size
    BY <1>3 DEF RcvInv, PartialFitsMeta
  <2>2. partial[s] \in File /\ partial'[s] \in File /\ meta[s] \in Meta
    BY <1>3 DEF RcvInv, RcvTypeOK, DiskTypeOK, Exists
  <2>3. Len(partial'[s].data) \in Nat /\ Len(partial[s].data) \in Nat /\ meta[s].size \in Nat
    BY <2>2 DEF File, Meta
  <2> QED
    BY <2>1, <2>3
<1>8. ~FsyncMayFail => dest' = dest
  <2>1. CASE Exists(dest)
    BY <2>1, <1>5 DEF RcvInv, CheckedIsDurable
  <2>2. CASE ~Exists(dest)
    BY <2>2, <1>5 DEF Exists
  <2> QED
    BY <2>1, <2>2
<1>9. ~FsyncMayFail => (Exists(dest) => dest.synced = Len(dest.data))'
  BY <1>8 DEF RcvInv, CheckedIsDurable
<1> QED
  BY <1>6, <1>7, <1>8, <1>9

\* A power failure preserves RcvInv.
LEMMA PowerLossInv == ASSUME RcvInv, PowerLoss PROVE RcvInv'
<1>1. toSender' \in Seq(ReceiverFrame)
  BY DEF PowerLoss, RcvInv, WireTypeOK
<1>2. DiskTypeOK' /\ PartialFitsMeta'
        /\ (~FsyncMayFail => (Exists(dest) => dest.synced = Len(dest.data))')
  BY LosePowerFiles DEF PowerLoss
<1> QED
  BY <1>1, <1>2, ExitInv DEF PowerLoss, Down

\* The user takes the destination away.
LEMMA TakeOutputInv ==
  ASSUME RcvInv, TakeOutput, UNCHANGED <<local, rcvPc, wire>> PROVE RcvInv'
<1>1. dest' = Absent /\ UNCHANGED <<partial, meta, delivered, local, rcvPc, wire>>
  BY DEF TakeOutput
<1>2. WireTypeOK' /\ RcvTypeOK'
  BY <1>1 DEF RcvInv, WireTypeOK, RcvTypeOK, DiskTypeOK, local, wire
<1>3. StreamIsContiguous' /\ SessionIsRecorded' /\ PartialFitsMeta'
  BY <1>1 DEF RcvInv, StreamIsContiguous, SessionIsRecorded, PartialFitsMeta, local, Session
<1>4. RunStartsEmpty' /\ PromotionIsChecked' /\ CheckedIsDurable'
  BY <1>1 DEF RcvInv, RunStartsEmpty, PromotionIsChecked, CheckedIsDurable, local,
              Session, MayInstall, Exists
<1> QED
  BY <1>2, <1>3, <1>4 DEF RcvInv

\* The user removes an orphaned partial or meta file between runs.
LEMMA CleanupInv == ASSUME RcvInv, NEW s \in Sessions, ManualCleanup(s) PROVE RcvInv'
<1>1. rcvPc \in Down /\ UNCHANGED <<dest, delivered, local, rcvPc, wire>>
        /\ partial' = [partial EXCEPT ![s] = Absent] /\ meta' = [meta EXCEPT ![s] = Absent]
  BY DEF ManualCleanup, RemoveOrphan
<1>2. DiskTypeOK' /\ PartialFitsMeta'
  BY <1>1, RemovalKeepsFiles
<1>3. WireTypeOK' /\ RcvTypeOK'
  BY <1>1, <1>2 DEF RcvInv, WireTypeOK, RcvTypeOK, local, wire
<1>4. StreamIsContiguous' /\ SessionIsRecorded' /\ RunStartsEmpty' /\ PromotionIsChecked'
        /\ CheckedIsDurable'
  BY <1>1 DEF RcvInv, StreamIsContiguous, SessionIsRecorded, RunStartsEmpty,
              PromotionIsChecked, CheckedIsDurable, Down, Transferring, local
<1> QED
  BY <1>2, <1>3, <1>4 DEF RcvInv

-----------------------------------------------------------------------------
(* The facts the compositions use.                                         *)

\* RcvInv holds initially.
THEOREM RcvInitInv == WireInit /\ RcvInit => RcvInv
<1> SUFFICES ASSUME WireInit, RcvInit PROVE RcvInv
  OBVIOUS
<1>1. WireTypeOK /\ RcvTypeOK
  BY DEF WireInit, RcvInit, DiskInit, WireTypeOK, RcvTypeOK, DiskTypeOK, Down, Serving,
         Transferring
<1>2. StreamIsContiguous /\ PartialFitsMeta /\ SessionIsRecorded /\ RunStartsEmpty
        /\ PromotionIsChecked /\ CheckedIsDurable
  BY DEF RcvInit, DiskInit, StreamIsContiguous, PartialFitsMeta, SessionIsRecorded,
         RunStartsEmpty, PromotionIsChecked, CheckedIsDurable, Transferring, Exists
<1> QED
  BY <1>1, <1>2 DEF RcvInv

\* RcvInv is preserved by every step of the receiver, its faults and its user.
THEOREM RcvStepInv == RcvInv /\ (RcvStep \/ RcvFault \/ RcvUser) => RcvInv'
<1> SUFFICES ASSUME RcvInv, RcvStep \/ RcvFault \/ RcvUser PROVE RcvInv'
  OBVIOUS
<1>1. CASE RcvStep
  BY <1>1, OpenResumeInv, OpenNewInv, RefusalInv, WriteMetaInv, AckInv, ChunkInv, EofInv,
     VerifyOkInv, RejectInv, DiscardMetaInv, PromoteInv, UnlinkMetaInv, ReplyInv, AbortInv
  DEF RcvStep
<1>2. CASE RcvFault
  BY <1>2, RefusalInv, RejectInv, AbortInv, PartWriteInv, PowerLossInv DEF RcvFault
<1>3. CASE RcvUser
  BY <1>3, TakeOutputInv, CleanupInv DEF RcvUser
<1> QED
  BY <1>1, <1>2, <1>3

\* The peer only touches the wire.
THEOREM RcvPeerInv == RcvInv /\ WireTypeOK' /\ (UNCHANGED rcvVars \/ RcvAccept) => RcvInv'
<1> SUFFICES ASSUME RcvInv, WireTypeOK', UNCHANGED rcvVars \/ RcvAccept PROVE RcvInv'
  OBVIOUS
<1>1. UNCHANGED <<disk, local>> /\ (rcvPc' = rcvPc \/ (rcvPc \in Down /\ rcvPc' = "accepted"))
  BY DEF RcvAccept, rcvVars
<1>2. RcvTypeOK'
  BY <1>1 DEF RcvInv, RcvTypeOK, DiskTypeOK, disk, local, Down, Serving, Transferring
<1>3. StreamIsContiguous' /\ SessionIsRecorded' /\ PartialFitsMeta'
  BY <1>1 DEF RcvInv, StreamIsContiguous, SessionIsRecorded, PartialFitsMeta, disk,
              local, Session, Down, Transferring
<1>4. RunStartsEmpty' /\ PromotionIsChecked' /\ CheckedIsDurable'
  BY <1>1 DEF RcvInv, RunStartsEmpty, PromotionIsChecked, CheckedIsDurable, disk, local,
              Session, Down, MayInstall
<1> QED
  BY <1>2, <1>3, <1>4 DEF RcvInv

\* A lost connection leaves the channels well formed.
THEOREM LostWire == WireTypeOK /\ LoseConnection => WireTypeOK'
<1>1. <<>> \in Seq(SenderFrame) /\ <<>> \in Seq(ReceiverFrame)
  OBVIOUS
<1> QED
  BY <1>1 DEF WireTypeOK, LoseConnection

\* The steps that leave the destination as it is.
LEMMA DestUntouched ==
  ASSUME RcvStep \/ RcvFault \/ RcvUser
  PROVE  RcvPromote \/ PowerLoss \/ TakeOutput \/ UNCHANGED <<dest, delivered>>
<1>1. CASE RcvStep
  BY <1>1 DEF RcvStep, RcvOpenResume, RcvOpenNew, RcvOpenRefused, RcvWriteMeta, RcvAck,
     RcvChunk, RcvStreamRefused, RcvEof, RcvVerifyOk, RcvVerifyMismatch,
     RcvVerifyBlocked, RcvReject, RcvDiscard, RcvDiscardMeta, RcvUnlinkMeta, RcvReply,
     RcvFail, disk
<1>2. CASE RcvFault
  BY <1>2 DEF RcvFault, RcvIoError, RcvDiscardFails, RcvKill, RcvPartWrite, disk
<1>3. CASE RcvUser
  BY <1>3 DEF RcvUser, ManualCleanup, RemoveOrphan
<1> QED
  BY <1>1, <1>2, <1>3

\* A destination that exists is only replaced with --overwrite.
THEOREM RcvNeverReplaces ==
  ASSUME RcvInv, RcvStep \/ RcvFault \/ RcvUser,
         ~(FsyncMayFail /\ PowerMayFail), ~Overwrite, Exists(dest)
  PROVE  dest' \in {dest, Absent}
<1>1. CASE RcvPromote
  <2>1. rcvPc = "promote" /\ PromotionIsChecked
    BY <1>1 DEF RcvPromote, RcvInv
  <2> QED
    BY <2>1 DEF PromotionIsChecked, MayInstall
<1>2. CASE PowerLoss
  BY <1>2, LosePowerFiles DEF PowerLoss
<1>3. CASE TakeOutput
  BY <1>3 DEF TakeOutput
<1> QED
  BY <1>1, <1>2, <1>3, DestUntouched

-----------------------------------------------------------------------------
(* What a session has received is kept.                                    *)

Extends(new, old) == Len(new) >= Len(old) /\ SubSeq(new, 1, Len(old)) = old

\* What is written behind a sequence leaves its beginning as it is.
LEMMA ConcatExtends ==
  ASSUME NEW a \in Seq(Byte), NEW b \in Seq(Byte)
  PROVE  Extends(a \o b, a) /\ Extends(a, a)
<1>1. /\ a \o b \in Seq(Byte) /\ Len(a \o b) = Len(a) + Len(b)
      /\ Len(a) \in Nat /\ Len(b) \in Nat
      /\ \A i \in 1..Len(a) : (a \o b)[i] = a[i]
  OBVIOUS
<1>2. ASSUME NEW c \in Seq(Byte), Len(c) >= Len(a), \A i \in 1..Len(a) : c[i] = a[i]
      PROVE  SubSeq(c, 1, Len(a)) = a
  <2>1. /\ SubSeq(c, 1, Len(a)) \in Seq(Byte) /\ Len(SubSeq(c, 1, Len(a))) = Len(a)
        /\ \A i \in 1..Len(a) : SubSeq(c, 1, Len(a))[i] = c[i]
    BY <1>1, <1>2, FirstPiece
  <2> QED
    BY <1>2, <2>1, SeqEqual
<1>3. SubSeq(a \o b, 1, Len(a)) = a
  BY <1>1, <1>2
<1>4. SubSeq(a, 1, Len(a)) = a
  BY <1>1, <1>2
<1> QED
  BY <1>1, <1>3, <1>4 DEF Extends

\* Chunks, and parts of chunks, go behind what the session has.
LEMMA WritingExtends ==
  ASSUME RcvInv, RcvChunk \/ RcvPartWrite
  PROVE  \A s \in Sessions : Exists(partial[s]) =>
           Exists(partial'[s]) /\ Extends(partial'[s].data, partial[s].data)
<1> DEFINE f == Head(toReceiver)
<1>1. /\ rcvPc = "stream" /\ toReceiver # <<>> /\ Acceptable(f)
      /\ UNCHANGED <<meta, dest, delivered>>
  BY DEF RcvChunk, RcvPartWrite
<1>2. f \in SenderFrame
  BY <1>1 DEF RcvInv, WireTypeOK
<1>3. f.data \in Seq(Byte) /\ Len(f.data) \in Nat /\ f.offset = expectedNext
        /\ f.offset + Len(f.data) <= rcvOpen.size
  BY <1>1, <1>2 DEF Acceptable, SenderFrame, OpenFrame, ChunkFrame, EofFrame
<1>4. PICK d \in Seq(Byte) :
        /\ Len(d) <= Len(f.data)
        /\ partial' = [partial EXCEPT ![Session] = WriteAt(@, f.offset, d)]
  <2>1. CASE RcvChunk
    <3>1. partial' = [partial EXCEPT ![Session] = WriteAt(@, f.offset, f.data)]
      BY <2>1 DEF RcvChunk
    <3> HIDE DEF f
    <3>2. f.data \in Seq(Byte) /\ Len(f.data) <= Len(f.data)
      BY <1>3
    <3> QED
      BY <3>1, <3>2, Zenon
  <2>2. CASE RcvPartWrite
    <3>1. PICK n \in 1..Len(f.data) :
            partial' = [partial EXCEPT ![Session] =
                          WriteAt(@, f.offset, SubSeq(f.data, 1, n))]
      BY <2>2 DEF RcvPartWrite
    <3> HIDE DEF f
    <3>2. n \in Nat /\ n <= Len(f.data)
      BY <1>3
    <3>3. SubSeq(f.data, 1, n) \in Seq(Byte) /\ Len(SubSeq(f.data, 1, n)) = n
      BY <1>3, <3>2, FirstPiece
    <3> QED
      BY <3>1, <3>2, <3>3
  <2> QED
    BY <2>1, <2>2
<1> HIDE DEF f
<1>5. /\ rcvOpen \in OpenFrame /\ Session \in Sessions /\ partial[Session].data = rcvHashed
      /\ rcvHashed \in Seq(Byte) /\ expectedNext \in Nat /\ rcvOpen.size \in Nat
  BY <1>1, ServedSession DEF Transferring, RcvInv, RcvTypeOK, OpenFrame
<1>6. Len(d) <= rcvOpen.size - expectedNext
  <2>1. Len(d) \in Nat
    OBVIOUS
  <2> QED
    BY <1>3, <1>4, <1>5, <2>1
<1>7. partial' = [partial EXCEPT ![Session] = WriteAt(@, expectedNext, d)]
  BY <1>3, <1>4
<1>8. Exists(partial'[Session]) /\ partial'[Session].data = rcvHashed \o d
  BY <1>1, <1>6, <1>7, AppendKeepsFiles
<1>9. Extends(partial'[Session].data, partial[Session].data)
  BY <1>5, <1>8, ConcatExtends
<1>10. partial \in [Sessions -> File \cup {Absent}]
  BY DEF RcvInv, RcvTypeOK, DiskTypeOK
<1>11. \A s \in Sessions : s # Session => partial'[s] = partial[s]
  BY <1>7, <1>10
<1>12. ASSUME NEW s \in Sessions, Exists(partial[s])
       PROVE  Extends(partial[s].data, partial[s].data)
  <2>1. partial[s].data \in Seq(Byte)
    BY <1>10, <1>12 DEF Exists, File
  <2> QED
    BY <2>1, ConcatExtends
<1> QED
  BY <1>8, <1>9, <1>11, <1>12

\* Who removes a session's file: promotion, a mismatch, the user between runs.
LEMMA WhoRemoves ==
  ASSUME RcvInv, RcvStep \/ RcvFault \/ RcvUser,
         ~RcvChunk, ~RcvPartWrite, ~PowerLoss,
         NEW s \in Sessions, Exists(partial[s])
  PROVE  \/ Exists(partial'[s]) /\ partial'[s].data = partial[s].data
         \/ partial'[s] = Absent /\ rcvPc \in {"promote", "discard"} \cup Down
<1>0. partial \in [Sessions -> File \cup {Absent}]
  BY DEF RcvInv, RcvTypeOK, DiskTypeOK
<1>1. CASE partial' = partial
  BY <1>1
<1>2. CASE RcvOpenNew
  <2>1. /\ Head(toReceiver) \in SenderFrame
        /\ ~Exists(partial[Head(toReceiver).session])
        /\ partial' = [partial EXCEPT ![Head(toReceiver).session] = EmptyFile]
    BY <1>2 DEF RcvOpenNew, Arrived, Fresh, RcvInv, WireTypeOK
  <2> QED
    BY <1>0, <2>1
<1>3. CASE RcvEof
  <2>1. partial' = partial \/ partial' = [partial EXCEPT ![Session] = Synced(@)]
    BY <1>3 DEF RcvEof
  <2>2. Session \in Sessions /\ partial[Session] \in File
    BY <1>3, ServedSession DEF RcvEof, Transferring
  <2>3. Synced(partial[Session]) \in File
          /\ Synced(partial[Session]).data = partial[Session].data
    BY <2>2, SyncedFile
  <2>4. Exists(Synced(partial[Session]))
    BY <2>3, FilesAssumption DEF Exists
  <2> QED
    BY <1>0, <2>1, <2>2, <2>3, <2>4
<1>4. CASE RcvPromote \/ RcvDiscard \/ RcvUser
  <2>1. /\ rcvPc \in {"promote", "discard"} \cup Down \/ partial' = partial
        /\ partial' = partial \/ \E t : partial' = [partial EXCEPT ![t] = Absent]
    BY <1>4 DEF RcvPromote, RcvDiscard, RcvUser, ManualCleanup, RemoveOrphan, TakeOutput
  <2> QED
    BY <1>0, <2>1
<1>5. partial' = partial \/ RcvOpenNew \/ RcvEof \/ RcvPromote \/ RcvDiscard \/ RcvUser
  <2>1. CASE RcvStep
    BY <2>1 DEF RcvStep, RcvOpenResume, RcvOpenRefused, RcvWriteMeta, RcvAck,
       RcvStreamRefused, RcvVerifyOk, RcvVerifyMismatch, RcvVerifyBlocked,
       RcvReject, RcvDiscardMeta, RcvUnlinkMeta, RcvReply, RcvFail, disk
  <2>2. CASE RcvFault
    BY <2>2 DEF RcvFault, RcvIoError, RcvDiscardFails, RcvKill, disk
  <2> QED
    BY <2>1, <2>2
<1> QED
  BY <1>1, <1>2, <1>3, <1>4, <1>5

\* Without power failures no step of the receiver loses what a session has,
\* except to promote it, to discard what did not match, or to clean up.
THEOREM RcvKeepsProgress ==
  ASSUME ~PowerMayFail, RcvInv, RcvStep \/ RcvFault \/ RcvUser \/ UNCHANGED disk
  PROVE  \A s \in Sessions : Exists(partial[s]) =>
           \/ Exists(partial'[s]) /\ Extends(partial'[s].data, partial[s].data)
           \/ partial'[s] = Absent /\ rcvPc \in {"promote", "discard"} \cup Down
<1>1. ~PowerLoss
  BY DEF PowerLoss
<1>2. CASE RcvChunk \/ RcvPartWrite
  BY <1>2, WritingExtends
<1>3. CASE ~RcvChunk /\ ~RcvPartWrite
  <2> SUFFICES ASSUME NEW s \in Sessions, Exists(partial[s])
               PROVE  \/ Exists(partial'[s]) /\ Extends(partial'[s].data, partial[s].data)
                      \/ partial'[s] = Absent /\ rcvPc \in {"promote", "discard"} \cup Down
    OBVIOUS
  <2>1. partial[s].data \in Seq(Byte)
    BY DEF RcvInv, RcvTypeOK, DiskTypeOK, Exists, File
  <2>2. Extends(partial[s].data, partial[s].data)
    BY <2>1, ConcatExtends
  <2>3. CASE UNCHANGED disk
    BY <2>2, <2>3 DEF disk
  <2>4. CASE RcvStep \/ RcvFault \/ RcvUser
    BY <1>1, <1>3, <2>2, <2>4, WhoRemoves
  <2> QED
    BY <2>3, <2>4
<1> QED
  BY <1>2, <1>3
=============================================================================
