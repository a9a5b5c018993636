-------------------------- MODULE MtlsStreamProofs --------------------------
(***************************************************************************)
(* The whole mTLS stream, proved for every set of sessions, bytes, chunk   *)
(* sizes, input versions and buffer size: types, what the destination      *)
(* shows, what success means, and that the transfer implements             *)
(* AtomicDelivery.                                                         *)
(***************************************************************************)
EXTENDS MtlsStream, StreamReceiverProofs

-----------------------------------------------------------------------------
(* The sender.  What it has hashed is as long as its offset says.          *)

SenderKeepsCount ==
  /\ sndOpen # Absent => \E f \in Inputs : Len(f) = sndOpen.size
  /\ sndPc \in {"send", "awaitFinal"} =>
       sndOffset = Len(sndHashed) /\ sndOffset <= sndOpen.size
  /\ sndPc = "awaitFinal" => sndOffset = sndOpen.size

SndInv == SndTypeOK /\ SenderKeepsCount

\* A sender that has never run satisfies SndInv.
LEMMA SndInitInv == SndInit => SndInv
BY DEF SndInit, SndInv, SndTypeOK, SenderKeepsCount, SndActive

\* A run of the sender that fails leaves SndInv intact.
LEMMA SndExitInv ==
  ASSUME WireTypeOK, SndInv, SndExit
  PROVE  WireTypeOK' /\ SndInv'
BY DEF WireTypeOK, SndInv, SndTypeOK, SenderKeepsCount, SndExit, SndActive

\* OPEN announces the size of one of the versions of the input (sender.py:101, 125).
LEMMA SndOpenInv ==
  ASSUME WireTypeOK, SndInv, NEW s \in Sessions, NEW k \in ChunkSizes, SndOpen(s, k)
  PROVE  WireTypeOK' /\ SndInv'
<1> DEFINE f == [type |-> "OPEN", session |-> s, size |-> Len(input), chunk |-> k]
<1>1. input \in Inputs /\ input \in Seq(Byte) /\ Len(input) \in Nat /\ k \in Nat
  BY InputsAssumption, ProtocolAssumption DEF SndInv, SndTypeOK
<1>2. f \in OpenFrame /\ f # Absent
  BY <1>1, ProtocolAssumption DEF OpenFrame
<1>3. sndOpen' = f /\ sndPc' = "awaitAck" /\ sndOffset' = 0 /\ sndHashed' = <<>>
        /\ toReceiver' = <<f>> /\ toSender' = <<>> /\ link' = "up"
        /\ UNCHANGED <<input, offered>>
  BY DEF SndOpen
<1>4. WireTypeOK'
  BY <1>2, <1>3 DEF WireTypeOK, SenderFrame
<1>5. SndTypeOK'
  BY <1>1, <1>2, <1>3 DEF SndInv, SndTypeOK, SndActive
<1>6. SenderKeepsCount'
  BY <1>1, <1>3 DEF SenderKeepsCount
<1> QED
  BY <1>4, <1>5, <1>6 DEF SndInv

\* After OPEN_ACK as many bytes are hashed as the receiver has (sender.py:133-144).
LEMMA SndRecvAckInv ==
  ASSUME WireTypeOK, SndInv, SndRecvAck \/ SndRecvAckEdited
  PROVE  WireTypeOK' /\ SndInv'
<1> DEFINE n == Head(toSender).have
<1>0. SndTakeAck
  BY DEF SndRecvAck, SndRecvAckEdited
<1>1. toSender # <<>> /\ Head(toSender) \in ReceiverFrame /\ toSender' \in Seq(ReceiverFrame)
  BY <1>0 DEF WireTypeOK, SndTakeAck
<1>2. n \in Nat /\ n <= sndOpen.size /\ n <= Len(input)
  BY <1>0, <1>1 DEF SndTakeAck, AckUsable, ReceiverFrame, AckFrame, ErrorFrame, OkFrame
<1>3. input \in Seq(Byte) /\ Len(input) \in Nat
  BY InputsAssumption DEF SndInv, SndTypeOK
<1>4. sndHashed' \in Seq(Byte) /\ Len(sndHashed') = n
  <2>1. CASE SndRecvAck
    BY <1>2, <1>3, <2>1 DEF SndRecvAck, HashPrefix
  <2>2. CASE SndRecvAckEdited
    <3>1. sndHashed' \in [1..n -> Byte]
      BY <2>2 DEF SndRecvAckEdited, Mixtures
    <3> QED
      BY <1>2, <3>1
  <2> QED
    BY <2>1, <2>2
<1>5. /\ sndPc = "awaitAck" /\ sndPc' = "send" /\ sndOffset' = n
      /\ UNCHANGED <<sndOpen, offered, toReceiver, link>>
  BY <1>0 DEF SndTakeAck
<1>6. WireTypeOK'
  BY <1>1, <1>5 DEF WireTypeOK
<1>9. input' \in Inputs
  BY DEF SndRecvAck, SndRecvAckEdited, SndInv, SndTypeOK
<1>7. SndTypeOK'
  BY <1>2, <1>4, <1>5, <1>9 DEF SndInv, SndTypeOK, SndActive
<1>8. SenderKeepsCount'
  BY <1>2, <1>4, <1>5 DEF SndInv, SenderKeepsCount
<1> QED
  BY <1>6, <1>7, <1>8 DEF SndInv

\* A chunk moves hash and offset on together (sender.py:145-153).
LEMMA SndChunkInv ==
  ASSUME WireTypeOK, SndInv, SndChunk
  PROVE  WireTypeOK' /\ SndInv'
<1> DEFINE data == SubSeq(input, sndOffset + 1, sndOffset + ToRead)
           f == [type |-> "CHUNK", offset |-> sndOffset, data |-> data]
<1>1. /\ input \in Seq(Byte) /\ Len(input) \in Nat /\ sndOffset \in Nat
      /\ sndOpen \in OpenFrame /\ sndOpen.size \in Nat /\ sndOpen.chunk \in Nat
      /\ sndHashed \in Seq(Byte) /\ sndPc = "send" /\ sndOffset = Len(sndHashed)
      /\ sndOffset < sndOpen.size
  BY InputsAssumption
  DEF SndInv, SndTypeOK, SenderKeepsCount, SndChunk, SndActive, OpenFrame
<1>2. ToRead \in Nat /\ ToRead <= sndOpen.size - sndOffset
  BY <1>1 DEF ToRead
<1>3. sndOffset + ToRead <= Len(input)
  BY DEF SndChunk
<1>4. data \in Seq(Byte) /\ Len(data) = ToRead
  BY <1>1, <1>2, <1>3
<1>5. f \in SenderFrame
  BY <1>1, <1>4 DEF SenderFrame, ChunkFrame
<1>6. /\ toReceiver' = Append(toReceiver, f) /\ sndHashed' = sndHashed \o data
      /\ sndOffset' = sndOffset + ToRead
      /\ UNCHANGED <<input, sndPc, sndOpen, offered, toSender, link>>
  BY DEF SndChunk
<1>7. sndHashed' \in Seq(Byte) /\ Len(sndHashed') = sndOffset'
  BY <1>1, <1>4, <1>6
<1>8. sndOffset' \in Nat /\ sndOffset' <= sndOpen.size
  BY <1>1, <1>2, <1>6
<1>9. WireTypeOK'
  BY <1>5, <1>6 DEF WireTypeOK
<1>10. SndTypeOK'
  BY <1>6, <1>7, <1>8 DEF SndInv, SndTypeOK
<1>11. SenderKeepsCount'
  BY <1>1, <1>6, <1>7, <1>8 DEF SndInv, SenderKeepsCount
<1> QED
  BY <1>9, <1>10, <1>11 DEF SndInv

\* EOF is sent exactly at the announced size (sender.py:145, 155).
LEMMA SndEofInv ==
  ASSUME WireTypeOK, SndInv, SndEof
  PROVE  WireTypeOK' /\ SndInv'
<1> DEFINE f == [type |-> "EOF", digest |-> sndHashed]
<1>1. f \in SenderFrame /\ sndHashed \in Seq(Byte)
  BY DEF SndInv, SndTypeOK, SenderFrame, EofFrame
<1>2. /\ sndPc = "send" /\ sndPc' = "awaitFinal" /\ sndOffset >= sndOpen.size
      /\ toReceiver' = Append(toReceiver, f) /\ offered' = offered \cup {sndHashed}
      /\ UNCHANGED <<input, sndOpen, sndOffset, sndHashed, toSender, link>>
  BY DEF SndEof
<1>3. sndOffset \in Nat /\ sndOpen.size \in Nat
  BY <1>2 DEF SndInv, SndTypeOK, SndActive, OpenFrame
<1>4. WireTypeOK'
  BY <1>1, <1>2 DEF WireTypeOK
<1>5. SndTypeOK'
  BY <1>1, <1>2 DEF SndInv, SndTypeOK, SndActive
<1>6. SenderKeepsCount'
  BY <1>2, <1>3 DEF SndInv, SenderKeepsCount
<1> QED
  BY <1>4, <1>5, <1>6 DEF SndInv

\* Reading SERVER_OK disturbs nothing (sender.py:157-161).
LEMMA SndRecvOkInv ==
  ASSUME WireTypeOK, SndInv, SndRecvOk
  PROVE  WireTypeOK' /\ SndInv'
BY DEF WireTypeOK, SndInv, SndTypeOK, SenderKeepsCount, SndRecvOk, SndActive

\* The five ways a run fails are all the same exit (sender.py:163-170).
LEMMA SndLeaves ==
  ASSUME SndRecvRefusal \/ SndShortRead \/ SndRecvError \/ SndFail \/ SndKill
  PROVE  SndExit /\ sndPc \in SndActive
BY DEF SndRecvRefusal, SndShortRead, SndRecvError, SndFail, SndKill, SndActive

\* What the sender does, with an edit while it hashes and without.
SenderAct == SndStep \/ SndRecvAckEdited \/ SndKill

\* Every step of the sender, and killing it, preserves SndInv.
LEMMA SndStepInv ==
  ASSUME WireTypeOK, SndInv, SenderAct
  PROVE  WireTypeOK' /\ SndInv'
BY SndRecvAckInv, SndChunkInv, SndEofInv, SndRecvOkInv, SndExitInv, SndLeaves DEF SenderAct, SndStep

\* Steps of others, and editing the input, preserve SndInv.
LEMMA SndRestInv ==
  ASSUME SndInv, UNCHANGED sndVars \/ EditInput
  PROVE  SndInv'
BY DEF SndInv, SndTypeOK, SenderKeepsCount, sndVars, EditInput

-----------------------------------------------------------------------------
(* Both ends together.                                                     *)

BaseInv == SndInv /\ RcvInv

\* BaseInv holds initially.
LEMMA InitBase == Init => BaseInv
BY SndInitInv, RcvInitInv DEF Init, BaseInv

\* The kinds of step of the whole system.
LEMMA NextCases ==
  ASSUME [Next]_vars
  PROVE  \/ \E s \in Sessions, k \in ChunkSizes : Connect(s, k)
         \/ SenderAct /\ UNCHANGED rcvVars
         \/ (RcvStep \/ RcvFault \/ RcvUser) /\ UNCHANGED sndVars
         \/ EditInput /\ UNCHANGED rcvVars
         \/ LoseConnection /\ UNCHANGED <<sndVars, rcvVars>>
         \/ UNCHANGED vars
BY DEF Next, Rerun, Programs, User, Fault, SenderAct

\* BaseInv is inductive.
LEMMA NextBase == BaseInv /\ [Next]_vars => BaseInv'
<1> SUFFICES ASSUME BaseInv, [Next]_vars PROVE BaseInv'
  OBVIOUS
<1>0. WireTypeOK /\ SndInv /\ RcvInv
  BY DEF BaseInv, RcvInv
<1>1. CASE \E s \in Sessions, k \in ChunkSizes : Connect(s, k)
  BY <1>0, <1>1, SndOpenInv, RcvPeerInv DEF Connect, BaseInv
<1>2. CASE SenderAct /\ UNCHANGED rcvVars
  BY <1>0, <1>2, SndStepInv, RcvPeerInv DEF BaseInv
<1>3. CASE (RcvStep \/ RcvFault \/ RcvUser) /\ UNCHANGED sndVars
  BY <1>0, <1>3, SndRestInv, RcvStepInv DEF BaseInv
<1>4. CASE EditInput /\ UNCHANGED rcvVars
  <2>1. WireTypeOK'
    BY <1>0, <1>4 DEF EditInput, wire, WireTypeOK
  <2> QED
    BY <1>0, <1>4, <2>1, SndRestInv, RcvPeerInv DEF BaseInv
<1>5. CASE LoseConnection /\ UNCHANGED <<sndVars, rcvVars>>
  BY <1>0, <1>5, LostWire, SndRestInv, RcvPeerInv DEF BaseInv
<1>6. CASE UNCHANGED vars
  <2>1. WireTypeOK' /\ UNCHANGED sndVars /\ UNCHANGED rcvVars
    BY <1>0, <1>6 DEF vars, wire, WireTypeOK
  <2> QED
    BY <1>0, <2>1, SndRestInv, RcvPeerInv DEF BaseInv
<1> QED
  BY <1>1, <1>2, <1>3, <1>4, <1>5, <1>6, NextCases

(***************************************************************************)
(* Every variable of the composition keeps its type.                       *)
(***************************************************************************)
THEOREM TypeCorrect == Spec => []TypeOK
<1>1. BaseInv => TypeOK
  BY DEF BaseInv, SndInv, RcvInv, TypeOK
<1> QED
  BY <1>1, InitBase, NextBase, PTL DEF Spec

-----------------------------------------------------------------------------
(* What is under way.                                                      *)

EofUnderWay(d) ==
  \E i \in DOMAIN toReceiver : toReceiver[i].type = "EOF" /\ toReceiver[i].digest = d

OkUnderWay == \E i \in DOMAIN toSender : toSender[i].type = "SERVER_OK"

\* Reading or losing frames puts no EOF on its way.
LEMMA FewerFrames ==
  ASSUME WireTypeOK,
         \/ toReceiver' = toReceiver \/ toReceiver' = <<>>
         \/ toReceiver # <<>> /\ toReceiver' = Tail(toReceiver),
         NEW d, EofUnderWay(d)'
  PROVE  EofUnderWay(d)
<1>1. toReceiver \in Seq(SenderFrame)
  BY DEF WireTypeOK
<1>2. PICK i \in DOMAIN toReceiver' : toReceiver'[i].type = "EOF" /\ toReceiver'[i].digest = d
  BY DEF EofUnderWay
<1>3. CASE toReceiver' = toReceiver
  BY <1>2, <1>3 DEF EofUnderWay
<1>4. CASE toReceiver' = <<>>
  BY <1>2, <1>4
<1>5. CASE toReceiver # <<>> /\ toReceiver' = Tail(toReceiver)
  <2>1. i \in 1..Len(toReceiver) - 1 /\ toReceiver'[i] = toReceiver[i + 1]
    BY <1>1, <1>2, <1>5
  <2>2. i + 1 \in DOMAIN toReceiver
    BY <1>1, <2>1
  <2> QED
    BY <1>2, <2>1, <2>2 DEF EofUnderWay
<1> QED
  BY <1>3, <1>4, <1>5

\* The receiver only takes frames from its channel, from the front or all.
LEMMA RcvReads ==
  ASSUME RcvStep \/ RcvFault \/ RcvUser
  PROVE  \/ toReceiver' = toReceiver \/ toReceiver' = <<>>
         \/ toReceiver # <<>> /\ toReceiver' = Tail(toReceiver)
<1>1. CASE RcvStep
  BY <1>1 DEF RcvStep, RcvOpenResume, RcvOpenNew, RcvOpenRefused, RcvWriteMeta, RcvAck,
     RcvChunk, RcvStreamRefused, RcvEof, RcvVerifyOk, RcvVerifyMismatch, RcvVerifyBlocked,
     RcvReject, RcvDiscard, RcvDiscardMeta, RcvPromote, RcvUnlinkMeta, RcvReply, RcvFail,
     Arrived, Raise, Exit, wire
<1>2. CASE RcvFault
  BY <1>2 DEF RcvFault, RcvIoError, RcvDiscardFails, RcvKill, RcvPartWrite, PowerLoss,
     Raise, Exit, wire
<1>3. CASE RcvUser
  BY <1>3 DEF RcvUser, ManualCleanup, wire
<1> QED
  BY <1>1, <1>2, <1>3

\* Only the last step of a run sends SERVER_OK.
LEMMA ReplyWithoutOk ==
  ASSUME WireTypeOK, NEW fs \in Seq(AckFrame \cup ErrorFrame), Reply(fs), OkUnderWay'
  PROVE  OkUnderWay
<1>1. toSender \in Seq(ReceiverFrame)
  BY DEF WireTypeOK
<1>2. PICK i \in DOMAIN toSender' : toSender'[i].type = "SERVER_OK"
  BY DEF OkUnderWay
<1>3. CASE toSender' = toSender
  BY <1>2, <1>3 DEF OkUnderWay
<1>4. CASE toSender' = toSender \o fs
  <2>1. CASE i \in 1..Len(toSender)
    BY <1>1, <1>2, <1>4, <2>1 DEF OkUnderWay
  <2>2. CASE i \notin 1..Len(toSender)
    <3>1. toSender'[i] = fs[i - Len(toSender)] /\ i - Len(toSender) \in 1..Len(fs)
      BY <1>1, <1>2, <1>4, <2>2
    <3>2. toSender'[i] \in AckFrame \cup ErrorFrame
      BY <3>1
    <3> QED
      BY <1>2, <3>2 DEF AckFrame, ErrorFrame
  <2> QED
    BY <2>1, <2>2
<1> QED
  BY <1>3, <1>4 DEF Reply

\* A SERVER_OK that appears was sent by the last step of a run (receiver.py:203).
LEMMA OkComesLast ==
  ASSUME RcvInv, RcvStep \/ RcvFault \/ RcvUser, OkUnderWay'
  PROVE  OkUnderWay \/ rcvPc = "reply"
<1>1. CASE toSender' = toSender
  BY <1>1 DEF OkUnderWay
<1>2. CASE RcvReply
  BY <1>2 DEF RcvReply
<1>3. CASE RcvAck
  <2>1. Ack \in Seq(AckFrame \cup ErrorFrame)
    BY DEF Ack, AckFrame, RcvInv, RcvTypeOK
  <2> QED
    BY <1>3, <2>1, ReplyWithoutOk DEF RcvAck, RcvInv
<1>4. CASE RcvReject
  <2>1. <<ServerError>> \in Seq(AckFrame \cup ErrorFrame)
    BY DEF ServerError, ErrorFrame
  <2> QED
    BY <1>4, <2>1, ReplyWithoutOk DEF RcvReject, RcvInv
<1>5. CASE Raise(<<>>) \/ Raise(<<ServerError>>)
  <2>1. ServerError \in AckFrame \cup ErrorFrame
    BY DEF ServerError, ErrorFrame
  <2>2. Append(<<>>, ServerError) \in Seq(AckFrame \cup ErrorFrame)
          /\ Append(<<ServerError>>, ServerError) \in Seq(AckFrame \cup ErrorFrame)
    BY <2>1
  <2> QED
    BY <1>5, <2>2, ReplyWithoutOk DEF Raise, RcvInv
<1>6. toSender' = toSender \/ RcvReply \/ RcvAck \/ RcvReject \/ Raise(<<>>)
        \/ Raise(<<ServerError>>)
  <2>1. CASE RcvStep
    BY <2>1 DEF RcvStep, RcvOpenResume, RcvOpenNew, RcvOpenRefused, RcvWriteMeta,
       RcvChunk, RcvStreamRefused, RcvEof, RcvVerifyOk, RcvVerifyMismatch, RcvVerifyBlocked,
       RcvDiscard, RcvDiscardMeta, RcvPromote, RcvUnlinkMeta, RcvFail, wire
  <2>2. CASE RcvFault
    BY <2>2 DEF RcvFault, RcvIoError, RcvDiscardFails, RcvKill, RcvPartWrite, PowerLoss,
       wire
  <2>3. CASE RcvUser
    BY <2>3 DEF RcvUser, ManualCleanup, wire
  <2> QED
    BY <2>1, <2>2, <2>3
<1> QED
  BY <1>1, <1>2, <1>3, <1>4, <1>5, <1>6

\* What is under way after a send was so before or is the frame sent.
LEMMA SentFrame ==
  ASSUME WireTypeOK, NEW f \in SenderFrame, toReceiver' = Append(toReceiver, f),
         NEW d, EofUnderWay(d)'
  PROVE  EofUnderWay(d) \/ (f.type = "EOF" /\ f.digest = d)
<1>1. toReceiver \in Seq(SenderFrame)
  BY DEF WireTypeOK
<1>2. PICK i \in DOMAIN toReceiver' : toReceiver'[i].type = "EOF" /\ toReceiver'[i].digest = d
  BY DEF EofUnderWay
<1>3. i \in 1..Len(toReceiver) + 1
  BY <1>1, <1>2
<1>4. CASE i \in 1..Len(toReceiver)
  BY <1>1, <1>2, <1>4 DEF EofUnderWay
<1>5. CASE i = Len(toReceiver) + 1
  BY <1>1, <1>2, <1>5
<1> QED
  BY <1>1, <1>3, <1>4, <1>5

\* Of all its steps, the sender puts an EOF on its way by SndEof only.
LEMMA SndSends ==
  ASSUME BaseInv, SenderAct, NEW d, EofUnderWay(d)'
  PROVE  EofUnderWay(d) \/ (SndEof /\ d = sndHashed)
<1>1. WireTypeOK /\ SndInv
  BY DEF BaseInv, RcvInv
<1>2. CASE SndChunk
  <2>1. PICK g : toReceiver' = Append(toReceiver, g) /\ g.type = "CHUNK"
    BY <1>2 DEF SndChunk
  <2>2. toReceiver' \in Seq(SenderFrame)
    BY <1>1, <1>2, SndChunkInv DEF WireTypeOK
  <2>3. Len(toReceiver) + 1 \in DOMAIN toReceiver' /\ toReceiver'[Len(toReceiver) + 1] = g
    BY <1>1, <2>1 DEF WireTypeOK
  <2>4. g \in SenderFrame
    BY <2>2, <2>3
  <2> QED
    BY <1>1, <2>1, <2>4, SentFrame
<1>3. CASE SndEof
  <2> DEFINE f == [type |-> "EOF", digest |-> sndHashed]
  <2>1. f \in SenderFrame
    BY <1>1 DEF SndInv, SndTypeOK, SenderFrame, EofFrame
  <2>2. toReceiver' = Append(toReceiver, f)
    BY <1>3 DEF SndEof
  <2> QED
    BY <1>1, <1>3, <2>1, <2>2, SentFrame
<1>4. CASE toReceiver' = toReceiver
  BY <1>1, <1>4, FewerFrames
<1> QED
  BY <1>2, <1>3, <1>4, SndLeaves
  DEF SenderAct, SndStep, SndRecvAck, SndRecvAckEdited, SndTakeAck, SndRecvOk, SndExit

\* An EOF frame only ever gets on its way by the sender's SndEof.
LEMMA EofsComeFromSender ==
  ASSUME BaseInv, [Next]_vars, NEW d, EofUnderWay(d)'
  PROVE  EofUnderWay(d) \/ (SndEof /\ d = sndHashed)
<1>0. WireTypeOK
  BY DEF BaseInv, RcvInv
<1>1. CASE \E s \in Sessions, k \in ChunkSizes : Connect(s, k)
  <2>1. PICK f : toReceiver' = <<f>> /\ f.type = "OPEN"
    BY <1>1 DEF Connect, SndOpen
  <2> QED
    BY <2>1 DEF EofUnderWay
<1>2. CASE SenderAct
  BY <1>2, SndSends
<1>3. CASE RcvStep \/ RcvFault \/ RcvUser
  BY <1>0, <1>3, RcvReads, FewerFrames
<1>4. CASE EditInput \/ LoseConnection \/ UNCHANGED vars
  <2>1. toReceiver' = toReceiver \/ toReceiver' = <<>>
    BY <1>4 DEF EditInput, LoseConnection, vars, wire
  <2> QED
    BY <1>0, <2>1, FewerFrames
<1> QED
  BY <1>1, <1>2, <1>3, <1>4, NextCases

\* The digest a run checks is the one of an EOF it has read.
LEMMA CheckedDigest ==
  ASSUME WireTypeOK, RcvStep \/ RcvFault \/ RcvUser, rcvPc' \in {"verify", "promote"}
  PROVE  \/ rcvPc \in {"verify", "promote"} /\ digest' = digest
         \/ rcvPc = "stream" /\ EofUnderWay(digest')
<1>1. CASE RcvEof
  <2>1. toReceiver \in Seq(SenderFrame) /\ toReceiver # <<>> /\ Head(toReceiver).type = "EOF"
          /\ digest' = Head(toReceiver).digest /\ rcvPc = "stream"
    BY <1>1 DEF WireTypeOK, RcvEof, Arrived
  <2>2. 1 \in DOMAIN toReceiver /\ Head(toReceiver) = toReceiver[1]
    BY <2>1
  <2> QED
    BY <2>1, <2>2 DEF EofUnderWay
<1>2. CASE ~RcvEof /\ RcvStep
  BY <1>2 DEF RcvStep, RcvOpenResume, RcvOpenNew, RcvOpenRefused, RcvWriteMeta,
     RcvAck, RcvChunk, RcvStreamRefused, RcvVerifyOk, RcvVerifyMismatch, RcvVerifyBlocked,
     RcvReject, RcvDiscard, RcvDiscardMeta, RcvPromote, RcvUnlinkMeta, RcvReply, RcvFail,
     Raise, Exit, local
<1>3. CASE RcvFault \/ RcvUser
  BY <1>3 DEF RcvFault, RcvIoError, RcvDiscardFails, RcvKill, RcvPartWrite, PowerLoss,
     RcvUser, ManualCleanup, Raise, Exit, local
<1> QED
  BY <1>1, <1>2, <1>3

-----------------------------------------------------------------------------
(* What the sender has committed to: contents of the length of some input. *)

EofsWereOffered == \A d : EofUnderWay(d) => d \in offered

CheckWasOffered == rcvPc \in {"verify", "promote"} => digest \in offered

OffersAreFiles == offered \subseteq FileContents

OfferInv == BaseInv /\ EofsWereOffered /\ CheckWasOffered /\ OffersAreFiles

\* The digest in an EOF is of a content as long as a version of the input.
LEMMA EofIsFile == BaseInv /\ SndEof => sndHashed \in FileContents
<1> SUFFICES ASSUME BaseInv, SndEof PROVE sndHashed \in FileContents
  OBVIOUS
<1>1. sndPc = "send" /\ sndOffset >= sndOpen.size
  BY DEF SndEof
<1>2. sndOpen \in OpenFrame /\ sndOpen.size \in Nat /\ sndOpen # Absent /\ sndOffset \in Nat
  BY <1>1 DEF BaseInv, SndInv, SndTypeOK, OpenFrame, SndActive
<1>3. sndOffset = Len(sndHashed) /\ sndOffset <= sndOpen.size
  BY <1>1 DEF BaseInv, SndInv, SenderKeepsCount
<1>4. PICK f \in Inputs : Len(f) = sndOpen.size
  BY <1>2 DEF BaseInv, SndInv, SenderKeepsCount
<1>5. sndHashed \in Seq(Byte) /\ Len(sndHashed) = Len(f)
  BY <1>1, <1>2, <1>3, <1>4 DEF BaseInv, SndInv, SndTypeOK
<1>6. sndHashed \in [1..Len(f) -> Byte]
  BY <1>5
<1> QED
  BY <1>6 DEF FileContents

\* Offers are never taken back, and made by SndEof only.
LEMMA OffersGrow ==
  ASSUME [Next]_vars
  PROVE  offered' = offered \/ (SndEof /\ offered' = offered \cup {sndHashed})
<1>1. CASE SenderAct
  BY <1>1, SndLeaves DEF SenderAct, SndStep, SndRecvAck, SndRecvAckEdited, SndTakeAck,
     SndChunk, SndEof, SndRecvOk, SndExit
<1>2. CASE ~SenderAct
  BY <1>2, NextCases DEF Connect, SndOpen, EditInput, sndVars, vars
<1> QED
  BY <1>1, <1>2

\* Who starts, goes on with or ends a check of the digest.
LEMMA ChecksOnlyEofs ==
  ASSUME BaseInv, [Next]_vars, rcvPc' \in {"verify", "promote"}
  PROVE  \/ rcvPc \in {"verify", "promote"} /\ digest' = digest
         \/ rcvPc = "stream" /\ EofUnderWay(digest') /\ UNCHANGED sndVars
<1>1. CASE (RcvStep \/ RcvFault \/ RcvUser) /\ UNCHANGED sndVars
  BY <1>1, CheckedDigest DEF BaseInv, RcvInv
<1>2. CASE UNCHANGED rcvVars
  BY <1>2 DEF rcvVars, local
<1>3. CASE RcvAccept
  BY <1>3 DEF RcvAccept
<1> QED
  BY <1>1, <1>2, <1>3, NextCases DEF Connect, vars

\* OfferInv holds initially.
LEMMA InitOffer == Init => OfferInv
<1> SUFFICES ASSUME Init PROVE OfferInv
  OBVIOUS
<1>1. toReceiver = <<>> /\ offered = {} /\ rcvPc = "off"
  BY DEF Init, WireInit, SndInit, RcvInit
<1> QED
  BY <1>1, InitBase
  DEF OfferInv, EofsWereOffered, EofUnderWay, CheckWasOffered, OffersAreFiles

\* OfferInv is inductive.
LEMMA NextOffer == OfferInv /\ [Next]_vars => OfferInv'
<1> SUFFICES ASSUME OfferInv, [Next]_vars PROVE OfferInv'
  OBVIOUS
<1>1. BaseInv /\ BaseInv'
  BY NextBase DEF OfferInv
<1>2. EofsWereOffered'
  <2> SUFFICES ASSUME NEW d, EofUnderWay(d)' PROVE d \in offered'
    BY DEF EofsWereOffered
  <2>1. EofUnderWay(d) \/ (SndEof /\ d = sndHashed)
    BY <1>1, EofsComeFromSender
  <2>2. SndEof => offered' = offered \cup {sndHashed}
    BY DEF SndEof
  <2> QED
    BY <2>1, <2>2, OffersGrow DEF OfferInv, EofsWereOffered
<1>3. CheckWasOffered'
  <2> SUFFICES ASSUME rcvPc' \in {"verify", "promote"} PROVE digest' \in offered'
    BY DEF CheckWasOffered
  <2> QED
    BY <1>1, ChecksOnlyEofs, OffersGrow
    DEF OfferInv, CheckWasOffered, EofsWereOffered
<1>4. OffersAreFiles'
  BY <1>1, EofIsFile, OffersGrow DEF OfferInv, OffersAreFiles
<1> QED
  BY <1>1, <1>2, <1>3, <1>4 DEF OfferInv

-----------------------------------------------------------------------------
(* The destination.                                                        *)

\* The only steps that touch the destination.
LEMMA DestSteps ==
  ASSUME [Next]_vars
  PROVE  \/ (RcvPromote \/ PowerLoss \/ TakeOutput) /\ UNCHANGED sndVars
         \/ UNCHANGED <<dest, delivered>>
<1>1. CASE (RcvStep \/ RcvFault \/ RcvUser) /\ UNCHANGED sndVars
  BY <1>1, DestUntouched
<1>2. CASE UNCHANGED rcvVars \/ RcvAccept
  BY <1>2 DEF RcvAccept, rcvVars, disk
<1> QED
  BY <1>1, <1>2, NextCases DEF Connect, vars

\* What is renamed is what was hashed, and its digest the one that was sent.
LEMMA PromotedContent ==
  ASSUME BaseInv, RcvPromote
  PROVE  /\ Exists(dest') /\ dest'.data = digest
         /\ delivered' = delivered \cup {digest}
         /\ Overwrite \/ ~Exists(dest)
         /\ rcvPc = "promote" /\ rcvPc' = "promoted"
<1>1. RcvInv /\ rcvPc = "promote" /\ dest' = partial[Session]
        /\ delivered' = delivered \cup {partial[Session].data} /\ rcvPc' = "promoted"
  BY DEF BaseInv, RcvPromote
<1>2. partial[Session].data = rcvHashed /\ Exists(partial[Session])
  BY <1>1, ServedSession DEF Transferring
<1>3. rcvHashed = digest /\ (Overwrite \/ ~Exists(dest))
  BY <1>1 DEF RcvInv, PromotionIsChecked, MayInstall
<1> QED
  BY <1>1, <1>2, <1>3

\* No step puts anything but an offered content at the destination.
LEMMA NextDestination ==
  ASSUME ~(FsyncMayFail /\ PowerMayFail), OfferInv, DestinationWasOffered, [Next]_vars
  PROVE  DestinationWasOffered'
<1>1. CASE RcvPromote /\ UNCHANGED sndVars
  BY <1>1, PromotedContent
  DEF OfferInv, CheckWasOffered, DestinationWasOffered, sndVars
<1>2. CASE PowerLoss /\ UNCHANGED sndVars
  <2>1. dest' = dest
    BY <1>2, LosePowerFiles DEF PowerLoss, OfferInv, BaseInv
  <2> QED
    BY <1>2, <2>1 DEF DestinationWasOffered, sndVars
<1>3. CASE TakeOutput
  BY <1>3 DEF TakeOutput, DestinationWasOffered, Exists
<1>4. CASE UNCHANGED dest
  BY <1>4, OffersGrow DEF DestinationWasOffered
<1> QED
  BY <1>1, <1>2, <1>3, <1>4, DestSteps

(***************************************************************************)
(* Only whole files that some run of sender.py has hashed and committed to *)
(* ever appear at the destination: for any number of sessions, resumptions,*)
(* kills, edits of the input and power failures, provided fsync tells the  *)
(* truth or the power stays on (receiver.py:170-195).                      *)
(***************************************************************************)
THEOREM DestinationIsOffered ==
  ASSUME ~(FsyncMayFail /\ PowerMayFail)
  PROVE  Spec => []DestinationWasOffered
<1>1. Init => OfferInv /\ DestinationWasOffered
  BY InitOffer DEF Init, RcvInit, DiskInit, DestinationWasOffered, Exists
<1>2. OfferInv /\ DestinationWasOffered /\ [Next]_vars
        => OfferInv' /\ DestinationWasOffered'
  BY NextOffer, NextDestination
<1> QED
  BY <1>1, <1>2, PTL DEF Spec

(***************************************************************************)
(* Without --overwrite no step of the whole system replaces a destination  *)
(* that exists (receiver.py:127, 187).                                     *)
(***************************************************************************)
THEOREM NeverReplacedHolds ==
  ASSUME ~(FsyncMayFail /\ PowerMayFail)
  PROVE  Spec => NeverReplaced
<1>1. ASSUME BaseInv, [Next]_vars
      PROVE  [~Overwrite /\ Exists(dest) => dest' \in {dest, Absent}]_rcvVars
  <2> SUFFICES ASSUME ~Overwrite, Exists(dest) PROVE dest' \in {dest, Absent}
    OBVIOUS
  <2>1. CASE RcvStep \/ RcvFault \/ RcvUser
    BY <1>1, <2>1, RcvNeverReplaces DEF BaseInv
  <2>2. CASE UNCHANGED rcvVars \/ RcvAccept
    BY <2>2 DEF RcvAccept, rcvVars, disk
  <2> QED
    BY <1>1, <2>1, <2>2, NextCases DEF Connect, vars
<1> QED
  BY <1>1, InitBase, NextBase, PTL DEF Spec, NeverReplaced

-----------------------------------------------------------------------------
(* What success means.  While a run of the sender is going on, everything  *)
(* the receiver does with an EOF, and every SERVER_OK, answers this run.   *)

EofIsOurs == \A d : EofUnderWay(d) => sndPc = "awaitFinal" /\ d = sndHashed

CheckIsOurs ==
  rcvPc \in {"verify", "promote"} => sndPc = "awaitFinal" /\ digest = sndHashed

OkIsOurs ==
  rcvPc \in {"promoted", "reply"} \/ OkUnderWay
    => sndPc = "awaitFinal" /\ sndHashed \in delivered

VerdictInv ==
  /\ sndPc \in SndActive => EofIsOurs /\ CheckIsOurs /\ OkIsOurs
  /\ SuccessMeansDelivered

\* Reading or losing replies puts no SERVER_OK on its way.
LEMMA FewerReplies ==
  ASSUME WireTypeOK,
         \/ toSender' = toSender \/ toSender' = <<>>
         \/ toSender # <<>> /\ toSender' = Tail(toSender),
         OkUnderWay'
  PROVE  OkUnderWay
<1>1. toSender \in Seq(ReceiverFrame)
  BY DEF WireTypeOK
<1>2. PICK i \in DOMAIN toSender' : toSender'[i].type = "SERVER_OK"
  BY DEF OkUnderWay
<1>3. CASE toSender' = toSender \/ toSender' = <<>>
  BY <1>2, <1>3 DEF OkUnderWay
<1>4. CASE toSender # <<>> /\ toSender' = Tail(toSender)
  <2>1. i \in 1..Len(toSender) - 1 /\ toSender'[i] = toSender[i + 1]
    BY <1>1, <1>2, <1>4
  <2>2. i + 1 \in DOMAIN toSender
    BY <1>1, <2>1
  <2> QED
    BY <1>2, <2>1, <2>2 DEF OkUnderWay
<1> QED
  BY <1>3, <1>4

\* The sender believes in success only if it reads a SERVER_OK.
LEMMA ConfirmedIsOk == WireTypeOK /\ Confirmed => OkUnderWay
<1> SUFFICES ASSUME WireTypeOK, Confirmed PROVE OkUnderWay
  OBVIOUS
<1>1. toSender \in Seq(ReceiverFrame) /\ toSender # <<>> /\ Head(toSender).type = "SERVER_OK"
  BY DEF WireTypeOK, Confirmed, Arrived
<1>2. 1 \in DOMAIN toSender /\ Head(toSender) = toSender[1]
  BY <1>1
<1> QED
  BY <1>1, <1>2 DEF OkUnderWay

\* VerdictInv holds initially.
LEMMA InitVerdict == Init => VerdictInv
BY DEF Init, SndInit, VerdictInv, SndActive, SuccessMeansDelivered

\* A new connection carries nothing, and its receiver has checked nothing.
LEMMA ConnectVerdict ==
  ASSUME NEW s \in Sessions, NEW k \in ChunkSizes, Connect(s, k)
  PROVE  VerdictInv'
<1>1. PICK f : toReceiver' = <<f>> /\ f.type = "OPEN"
  BY DEF Connect, SndOpen
<1>2. toSender' = <<>> /\ sndPc' = "awaitAck" /\ rcvPc' = "accepted"
  BY DEF Connect, SndOpen, RcvAccept
<1>3. EofIsOurs'
  BY <1>1 DEF EofIsOurs, EofUnderWay
<1>4. CheckIsOurs' /\ OkIsOurs'
  BY <1>2 DEF CheckIsOurs, OkIsOurs, OkUnderWay
<1> QED
  BY <1>2, <1>3, <1>4 DEF VerdictInv, SuccessMeansDelivered

\* The sender's steps preserve VerdictInv.
LEMMA SenderVerdict ==
  ASSUME BaseInv, VerdictInv, SenderAct, UNCHANGED rcvVars
  PROVE  VerdictInv'
<1>0. WireTypeOK /\ UNCHANGED <<rcvPc, digest, delivered>>
  BY DEF BaseInv, RcvInv, rcvVars, local, disk
<1>1. CASE SndRecvAck \/ SndRecvAckEdited \/ SndChunk
  <2>1. sndPc \in {"awaitAck", "send"} /\ sndPc' = "send"
    BY <1>1 DEF SndRecvAck, SndRecvAckEdited, SndTakeAck, SndChunk
  <2>2. \A d : ~EofUnderWay(d)
    BY <2>1 DEF VerdictInv, SndActive, EofIsOurs
  <2>3. \A d : ~EofUnderWay(d)'
    BY <1>1, <2>1, <2>2, SndSends DEF SndEof, SndRecvAck, SndRecvAckEdited, SndTakeAck,
       SndChunk
  <2>4. rcvPc \notin {"verify", "promote", "promoted", "reply"} /\ ~OkUnderWay
    BY <2>1 DEF VerdictInv, SndActive, CheckIsOurs, OkIsOurs
  <2>5. ~OkUnderWay'
    BY <1>0, <1>1, <2>4, FewerReplies DEF SndRecvAck, SndRecvAckEdited, SndTakeAck, SndChunk
  <2> QED
    BY <1>0, <2>1, <2>3, <2>4, <2>5
    DEF VerdictInv, SndActive, EofIsOurs, CheckIsOurs, OkIsOurs, SuccessMeansDelivered
<1>2. CASE SndEof
  <2>1. sndPc = "send" /\ sndPc' = "awaitFinal" /\ sndHashed' = sndHashed /\ toSender' = toSender
    BY <1>2 DEF SndEof
  <2>2. \A d : EofUnderWay(d)' => d = sndHashed
    BY <2>1, SndSends DEF VerdictInv, SndActive, EofIsOurs
  <2>3. rcvPc \notin {"verify", "promote", "promoted", "reply"} /\ ~OkUnderWay
    BY <2>1 DEF VerdictInv, SndActive, CheckIsOurs, OkIsOurs
  <2>4. ~OkUnderWay'
    BY <2>1, <2>3 DEF OkUnderWay
  <2> QED
    BY <1>0, <2>1, <2>2, <2>3, <2>4
    DEF VerdictInv, EofIsOurs, CheckIsOurs, OkIsOurs, SuccessMeansDelivered
<1>3. CASE SndRecvOk
  <2>1. sndPc = "awaitFinal" /\ sndPc' = "ok" /\ sndHashed' = sndHashed /\ OkUnderWay
    BY <1>0, <1>3, ConfirmedIsOk DEF SndRecvOk
  <2> QED
    BY <1>0, <2>1 DEF VerdictInv, SndActive, OkIsOurs, SuccessMeansDelivered
<1>4. CASE SndExit
  BY <1>4 DEF SndExit, VerdictInv, SndActive, SuccessMeansDelivered
<1> QED
  BY <1>1, <1>2, <1>3, <1>4, SndLeaves DEF SenderAct, SndStep

\* The receiver's steps, faults and user preserve VerdictInv.
LEMMA ReceiverVerdict ==
  ASSUME BaseInv, VerdictInv, RcvStep \/ RcvFault \/ RcvUser, UNCHANGED sndVars
  PROVE  VerdictInv'
<1>0. WireTypeOK /\ RcvInv /\ UNCHANGED <<sndPc, sndHashed>>
  BY DEF BaseInv, RcvInv, sndVars
<1>1. delivered \subseteq delivered'
  <2>1. CASE PowerLoss \/ TakeOutput
    BY <2>1 DEF PowerLoss, LosePower, TakeOutput
  <2>2. CASE RcvPromote
    BY <2>2 DEF RcvPromote
  <2> QED
    BY <2>1, <2>2, DestUntouched
<1>2. SuccessMeansDelivered'
  BY <1>0, <1>1 DEF VerdictInv, SuccessMeansDelivered
<1>3. ASSUME sndPc \in SndActive PROVE EofIsOurs' /\ CheckIsOurs' /\ OkIsOurs'
  <2>0. EofIsOurs /\ CheckIsOurs /\ OkIsOurs
    BY <1>3 DEF VerdictInv
  <2>1. EofIsOurs'
    BY <1>0, <2>0, RcvReads, FewerFrames DEF EofIsOurs
  <2>2. CheckIsOurs'
    BY <1>0, <2>0, CheckedDigest DEF CheckIsOurs, EofIsOurs
  <2>3. OkIsOurs'
    <3>1. CASE RcvPromote
      <4>1. digest = sndHashed /\ sndPc = "awaitFinal" /\ digest \in delivered'
        BY <2>0, <3>1, PromotedContent DEF CheckIsOurs
      <4> QED
        BY <1>0, <4>1 DEF OkIsOurs
    <3>2. CASE rcvPc' \in {"promoted", "reply"} /\ ~RcvPromote
      <4>1. rcvPc \in {"promoted", "reply"}
        BY <3>2
        DEF RcvStep, RcvOpenResume, RcvOpenNew, RcvOpenRefused, RcvWriteMeta, RcvAck, RcvChunk,
            RcvStreamRefused, RcvEof, RcvVerifyOk, RcvVerifyMismatch, RcvVerifyBlocked,
            RcvReject, RcvDiscard, RcvDiscardMeta, RcvUnlinkMeta, RcvReply, RcvFail, RcvFault,
            RcvIoError, RcvDiscardFails, RcvKill, RcvPartWrite, PowerLoss, RcvUser,
            ManualCleanup, Raise, Exit
      <4> QED
        BY <1>0, <1>1, <2>0, <4>1 DEF OkIsOurs
    <3>3. CASE OkUnderWay'
      BY <1>0, <1>1, <2>0, <3>3, OkComesLast DEF OkIsOurs
    <3> QED
      BY <3>1, <3>2, <3>3 DEF OkIsOurs
  <2> QED
    BY <2>1, <2>2, <2>3
<1> QED
  BY <1>0, <1>2, <1>3 DEF VerdictInv

\* VerdictInv is inductive (with BaseInv).
LEMMA NextVerdict == BaseInv /\ VerdictInv /\ [Next]_vars => VerdictInv'
<1> SUFFICES ASSUME BaseInv, VerdictInv, [Next]_vars PROVE VerdictInv'
  OBVIOUS
<1>1. CASE \E s \in Sessions, k \in ChunkSizes : Connect(s, k)
  BY <1>1, ConnectVerdict
<1>2. CASE SenderAct /\ UNCHANGED rcvVars
  BY <1>2, SenderVerdict
<1>3. CASE (RcvStep \/ RcvFault \/ RcvUser) /\ UNCHANGED sndVars
  BY <1>3, ReceiverVerdict
<1>4. CASE \/ EditInput /\ UNCHANGED rcvVars
           \/ LoseConnection /\ UNCHANGED <<sndVars, rcvVars>>
           \/ UNCHANGED vars
  <2>1. UNCHANGED <<sndPc, sndHashed, rcvPc, digest, delivered>>
    BY <1>4 DEF EditInput, vars, sndVars, rcvVars, local, disk
  <2>2. WireTypeOK
    BY DEF BaseInv, RcvInv
  <2>3. \A d : EofUnderWay(d)' => EofUnderWay(d)
    BY <1>4, <2>2, FewerFrames DEF EditInput, LoseConnection, vars, wire
  <2>4. OkUnderWay' => OkUnderWay
    BY <1>4, <2>2, FewerReplies DEF EditInput, LoseConnection, vars, wire
  <2> QED
    BY <2>1, <2>3, <2>4
    DEF VerdictInv, EofIsOurs, CheckIsOurs, OkIsOurs, SuccessMeansDelivered
<1> QED
  BY <1>1, <1>2, <1>3, <1>4, NextCases

(***************************************************************************)
(* When sender.py exits with code 0, exactly the bytes that run has read   *)
(* have been renamed to the destination (sender.py:157-161), whatever else *)
(* failed, was killed, or was delivered by other sessions.                 *)
(***************************************************************************)
THEOREM SuccessIsDelivery == Spec => []SuccessMeansDelivered
<1>1. VerdictInv => SuccessMeansDelivered
  BY DEF VerdictInv
<1> QED
  BY <1>1, InitBase, NextBase, InitVerdict, NextVerdict, PTL DEF Spec

-----------------------------------------------------------------------------
(* The refinement.                                                         *)

DeliveredWasOffered == delivered \subseteq offered

RefineInv == OfferInv /\ VerdictInv /\ DeliveredWasOffered

\* Only offered contents are ever delivered.
LEMMA NextDelivered ==
  OfferInv /\ DeliveredWasOffered /\ [Next]_vars => DeliveredWasOffered'
<1> SUFFICES ASSUME OfferInv, DeliveredWasOffered, [Next]_vars PROVE DeliveredWasOffered'
  OBVIOUS
<1>1. CASE RcvPromote /\ UNCHANGED sndVars
  BY <1>1, PromotedContent DEF OfferInv, CheckWasOffered, DeliveredWasOffered, sndVars
<1>2. CASE delivered' = delivered
  BY <1>2, OffersGrow DEF DeliveredWasOffered
<1> QED
  BY <1>1, <1>2, DestSteps DEF PowerLoss, LosePower, TakeOutput

\* Initial states map to initial states of AtomicDelivery.
LEMMA InitRefines == Init => Delivery!Init
BY DEF Init, SndInit, RcvInit, DiskInit, Exists, Delivery!Init

\* Rerunning the programs is a rerun of AtomicDelivery.
LEMMA ConnectRefines ==
  ASSUME NEW s \in Sessions, NEW k \in ChunkSizes, Connect(s, k)
  PROVE  Delivery!Rerun
BY DEF Connect, SndOpen, RcvAccept, disk, Delivery!Rerun

\* The sender's steps offer, report or do nothing that AtomicDelivery sees.
LEMMA SenderRefines ==
  ASSUME RefineInv, SenderAct, UNCHANGED rcvVars
  PROVE  [Delivery!Next]_Delivery!vars
<1>0. BaseInv /\ WireTypeOK /\ UNCHANGED <<dest, delivered>>
  BY DEF RefineInv, OfferInv, BaseInv, RcvInv, rcvVars, disk
<1>1. CASE SndRecvAck \/ SndRecvAckEdited \/ SndChunk
  <2>1. sndPc # "ok" /\ sndPc' # "ok" /\ offered' = offered
    BY <1>1 DEF SndRecvAck, SndRecvAckEdited, SndTakeAck, SndChunk
  <2> QED
    BY <1>0, <2>1 DEF Delivery!vars
<1>2. CASE SndEof
  <2>1. sndPc # "ok" /\ sndPc' # "ok" /\ offered' = offered \cup {sndHashed}
    BY <1>2 DEF SndEof
  <2>2. sndHashed \in FileContents
    BY <1>0, <1>2, EofIsFile
  <2>3. Delivery!Offer(sndHashed)
    BY <1>0, <2>1 DEF Delivery!Offer
  <2> QED
    BY <2>2, <2>3 DEF Delivery!Next
<1>3. CASE SndRecvOk
  <2>1. sndPc = "awaitFinal" /\ sndPc' = "ok" /\ sndHashed' = sndHashed /\ OkUnderWay
          /\ offered' = offered
    BY <1>0, <1>3, ConfirmedIsOk DEF SndRecvOk
  <2>2. sndHashed \in delivered
    BY <2>1 DEF RefineInv, VerdictInv, SndActive, OkIsOurs
  <2>3. sndHashed \in FileContents
    BY <2>2 DEF RefineInv, DeliveredWasOffered, OfferInv, OffersAreFiles
  <2>4. Delivery!Report(sndHashed)
    BY <1>0, <2>1, <2>2 DEF Delivery!Report
  <2> QED
    BY <2>3, <2>4 DEF Delivery!Next
<1>4. CASE SndExit /\ sndPc \in SndActive
  <2>1. sndPc # "ok" /\ sndPc' # "ok" /\ offered' = offered
    BY <1>4 DEF SndExit, SndActive
  <2> QED
    BY <1>0, <2>1 DEF Delivery!vars
<1> QED
  BY <1>1, <1>2, <1>3, <1>4, SndLeaves DEF SenderAct, SndStep

\* What happens to the destination is a delivery, a taking away, or nothing.
LEMMA DestinationRefines ==
  ASSUME ~(FsyncMayFail /\ PowerMayFail), RefineInv, UNCHANGED sndVars,
         RcvPromote \/ PowerLoss \/ TakeOutput
  PROVE  [Delivery!Next]_Delivery!vars
<1>0. BaseInv /\ UNCHANGED <<sndPc, sndHashed, offered>>
  BY DEF RefineInv, OfferInv, sndVars
<1>1. CASE RcvPromote
  <2>1. digest \in offered /\ digest \in FileContents
    BY <1>0, <1>1, PromotedContent DEF RefineInv, OfferInv, CheckWasOffered, OffersAreFiles
  <2>2. Delivery!Deliver(digest)
    BY <1>0, <1>1, <2>1, PromotedContent DEF Delivery!Deliver
  <2> QED
    BY <2>1, <2>2 DEF Delivery!Next
<1>2. CASE PowerLoss
  <2>1. dest' = dest /\ delivered' = delivered
    BY <1>0, <1>2, LosePowerFiles DEF PowerLoss, LosePower, BaseInv
  <2> QED
    BY <1>0, <2>1 DEF Delivery!vars
<1>3. CASE TakeOutput
  <2>1. Exists(dest) /\ dest \in File /\ ~Exists(dest') /\ delivered' = delivered
    BY <1>0, <1>3 DEF TakeOutput, BaseInv, RcvInv, RcvTypeOK, DiskTypeOK, Exists
  <2>2. dest.data # Absent
    BY <2>1, FilesAssumption DEF File
  <2>3. Delivery!Take
    BY <1>0, <2>1, <2>2 DEF Delivery!Take
  <2> QED
    BY <2>3 DEF Delivery!Next
<1> QED
  BY <1>1, <1>2, <1>3

\* Every step maps to a step of AtomicDelivery or to a stutter.
LEMMA NextRefines ==
  ASSUME ~(FsyncMayFail /\ PowerMayFail), RefineInv, [Next]_vars
  PROVE  [Delivery!Next]_Delivery!vars
<1>1. CASE \E s \in Sessions, k \in ChunkSizes : Connect(s, k)
  BY <1>1, ConnectRefines DEF Delivery!Next
<1>2. CASE SenderAct /\ UNCHANGED rcvVars
  BY <1>2, SenderRefines
<1>3. CASE (RcvStep \/ RcvFault \/ RcvUser) /\ UNCHANGED sndVars
  <2>1. CASE UNCHANGED <<dest, delivered>>
    BY <1>3, <2>1 DEF sndVars, Delivery!vars
  <2> QED
    BY <1>3, <2>1, DestUntouched, DestinationRefines
<1>4. CASE UNCHANGED <<sndPc, sndHashed, offered, dest, delivered>>
  BY <1>4 DEF Delivery!vars
<1> QED
  BY <1>1, <1>2, <1>3, <1>4, NextCases DEF EditInput, vars, sndVars, rcvVars, disk

(***************************************************************************)
(* The mTLS stream implements AtomicDelivery: it starts as it does, and    *)
(* every step is one of its steps or leaves its variables alone.           *)
(***************************************************************************)
THEOREM StreamImplementsDelivery ==
  ASSUME ~(FsyncMayFail /\ PowerMayFail)
  PROVE  Spec => ImplementsDelivery
<1>1. Init => RefineInv
  BY InitOffer, InitVerdict
  DEF RefineInv, DeliveredWasOffered, Init, RcvInit, DiskInit
<1>2. RefineInv /\ [Next]_vars => RefineInv'
  BY NextOffer, NextVerdict, NextDelivered DEF RefineInv, OfferInv
<1>3. RefineInv /\ [Next]_vars => [Delivery!Next]_Delivery!vars
  BY NextRefines
<1> QED
  BY <1>1, <1>2, <1>3, InitRefines, PTL DEF Spec, ImplementsDelivery, Delivery!Spec

-----------------------------------------------------------------------------
(* The conversation.  The frames a receiver in the middle of a transfer    *)
(* has yet to read continue what it has: no gap, no overlap, nothing past  *)
(* the announced size, and an EOF only at that size.                       *)

EndOf(f) == f.offset + Len(f.data)

\* Where frame i has to begin if the first one begins at from.
EndBefore(frames, i, from) == IF i = 1 THEN from ELSE EndOf(frames[i - 1])

Follow(frames, from, size) ==
  \A i \in 1..Len(frames) :
    /\ frames[i].type \in {"CHUNK", "EOF"}
    /\ frames[i].type = "CHUNK" =>
         /\ frames[i].data # <<>>
         /\ EndOf(frames[i]) <= size
         /\ frames[i].offset = EndBefore(frames, i, from)
    /\ frames[i].type = "EOF" => size = EndBefore(frames, i, from)
    /\ i > 1 => frames[i - 1].type = "CHUNK"

FramesFollow == rcvPc = "stream" => Follow(toReceiver, expectedNext, rcvOpen.size)

\* Until it is answered, OPEN is alone on the connection.
OpeningIsAlone ==
  /\ rcvPc = "accepted" => Len(toReceiver) <= 1
  /\ rcvPc \in {"touched", "ack"} => toReceiver = <<>>

\* A sender waiting for OPEN_ACK, and the receiver that prepares or sent it.
OpeningInStep ==
  sndPc = "awaitAck" /\ link = "up" =>
    \/ rcvPc = "accepted" /\ toReceiver = <<sndOpen>> /\ toSender = <<>>
    \/ rcvPc \in {"touched", "ack"} /\ rcvOpen = sndOpen /\ toSender = <<>>
    \/ rcvPc = "stream" /\ rcvOpen = sndOpen /\ toReceiver = <<>> /\ toSender = Ack

\* A sender that sends goes on where its last frame, or the receiver, ends.
SendingInStep ==
  sndPc = "send" /\ link = "up" =>
    /\ rcvPc = "stream" /\ rcvOpen = sndOpen
    /\ \A i \in 1..Len(toReceiver) : toReceiver[i].type = "CHUNK"
    /\ sndOffset = EndBefore(toReceiver, Len(toReceiver) + 1, expectedNext)

ChunksHaveSize == sndOpen # Absent => sndOpen.chunk \in ChunkSizes

\* The size is right by the time EOF is read: only the digest can be wrong.
EofAtSize == rcvPc = "verify" => expectedNext = rcvOpen.size

ConversationInv ==
  /\ BaseInv
  /\ FramesFollow /\ OpeningIsAlone /\ OpeningInStep /\ SendingInStep
  /\ ChunksHaveSize /\ EofAtSize

\* A frame is of the kind its type says.
LEMMA FrameKinds ==
  ASSUME NEW f \in SenderFrame
  PROVE  /\ f.type = "OPEN" => f \in OpenFrame
         /\ f.type = "CHUNK" =>
              /\ f \in ChunkFrame
              /\ f.offset \in Nat /\ f.data \in Seq(Byte) /\ EndOf(f) \in Nat
         /\ f.type = "EOF" => f \in EofFrame
BY DEF SenderFrame, OpenFrame, ChunkFrame, EofFrame, EndOf

\* When the first chunk has been read the others follow it.
LEMMA FollowingTail ==
  ASSUME NEW frames \in Seq(SenderFrame), frames # <<>>, NEW from, NEW size,
         Head(frames).type = "CHUNK", Follow(frames, from, size)
  PROVE  Follow(Tail(frames), EndOf(Head(frames)), size)
<1> DEFINE t == Tail(frames)
<1>1. Len(t) = Len(frames) - 1 /\ Len(frames) \in Nat \ {0} /\ Head(frames) = frames[1]
  OBVIOUS
<1>2. \A i \in 1..Len(t) : t[i] = frames[i + 1] /\ i + 1 \in 1..Len(frames)
  BY <1>1
<1> SUFFICES ASSUME NEW i \in 1..Len(t)
             PROVE  /\ t[i].type \in {"CHUNK", "EOF"}
                    /\ t[i].type = "CHUNK" =>
                         /\ t[i].data # <<>>
                         /\ EndOf(t[i]) <= size
                         /\ t[i].offset = EndBefore(t, i, EndOf(Head(frames)))
                    /\ t[i].type = "EOF" => size = EndBefore(t, i, EndOf(Head(frames)))
                    /\ i > 1 => t[i - 1].type = "CHUNK"
  BY DEF Follow
<1>3. t[i] = frames[i + 1] /\ i + 1 \in 1..Len(frames) /\ i + 1 > 1
  BY <1>1, <1>2
<1>4. i > 1 => t[i - 1] = frames[i]
  <2> SUFFICES ASSUME i > 1 PROVE t[i - 1] = frames[i]
    OBVIOUS
  <2>1. i - 1 \in 1..Len(t) /\ (i - 1) + 1 = i
    BY <1>1
  <2> QED
    BY <1>2, <2>1
<1>5. EndBefore(t, i, EndOf(Head(frames))) = EndBefore(frames, i + 1, from)
  <2>1. CASE i = 1
    BY <1>1, <2>1 DEF EndBefore
  <2>2. CASE i > 1
    BY <1>1, <1>4, <2>2 DEF EndBefore
  <2> QED
    BY <1>1, <2>1, <2>2
<1>6. /\ frames[i + 1].type \in {"CHUNK", "EOF"}
      /\ frames[i + 1].type = "CHUNK" =>
           /\ frames[i + 1].data # <<>>
           /\ EndOf(frames[i + 1]) <= size
           /\ frames[i + 1].offset = EndBefore(frames, i + 1, from)
      /\ frames[i + 1].type = "EOF" => size = EndBefore(frames, i + 1, from)
      /\ frames[(i + 1) - 1].type = "CHUNK"
  BY <1>3 DEF Follow
<1>7. i > 1 => t[i - 1].type = "CHUNK"
  BY <1>4, <1>6
<1> HIDE DEF t
<1> QED
  BY <1>3, <1>5, <1>6, <1>7

\* A frame that begins where the last chunk ends may be added.
LEMMA FollowingAppend ==
  ASSUME NEW frames \in Seq(SenderFrame), NEW from, NEW size,
         Follow(frames, from, size), \A i \in 1..Len(frames) : frames[i].type = "CHUNK",
         NEW f \in SenderFrame, f.type \in {"CHUNK", "EOF"},
         f.type = "CHUNK" => /\ f.data # <<>> /\ EndOf(f) <= size
                             /\ f.offset = EndBefore(frames, Len(frames) + 1, from),
         f.type = "EOF" => size = EndBefore(frames, Len(frames) + 1, from)
  PROVE  Follow(Append(frames, f), from, size)
<1> DEFINE a == Append(frames, f)
<1>1. /\ Len(a) = Len(frames) + 1 /\ Len(frames) \in Nat /\ a[Len(frames) + 1] = f
      /\ \A i \in 1..Len(frames) : a[i] = frames[i]
  OBVIOUS
<1> HIDE DEF a
<1>2. ASSUME NEW i \in 1..Len(a)
      PROVE  EndBefore(a, i, from) = EndBefore(frames, i, from)
  <2>1. i > 1 => i - 1 \in 1..Len(frames)
    BY <1>1
  <2> QED
    BY <1>1, <2>1 DEF EndBefore
<1>3. ASSUME NEW i \in 1..Len(a), i > 1 PROVE a[i - 1].type = "CHUNK"
  <2>1. i - 1 \in 1..Len(frames)
    BY <1>1, <1>3
  <2> QED
    BY <1>1, <2>1
<1>4. ASSUME NEW i \in 1..Len(a)
      PROVE  /\ a[i].type \in {"CHUNK", "EOF"}
             /\ a[i].type = "CHUNK" =>
                  /\ a[i].data # <<>>
                  /\ EndOf(a[i]) <= size
                  /\ a[i].offset = EndBefore(frames, i, from)
             /\ a[i].type = "EOF" => size = EndBefore(frames, i, from)
  <2>1. CASE i \in 1..Len(frames)
    BY <1>1, <2>1 DEF Follow
  <2>2. CASE i = Len(frames) + 1
    BY <1>1, <2>2
  <2> QED
    BY <1>1, <2>1, <2>2
<1>5. Follow(a, from, size)
  BY <1>2, <1>3, <1>4 DEF Follow
<1> QED
  BY <1>5 DEF a

\* What a receiver in the middle of a transfer reads next, it takes.
LEMMA FollowingAccepted ==
  ConversationInv => HonestStreamAccepted /\ (rcvPc = "stream" /\ Arrived(toReceiver, "EOF")
                                                => expectedNext = rcvOpen.size)
<1> SUFFICES ASSUME ConversationInv, rcvPc = "stream", toReceiver # <<>>
             PROVE  /\ Head(toReceiver).type = "CHUNK" => Acceptable(Head(toReceiver))
                    /\ Head(toReceiver).type = "EOF" => expectedNext = rcvOpen.size
  BY DEF HonestStreamAccepted, Arrived
<1>1. toReceiver \in Seq(SenderFrame)
  BY DEF ConversationInv, BaseInv, RcvInv, WireTypeOK
<1>2. 1 \in 1..Len(toReceiver) /\ Head(toReceiver) = toReceiver[1]
  BY <1>1
<1>3. Follow(toReceiver, expectedNext, rcvOpen.size)
  BY DEF ConversationInv, FramesFollow
<1> QED
  BY <1>2, <1>3 DEF Follow, EndBefore, EndOf, Acceptable

\* Nothing has been said before the first connection.
LEMMA InitConversation == Init => ConversationInv
<1> SUFFICES ASSUME Init PROVE ConversationInv
  OBVIOUS
<1>1. rcvPc = "off" /\ sndPc = "off" /\ sndOpen = Absent
  BY DEF Init, SndInit, RcvInit
<1> QED
  BY <1>1, InitBase
  DEF ConversationInv, FramesFollow, OpeningIsAlone, OpeningInStep, SendingInStep,
      ChunksHaveSize, EofAtSize

\* A conversation begins with OPEN alone.
LEMMA ConnectConversation ==
  ASSUME ConversationInv, BaseInv', NEW s \in Sessions, NEW k \in ChunkSizes, Connect(s, k)
  PROVE  ConversationInv'
<1>1. /\ toReceiver' = <<sndOpen'>> /\ toSender' = <<>>
      /\ sndPc' = "awaitAck" /\ rcvPc' = "accepted" /\ sndOpen'.chunk = k
  BY DEF Connect, SndOpen, RcvAccept
<1>2. Len(toReceiver') = 1
  BY <1>1
<1> QED
  BY <1>1, <1>2
  DEF ConversationInv, FramesFollow, OpeningIsAlone, OpeningInStep, SendingInStep,
      ChunksHaveSize, EofAtSize

\* The receiver's part of the conversation is not disturbed when frames stay
\* or all are lost.
LEMMA ReceiverKeepsPlace ==
  ASSUME ConversationInv, UNCHANGED <<rcvPc, local>>,
         toReceiver' = toReceiver \/ toReceiver' = <<>>
  PROVE  FramesFollow' /\ OpeningIsAlone' /\ EofAtSize'
<1>1. UNCHANGED <<rcvPc, rcvOpen, expectedNext>>
  BY DEF local
<1>2. CASE toReceiver' = toReceiver
  BY <1>1, <1>2
  DEF ConversationInv, FramesFollow, Follow, EndBefore, EndOf, OpeningIsAlone, EofAtSize
<1>3. CASE toReceiver' = <<>>
  <2>1. Len(toReceiver') = 0 /\ 1..0 = {}
    BY <1>3
  <2> QED
    BY <1>1, <1>3, <2>1 DEF ConversationInv, FramesFollow, Follow, OpeningIsAlone, EofAtSize
<1> QED
  BY <1>2, <1>3

\* OPEN_ACK says where the receiver's file ends, and there the chunks begin.
LEMMA RecvAckConversation ==
  ASSUME ConversationInv, BaseInv', SndRecvAck \/ SndRecvAckEdited, UNCHANGED rcvVars
  PROVE  ConversationInv'
<1>1. /\ sndPc = "awaitAck" /\ sndPc' = "send" /\ sndOffset' = Head(toSender).have
      /\ toSender # <<>> /\ UNCHANGED <<sndOpen, toReceiver, link>>
  BY DEF SndRecvAck, SndRecvAckEdited, SndTakeAck
<1>2. UNCHANGED <<rcvPc, local, rcvOpen, expectedNext>>
  BY DEF rcvVars, local
<1>3. SendingInStep'
  <2> SUFFICES ASSUME link = "up" PROVE SendingInStep'
    BY <1>1 DEF SendingInStep
  <2>1. /\ rcvPc = "stream" /\ rcvOpen = sndOpen /\ toReceiver = <<>>
        /\ toSender = <<[type |-> "OPEN_ACK", have |-> expectedNext]>>
    BY <1>1 DEF ConversationInv, OpeningInStep, Ack
  <2>2. sndOffset' = expectedNext
    BY <1>1, <2>1
  <2>3. Len(toReceiver') = 0 /\ 1..0 = {} /\ 0 + 1 = 1
    BY <1>1, <2>1
  <2> QED
    BY <1>1, <1>2, <2>1, <2>2, <2>3 DEF SendingInStep, EndBefore
<1>4. FramesFollow' /\ OpeningIsAlone' /\ EofAtSize'
  BY <1>1, <1>2, ReceiverKeepsPlace
<1>5. OpeningInStep' /\ ChunksHaveSize'
  BY <1>1 DEF OpeningInStep, ConversationInv, ChunksHaveSize
<1> QED
  BY <1>3, <1>4, <1>5 DEF ConversationInv

\* The chunk a sender sends has bytes in it, and ends inside the file.
LEMMA SentChunk ==
  ASSUME ConversationInv, BaseInv', SndChunk,
         NEW f, f = [type |-> "CHUNK", offset |-> sndOffset,
                     data |-> SubSeq(input, sndOffset + 1, sndOffset + ToRead)]
  PROVE  /\ f \in SenderFrame /\ f.type = "CHUNK" /\ f.offset = sndOffset
         /\ f.data \in Seq(Byte) /\ f.data # <<>> /\ Len(f.data) = ToRead
         /\ EndOf(f) = sndOffset' /\ EndOf(f) <= sndOpen.size
         /\ input \in Seq(Byte) /\ sndOffset \in Nat /\ ToRead \in Nat
         /\ EndOf(f) <= Len(input)
         /\ SubSeq(input, 1, sndOffset) \o f.data = SubSeq(input, 1, EndOf(f))
<1>1. /\ input \in Seq(Byte) /\ Len(input) \in Nat /\ sndOffset \in Nat
      /\ sndOpen \in OpenFrame /\ sndOpen # Absent /\ sndOpen.size \in Nat
      /\ sndOffset < sndOpen.size /\ sndOffset + ToRead <= Len(input)
      /\ sndOffset' = sndOffset + ToRead
  BY InputsAssumption
  DEF ConversationInv, BaseInv, SndInv, SndTypeOK, SndChunk, SndActive, OpenFrame
<1>2. sndOpen.chunk \in Nat \ {0}
  BY <1>1, ProtocolAssumption DEF ConversationInv, ChunksHaveSize
<1>3. ToRead \in Nat \ {0} /\ sndOffset + ToRead <= sndOpen.size
  <2>1. /\ sndOffset \in Nat /\ sndOpen.size \in Nat /\ sndOffset < sndOpen.size
        /\ sndOpen.chunk \in Nat \ {0}
    BY <1>1, <1>2
  <2> QED
    BY ONLY <2>1 DEF ToRead
<1>4. /\ f.data \in Seq(Byte) /\ Len(f.data) = ToRead
      /\ SubSeq(input, 1, sndOffset) \o f.data = SubSeq(input, 1, sndOffset + ToRead)
  BY <1>1, <1>3, NextPiece
<1>5. f.data # <<>>
  BY <1>3, <1>4
<1>6. EndOf(f) = sndOffset + ToRead
  BY <1>4 DEF EndOf
<1>7. f \in SenderFrame
  BY <1>1, <1>4 DEF SenderFrame, ChunkFrame
<1> QED
  BY <1>1, <1>3, <1>4, <1>5, <1>6, <1>7

\* A chunk goes behind the last one (sender.py:145-153).
LEMMA ChunkConversation ==
  ASSUME ConversationInv, BaseInv', SndChunk, UNCHANGED rcvVars
  PROVE  ConversationInv'
<1> DEFINE f == [type |-> "CHUNK", offset |-> sndOffset,
                 data |-> SubSeq(input, sndOffset + 1, sndOffset + ToRead)]
<1>1. /\ sndPc = "send" /\ link = "up" /\ toReceiver' = Append(toReceiver, f)
      /\ UNCHANGED <<sndPc, sndOpen, link>>
  BY DEF SndChunk
<1>2. /\ f \in SenderFrame /\ f.type = "CHUNK" /\ f.offset = sndOffset /\ f.data # <<>>
      /\ EndOf(f) = sndOffset' /\ EndOf(f) <= sndOpen.size
  BY SentChunk
<1> HIDE DEF f
<1>3. /\ rcvPc = "stream" /\ rcvOpen = sndOpen
      /\ \A i \in 1..Len(toReceiver) : toReceiver[i].type = "CHUNK"
      /\ sndOffset = EndBefore(toReceiver, Len(toReceiver) + 1, expectedNext)
  BY <1>1 DEF ConversationInv, SendingInStep
<1>4. UNCHANGED <<rcvPc, rcvOpen, expectedNext>>
  BY DEF rcvVars, local
<1>5. toReceiver \in Seq(SenderFrame) /\ Len(toReceiver) \in Nat
  BY DEF ConversationInv, BaseInv, RcvInv, WireTypeOK
<1>6. Follow(toReceiver, expectedNext, rcvOpen.size)
  BY <1>3 DEF ConversationInv, FramesFollow
<1>7. Follow(toReceiver', expectedNext, rcvOpen.size)
  BY <1>1, <1>2, <1>3, <1>5, <1>6, FollowingAppend
<1>8. FramesFollow'
  BY <1>4, <1>7 DEF FramesFollow, Follow, EndBefore, EndOf
<1>9. /\ Len(toReceiver') = Len(toReceiver) + 1
      /\ toReceiver'[Len(toReceiver) + 1] = f
      /\ \A i \in 1..Len(toReceiver) : toReceiver'[i] = toReceiver[i]
  BY <1>1, <1>5
<1>10. \A i \in 1..Len(toReceiver') : toReceiver'[i].type = "CHUNK"
  <2> SUFFICES ASSUME NEW i \in 1..Len(toReceiver') PROVE toReceiver'[i].type = "CHUNK"
    OBVIOUS
  <2>1. CASE i \in 1..Len(toReceiver)
    BY <1>3, <1>9, <2>1
  <2>2. CASE i = Len(toReceiver) + 1
    BY <1>2, <1>9, <2>2
  <2> QED
    BY <1>5, <1>9, <2>1, <2>2
<1>11. EndBefore(toReceiver', Len(toReceiver') + 1, expectedNext') = sndOffset'
  <2>1. (Len(toReceiver') + 1) - 1 = Len(toReceiver) + 1 /\ Len(toReceiver') + 1 # 1
    BY <1>5, <1>9
  <2> QED
    BY <1>2, <1>9, <2>1 DEF EndBefore
<1>12. SendingInStep'
  BY <1>1, <1>3, <1>4, <1>10, <1>11 DEF SendingInStep, EndBefore, EndOf
<1>13. OpeningIsAlone' /\ OpeningInStep' /\ ChunksHaveSize' /\ EofAtSize'
  BY <1>1, <1>3, <1>4
  DEF OpeningIsAlone, OpeningInStep, ConversationInv, ChunksHaveSize, EofAtSize
<1> QED
  BY <1>8, <1>12, <1>13 DEF ConversationInv

\* EOF goes behind the last chunk, at the announced size (sender.py:155).
LEMMA EofConversation ==
  ASSUME ConversationInv, BaseInv', SndEof, UNCHANGED rcvVars
  PROVE  ConversationInv'
<1> DEFINE f == [type |-> "EOF", digest |-> sndHashed]
<1>1. /\ sndPc = "send" /\ sndPc' = "awaitFinal" /\ link = "up" /\ sndOffset >= sndOpen.size
      /\ toReceiver' = Append(toReceiver, f) /\ UNCHANGED <<sndOpen, link>>
  BY DEF SndEof
<1>2. f \in SenderFrame /\ f.type = "EOF"
  BY DEF ConversationInv, BaseInv, SndInv, SndTypeOK, SenderFrame, EofFrame
<1> HIDE DEF f
<1>3. /\ rcvPc = "stream" /\ rcvOpen = sndOpen
      /\ \A i \in 1..Len(toReceiver) : toReceiver[i].type = "CHUNK"
      /\ sndOffset = EndBefore(toReceiver, Len(toReceiver) + 1, expectedNext)
  BY <1>1 DEF ConversationInv, SendingInStep
<1>4. sndOffset = sndOpen.size
  <2>1. sndOpen \in OpenFrame /\ sndOffset \in Nat /\ sndOffset <= sndOpen.size
    BY <1>1 DEF ConversationInv, BaseInv, SndInv, SndTypeOK, SenderKeepsCount, SndActive
  <2>2. sndOpen.size \in Nat
    BY <2>1 DEF OpenFrame
  <2> QED
    BY <1>1, <2>1, <2>2
<1>5. UNCHANGED <<rcvPc, rcvOpen, expectedNext>>
  BY DEF rcvVars, local
<1>6. toReceiver \in Seq(SenderFrame)
  BY DEF ConversationInv, BaseInv, RcvInv, WireTypeOK
<1>7. Follow(toReceiver, expectedNext, rcvOpen.size)
  BY <1>3 DEF ConversationInv, FramesFollow
<1>8. Follow(toReceiver', expectedNext, rcvOpen.size)
  BY <1>1, <1>2, <1>3, <1>4, <1>6, <1>7, FollowingAppend
<1>9. FramesFollow'
  BY <1>5, <1>8 DEF FramesFollow, Follow, EndBefore, EndOf
<1>10. OpeningIsAlone' /\ OpeningInStep' /\ SendingInStep' /\ ChunksHaveSize' /\ EofAtSize'
  BY <1>1, <1>3, <1>5
  DEF OpeningIsAlone, OpeningInStep, SendingInStep, ConversationInv, ChunksHaveSize, EofAtSize
<1> QED
  BY <1>9, <1>10 DEF ConversationInv

\* The sender's steps keep the conversation in step.
LEMMA SenderConversation ==
  ASSUME ConversationInv, BaseInv', SenderAct, UNCHANGED rcvVars
  PROVE  ConversationInv'
<1>1. CASE SndRecvOk \/ SndExit
  <2>1. toReceiver' = toReceiver /\ sndPc' \in {"ok", "off"} /\ sndOpen' \in {sndOpen, Absent}
    BY <1>1 DEF SndRecvOk, SndExit
  <2>2. FramesFollow' /\ OpeningIsAlone' /\ EofAtSize'
    BY <2>1, ReceiverKeepsPlace DEF rcvVars
  <2>3. OpeningInStep' /\ SendingInStep' /\ ChunksHaveSize'
    BY <2>1 DEF OpeningInStep, SendingInStep, ConversationInv, ChunksHaveSize
  <2> QED
    BY <2>2, <2>3 DEF ConversationInv
<1> QED
  BY <1>1, RecvAckConversation, ChunkConversation, EofConversation, SndLeaves DEF SenderAct, SndStep

\* The receiver's steps, by what they mean for the conversation.
LEMMA ReceiverMoves ==
  ASSUME RcvStep \/ RcvFault \/ RcvUser
  PROVE  \/ rcvPc' \in Down /\ link' = "broken" /\ toReceiver' = <<>>
         \/ RcvOpenResume \/ RcvOpenNew \/ RcvWriteMeta \/ RcvAck \/ RcvChunk \/ RcvEof
         \/ /\ rcvPc \in {"verify", "promote", "promoted", "reject", "discard"}
            /\ rcvPc' \notin {"accepted", "touched", "ack", "stream", "verify"}
            /\ UNCHANGED <<toReceiver, link, local>>
         \/ RcvUser /\ UNCHANGED <<local, rcvPc, wire>>
<1>1. CASE RcvStep
  BY <1>1 DEF RcvStep, RcvOpenRefused, RcvStreamRefused, RcvVerifyOk, RcvVerifyMismatch,
     RcvVerifyBlocked, RcvReject, RcvDiscard, RcvDiscardMeta, RcvPromote, RcvUnlinkMeta,
     RcvReply, RcvFail, Raise, Exit, Down, wire
<1>2. CASE RcvFault
  BY <1>2 DEF RcvFault, RcvIoError, RcvDiscardFails, RcvKill, RcvPartWrite, PowerLoss,
     Raise, Exit, Down, wire
<1>3. CASE RcvUser
  BY <1>3 DEF RcvUser, ManualCleanup
<1> QED
  BY <1>1, <1>2, <1>3

\* Reading OPEN empties the channel: nothing was sent behind it.
LEMMA OpenConversation ==
  ASSUME ConversationInv, BaseInv', RcvOpenResume \/ RcvOpenNew, UNCHANGED sndVars
  PROVE  ConversationInv'
<1>1. /\ rcvPc = "accepted" /\ rcvPc' \in {"touched", "ack"} /\ toReceiver # <<>>
      /\ rcvOpen' = Head(toReceiver) /\ toReceiver' = Tail(toReceiver)
      /\ UNCHANGED <<toSender, link>>
  BY DEF RcvOpenResume, RcvOpenNew, Arrived
<1>2. toReceiver' = <<>>
  <2>1. toReceiver \in Seq(SenderFrame) /\ Len(toReceiver) <= 1
    BY <1>1 DEF ConversationInv, BaseInv, RcvInv, WireTypeOK, OpeningIsAlone
  <2> QED
    BY <1>1, <2>1
<1>3. UNCHANGED <<sndPc, sndOpen>>
  BY DEF sndVars
<1>4. OpeningInStep'
  <2> SUFFICES ASSUME sndPc = "awaitAck", link = "up"
               PROVE  rcvOpen' = sndOpen /\ toSender' = <<>>
    BY <1>1, <1>3 DEF OpeningInStep
  <2>1. toReceiver = <<sndOpen>> /\ toSender = <<>>
    BY <1>1 DEF ConversationInv, OpeningInStep
  <2> QED
    BY <1>1, <2>1
<1>5. SendingInStep'
  BY <1>1, <1>3 DEF ConversationInv, SendingInStep
<1> QED
  BY <1>1, <1>2, <1>3, <1>4, <1>5
  DEF ConversationInv, FramesFollow, OpeningIsAlone, ChunksHaveSize, EofAtSize

\* OPEN_ACK is the first thing the receiver says, and it says where it is.
LEMMA AckConversation ==
  ASSUME ConversationInv, BaseInv', RcvWriteMeta \/ RcvAck, UNCHANGED sndVars
  PROVE  ConversationInv'
<1>1. /\ rcvPc \in {"touched", "ack"} /\ rcvPc' \in {"ack", "stream"}
      /\ UNCHANGED <<toReceiver, link, rcvOpen, expectedNext, sndPc, sndOpen>>
  BY DEF RcvWriteMeta, RcvAck, local, wire, sndVars
<1>2. toReceiver = <<>>
  BY <1>1 DEF ConversationInv, OpeningIsAlone
<1>3. FramesFollow' /\ OpeningIsAlone'
  <2>1. Len(toReceiver') = 0 /\ 1..0 = {}
    BY <1>1, <1>2
  <2> QED
    BY <1>1, <1>2, <2>1 DEF FramesFollow, Follow, OpeningIsAlone
<1>4. OpeningInStep'
  <2> SUFFICES ASSUME sndPc = "awaitAck", link = "up" PROVE OpeningInStep'
    BY <1>1 DEF OpeningInStep
  <2>1. rcvOpen = sndOpen /\ toSender = <<>>
    BY <1>1 DEF ConversationInv, OpeningInStep
  <2>2. CASE RcvWriteMeta
    BY <1>1, <2>1, <2>2 DEF RcvWriteMeta, OpeningInStep, wire
  <2>3. CASE RcvAck
    <3>1. rcvPc' = "stream" /\ toSender' = <<>> \o Ack
      BY <2>1, <2>3 DEF RcvAck, Reply
    <3>2. toSender' = Ack'
      BY <1>1, <3>1 DEF Ack
    <3> QED
      BY <1>1, <1>2, <2>1, <3>1, <3>2 DEF OpeningInStep
  <2> QED
    BY <2>2, <2>3
<1>5. SendingInStep' /\ ChunksHaveSize' /\ EofAtSize'
  BY <1>1 DEF ConversationInv, SendingInStep, ChunksHaveSize, EofAtSize
<1> QED
  BY <1>3, <1>4, <1>5 DEF ConversationInv

\* Storing a chunk moves the receiver to where that chunk ends.
LEMMA StoreConversation ==
  ASSUME ConversationInv, BaseInv', RcvChunk, UNCHANGED sndVars
  PROVE  ConversationInv'
<1> DEFINE f == Head(toReceiver)
<1>1. /\ rcvPc = "stream" /\ toReceiver # <<>> /\ f.type = "CHUNK"
      /\ toReceiver' = Tail(toReceiver)
      /\ UNCHANGED <<rcvPc, rcvOpen, toSender, link, sndPc, sndOpen, sndOffset>>
  BY DEF RcvChunk, Acceptable, sndVars
<1>2. expectedNext' = EndOf(f)
  BY DEF RcvChunk, Acceptable, EndOf
<1>3. toReceiver \in Seq(SenderFrame) /\ Follow(toReceiver, expectedNext, rcvOpen.size)
  BY <1>1 DEF ConversationInv, BaseInv, RcvInv, WireTypeOK, FramesFollow
<1>4. Follow(Tail(toReceiver), EndOf(f), rcvOpen.size)
  BY <1>1, <1>3, FollowingTail
<1>5. FramesFollow'
  BY <1>1, <1>2, <1>4 DEF FramesFollow, Follow, EndBefore, EndOf
<1>6. OpeningIsAlone' /\ OpeningInStep' /\ ChunksHaveSize' /\ EofAtSize'
  BY <1>1
  DEF ConversationInv, OpeningIsAlone, OpeningInStep, ChunksHaveSize, EofAtSize
<1>7. SendingInStep'
  <2> SUFFICES ASSUME sndPc = "send", link = "up" PROVE SendingInStep'
    BY <1>1 DEF SendingInStep
  <2>1. /\ rcvOpen = sndOpen
        /\ \A i \in 1..Len(toReceiver) : toReceiver[i].type = "CHUNK"
        /\ sndOffset = EndBefore(toReceiver, Len(toReceiver) + 1, expectedNext)
    BY DEF ConversationInv, SendingInStep
  <2>2. /\ Len(toReceiver') = Len(toReceiver) - 1 /\ Len(toReceiver) \in Nat \ {0}
        /\ \A i \in 1..Len(toReceiver') : toReceiver'[i] = toReceiver[i + 1]
        /\ f = toReceiver[1]
    BY <1>1, <1>3
  <2>3. \A i \in 1..Len(toReceiver') : toReceiver'[i].type = "CHUNK"
    <3> SUFFICES ASSUME NEW i \in 1..Len(toReceiver') PROVE toReceiver'[i].type = "CHUNK"
      OBVIOUS
    <3>1. i + 1 \in 1..Len(toReceiver) /\ toReceiver'[i] = toReceiver[i + 1]
      BY <2>2
    <3> QED
      BY <2>1, <3>1
  <2>4. sndOffset = EndOf(toReceiver[Len(toReceiver)])
    <3>1. Len(toReceiver) + 1 # 1 /\ (Len(toReceiver) + 1) - 1 = Len(toReceiver)
      BY <2>2
    <3> QED
      BY <2>1, <3>1 DEF EndBefore
  <2>5. sndOffset = EndBefore(toReceiver', Len(toReceiver') + 1, EndOf(f))
    <3>1. CASE Len(toReceiver) = 1
      BY <2>2, <2>4, <3>1 DEF EndBefore
    <3>2. CASE Len(toReceiver) > 1
      <4>1. /\ Len(toReceiver') + 1 # 1
            /\ (Len(toReceiver') + 1) - 1 = Len(toReceiver')
            /\ Len(toReceiver') \in 1..Len(toReceiver')
            /\ Len(toReceiver') + 1 = Len(toReceiver)
        BY <2>2, <3>2
      <4>2. toReceiver'[Len(toReceiver')] = toReceiver[Len(toReceiver)]
        BY <2>2, <4>1
      <4> QED
        BY <2>4, <4>1, <4>2 DEF EndBefore
    <3> QED
      BY <2>2, <3>1, <3>2
  <2> QED
    BY <1>1, <1>2, <2>1, <2>3, <2>5 DEF SendingInStep, EndBefore, EndOf
<1> QED
  BY <1>5, <1>6, <1>7 DEF ConversationInv

\* When EOF is read the announced size has been reached.
LEMMA EndConversation ==
  ASSUME ConversationInv, BaseInv', RcvEof, UNCHANGED sndVars
  PROVE  ConversationInv'
<1>1. /\ rcvPc = "stream" /\ rcvPc' = "verify" /\ Arrived(toReceiver, "EOF")
      /\ UNCHANGED <<rcvOpen, expectedNext, link, sndPc, sndOpen>>
  BY DEF RcvEof, sndVars
<1>2. EofAtSize'
  BY <1>1, FollowingAccepted DEF EofAtSize
<1>3. toReceiver \in Seq(SenderFrame) /\ toReceiver # <<>> /\ Head(toReceiver).type = "EOF"
  BY <1>1 DEF ConversationInv, BaseInv, RcvInv, WireTypeOK, Arrived
<1>4. 1 \in 1..Len(toReceiver) /\ toReceiver[1].type = "EOF"
  BY <1>3
<1>5. ~(sndPc \in {"awaitAck", "send"} /\ link = "up")
  BY <1>1, <1>3, <1>4 DEF ConversationInv, OpeningInStep, SendingInStep
<1> QED
  BY <1>1, <1>2, <1>5
  DEF ConversationInv, FramesFollow, OpeningIsAlone, OpeningInStep, SendingInStep,
      ChunksHaveSize

\* The receiver's steps, faults and user keep the conversation in step.
LEMMA ReceiverConversation ==
  ASSUME ConversationInv, BaseInv', RcvStep \/ RcvFault \/ RcvUser, UNCHANGED sndVars
  PROVE  ConversationInv'
<1>0. UNCHANGED <<sndPc, sndOpen, sndOffset>>
  BY DEF sndVars
<1>1. CASE rcvPc' \in Down /\ link' = "broken"
  BY <1>0, <1>1
  DEF ConversationInv, FramesFollow, OpeningIsAlone, OpeningInStep, SendingInStep,
      ChunksHaveSize, EofAtSize, Down
<1>2. CASE /\ rcvPc \in {"verify", "promote", "promoted", "reject", "discard"}
           /\ rcvPc' \notin {"accepted", "touched", "ack", "stream", "verify"}
           /\ UNCHANGED <<toReceiver, link, local>>
  BY <1>0, <1>2
  DEF ConversationInv, FramesFollow, OpeningIsAlone, OpeningInStep, SendingInStep,
      ChunksHaveSize, EofAtSize
<1>3. CASE UNCHANGED <<local, rcvPc, wire>>
  <2>1. UNCHANGED <<rcvOpen, expectedNext, toReceiver, toSender, link>>
    BY <1>3 DEF local, wire
  <2>2. FramesFollow' /\ OpeningIsAlone' /\ EofAtSize'
    BY <1>3, <2>1, ReceiverKeepsPlace
  <2>3. OpeningInStep' /\ SendingInStep' /\ ChunksHaveSize'
    BY <1>0, <1>3, <2>1
    DEF ConversationInv, OpeningInStep, SendingInStep, ChunksHaveSize, Ack, EndBefore, EndOf
  <2> QED
    BY <2>2, <2>3 DEF ConversationInv
<1> QED
  BY <1>1, <1>2, <1>3, ReceiverMoves, OpenConversation, AckConversation, StoreConversation,
     EndConversation

\* ConversationInv is inductive.
LEMMA NextConversation == ConversationInv /\ [Next]_vars => ConversationInv'
<1> SUFFICES ASSUME ConversationInv, [Next]_vars PROVE ConversationInv'
  OBVIOUS
<1>0. BaseInv'
  BY NextBase DEF ConversationInv
<1>1. CASE \E s \in Sessions, k \in ChunkSizes : Connect(s, k)
  BY <1>0, <1>1, ConnectConversation
<1>2. CASE SenderAct /\ UNCHANGED rcvVars
  BY <1>0, <1>2, SenderConversation
<1>3. CASE (RcvStep \/ RcvFault \/ RcvUser) /\ UNCHANGED sndVars
  BY <1>0, <1>3, ReceiverConversation
<1>4. CASE LoseConnection /\ UNCHANGED <<sndVars, rcvVars>>
  <2>1. /\ UNCHANGED <<sndPc, sndOpen, rcvPc, local>> /\ link' = "broken"
        /\ toReceiver' = toReceiver \/ toReceiver' = <<>>
    BY <1>4 DEF LoseConnection, sndVars, rcvVars
  <2>2. FramesFollow' /\ OpeningIsAlone' /\ EofAtSize'
    BY <2>1, ReceiverKeepsPlace
  <2> QED
    BY <1>0, <2>1, <2>2 DEF ConversationInv, OpeningInStep, SendingInStep, ChunksHaveSize
<1>5. CASE UNCHANGED <<wire, sndPc, sndOpen, sndOffset, rcvVars>>
  <2>1. UNCHANGED <<rcvPc, local, rcvOpen, expectedNext, toReceiver, toSender, link>>
    BY <1>5 DEF wire, rcvVars, local
  <2>2. FramesFollow' /\ OpeningIsAlone' /\ EofAtSize'
    BY <2>1, ReceiverKeepsPlace
  <2>3. OpeningInStep' /\ SendingInStep' /\ ChunksHaveSize'
    BY <1>5, <2>1
    DEF ConversationInv, OpeningInStep, SendingInStep, ChunksHaveSize, Ack, EndBefore, EndOf
  <2> QED
    BY <1>0, <2>2, <2>3 DEF ConversationInv
<1> QED
  BY <1>1, <1>2, <1>3, <1>4, <1>5, NextCases DEF EditInput, vars, sndVars

(***************************************************************************)
(* The receiver refuses no chunk of sender.py's, whatever was interrupted, *)
(* lost, edited or resumed before: it continues the partial file and stays *)
(* inside the announced size (receiver.py:153, protocol.py:219-222).       *)
(***************************************************************************)
THEOREM HonestStream == Spec => []HonestStreamAccepted
<1>1. ConversationInv => HonestStreamAccepted
  BY FollowingAccepted
<1> QED
  BY <1>1, InitConversation, NextConversation, PTL DEF Spec

-----------------------------------------------------------------------------
(* One version of the input, on a disk that keeps what was written.  Then  *)
(* everything on the wire and in the partial files is a piece of that      *)
(* version, at its place.                                                  *)

OneVersion == \A f, g \in Inputs : f = g

Beginning(d) == Len(d) <= Len(input) /\ d = SubSeq(input, 1, Len(d))

PieceOfInput(f) ==
  /\ f.type = "OPEN" => f.size = Len(input)
  /\ f.type = "CHUNK" =>
       /\ EndOf(f) <= Len(input)
       /\ SubSeq(input, 1, f.offset) \o f.data = SubSeq(input, 1, EndOf(f))
  /\ f.type = "EOF" => f.digest = input

PartialsAreBeginnings == \A s \in Sessions : Exists(partial[s]) => Beginning(partial[s].data)

FramesArePieces == \A i \in 1..Len(toReceiver) : PieceOfInput(toReceiver[i])

SenderReadsInput ==
  /\ sndOpen # Absent => sndOpen.size = Len(input)
  /\ sndPc \in {"send", "awaitFinal"} => sndHashed = SubSeq(input, 1, sndOffset)

ReceiverExpectsInput ==
  /\ rcvOpen # Absent => rcvOpen.size = Len(input)
  /\ rcvPc \in {"verify", "promote"} => digest = input

VersionInv ==
  /\ ConversationInv
  /\ PartialsAreBeginnings /\ FramesArePieces /\ SenderReadsInput /\ ReceiverExpectsInput
  /\ NothingRejected

\* All of a sequence.
LEMMA WholePiece == ASSUME NEW s \in Seq(Byte) PROVE SubSeq(s, 1, Len(s)) = s
<1>1. Len(s) \in Nat /\ Len(s) <= Len(s)
  OBVIOUS
<1>2. /\ SubSeq(s, 1, Len(s)) \in Seq(Byte) /\ Len(SubSeq(s, 1, Len(s))) = Len(s)
      /\ \A i \in 1..Len(s) : SubSeq(s, 1, Len(s))[i] = s[i]
  BY <1>1, FirstPiece
<1> QED
  BY <1>2, SeqEqual

\* Nothing is there before the first run.
LEMMA InitVersion == Init => VersionInv
<1> SUFFICES ASSUME Init PROVE VersionInv
  OBVIOUS
<1>1. /\ rcvPc = "off" /\ sndPc = "off" /\ sndOpen = Absent /\ rcvOpen = Absent
      /\ toReceiver = <<>> /\ \A s \in Sessions : ~Exists(partial[s])
  BY DEF Init, WireInit, SndInit, RcvInit, DiskInit, Exists
<1>2. Len(toReceiver) = 0 /\ 1..0 = {}
  BY <1>1
<1> QED
  BY <1>1, <1>2, InitConversation
  DEF VersionInv, PartialsAreBeginnings, FramesArePieces, SenderReadsInput,
      ReceiverExpectsInput, NothingRejected

\* A user with one version of the file does not edit it.
LEMMA InputStays ==
  ASSUME OneVersion, BaseInv, [Next]_vars
  PROVE  input' = input /\ ~EditInput /\ ~SndRecvAckEdited
<1>1. ~EditInput /\ ~SndRecvAckEdited
  BY DEF EditInput, SndRecvAckEdited, OneVersion, BaseInv, SndInv, SndTypeOK
<1>2. CASE SenderAct
  <2>1. SndRecvAck \/ SndChunk \/ SndEof \/ SndRecvOk \/ SndExit
    BY <1>1, <1>2, SndLeaves DEF SenderAct, SndStep
  <2> QED
    BY <1>1, <2>1 DEF SndRecvAck, SndRecvAckEdited, SndTakeAck, SndChunk, SndEof, SndRecvOk,
       SndExit
<1> QED
  BY <1>1, <1>2, NextCases DEF Connect, SndOpen, sndVars, vars

\* Reading or losing frames leaves pieces of the input.
LEMMA FewerPieces ==
  ASSUME WireTypeOK, FramesArePieces, input' = input,
         \/ toReceiver' = toReceiver \/ toReceiver' = <<>>
         \/ toReceiver # <<>> /\ toReceiver' = Tail(toReceiver)
  PROVE  FramesArePieces'
<1> SUFFICES ASSUME NEW i \in 1..Len(toReceiver') PROVE PieceOfInput(toReceiver'[i])
  BY DEF FramesArePieces, PieceOfInput, EndOf
<1>1. toReceiver \in Seq(SenderFrame)
  BY DEF WireTypeOK
<1>2. PICK j \in 1..Len(toReceiver) : toReceiver'[i] = toReceiver[j]
  <2>1. CASE toReceiver' = toReceiver
    BY <2>1
  <2>2. CASE toReceiver' = <<>>
    BY <2>2
  <2>3. CASE toReceiver # <<>> /\ toReceiver' = Tail(toReceiver)
    <3>1. toReceiver'[i] = toReceiver[i + 1] /\ i + 1 \in 1..Len(toReceiver)
      BY <1>1, <2>3
    <3> QED
      BY <3>1
  <2> QED
    BY <2>1, <2>2, <2>3
<1> QED
  BY <1>2 DEF FramesArePieces

\* A frame that is sent is one more piece.
LEMMA OneMorePiece ==
  ASSUME WireTypeOK, FramesArePieces, input' = input,
         NEW f \in SenderFrame, PieceOfInput(f), toReceiver' = Append(toReceiver, f)
  PROVE  FramesArePieces'
<1> SUFFICES ASSUME NEW i \in 1..Len(toReceiver') PROVE PieceOfInput(toReceiver'[i])
  BY DEF FramesArePieces, PieceOfInput, EndOf
<1>1. /\ toReceiver \in Seq(SenderFrame) /\ Len(toReceiver') = Len(toReceiver) + 1
      /\ toReceiver'[Len(toReceiver) + 1] = f
      /\ \A j \in 1..Len(toReceiver) : toReceiver'[j] = toReceiver[j]
  BY DEF WireTypeOK
<1>2. CASE i \in 1..Len(toReceiver)
  BY <1>1, <1>2 DEF FramesArePieces
<1>3. CASE i = Len(toReceiver) + 1
  BY <1>1, <1>3
<1> QED
  BY <1>1, <1>2, <1>3

\* The sender sends pieces of the file it announced.
LEMMA SenderVersion ==
  ASSUME VersionInv, ConversationInv', input' = input, ~SndRecvAckEdited, SenderAct,
         UNCHANGED rcvVars
  PROVE  VersionInv'
<1>0. /\ WireTypeOK /\ ConversationInv /\ BaseInv /\ BaseInv'
      /\ UNCHANGED <<partial, rcvOpen, rcvPc, digest>>
  BY DEF VersionInv, ConversationInv, BaseInv, RcvInv, rcvVars, disk, local
<1>1. PartialsAreBeginnings' /\ ReceiverExpectsInput' /\ NothingRejected'
  BY <1>0
  DEF VersionInv, PartialsAreBeginnings, Beginning, ReceiverExpectsInput, NothingRejected
<1>2. CASE SndRecvAck
  <2>1. /\ sndPc = "awaitAck" /\ sndPc' = "send" /\ sndHashed' = SubSeq(input, 1, sndOffset')
        /\ UNCHANGED <<sndOpen, toReceiver>>
    BY <1>2 DEF SndRecvAck, SndRecvAckEdited, SndTakeAck, HashPrefix
  <2>2. SenderReadsInput'
    BY <2>1 DEF VersionInv, SenderReadsInput
  <2>3. FramesArePieces'
    BY <1>0, <2>1, FewerPieces DEF VersionInv
  <2> QED
    BY <1>1, <2>2, <2>3 DEF VersionInv
<1>3. CASE SndChunk
  <2> DEFINE f == [type |-> "CHUNK", offset |-> sndOffset,
                   data |-> SubSeq(input, sndOffset + 1, sndOffset + ToRead)]
  <2>1. /\ sndPc = "send" /\ toReceiver' = Append(toReceiver, f)
        /\ sndHashed' = sndHashed \o f.data /\ UNCHANGED <<sndPc, sndOpen>>
    BY <1>3 DEF SndChunk
  <2>2. /\ f \in SenderFrame /\ f.type = "CHUNK" /\ f.offset = sndOffset
        /\ EndOf(f) = sndOffset' /\ EndOf(f) <= Len(input)
        /\ SubSeq(input, 1, sndOffset) \o f.data = SubSeq(input, 1, EndOf(f))
    BY <1>0, <1>3, SentChunk
  <2> HIDE DEF f
  <2>3. PieceOfInput(f)
    BY <2>2 DEF PieceOfInput
  <2>4. FramesArePieces'
    BY <1>0, <2>1, <2>2, <2>3, OneMorePiece DEF VersionInv
  <2>5. sndHashed' = SubSeq(input, 1, sndOffset')
    BY <2>1, <2>2 DEF VersionInv, SenderReadsInput
  <2>6. SenderReadsInput'
    BY <2>1, <2>5 DEF VersionInv, SenderReadsInput
  <2> QED
    BY <1>1, <2>4, <2>6 DEF VersionInv
<1>4. CASE SndEof
  <2> DEFINE f == [type |-> "EOF", digest |-> sndHashed]
  <2>1. /\ sndPc = "send" /\ sndPc' = "awaitFinal" /\ toReceiver' = Append(toReceiver, f)
        /\ UNCHANGED <<sndOpen, sndHashed, sndOffset>> /\ sndOffset >= sndOpen.size
    BY <1>4 DEF SndEof
  <2>2. /\ sndOpen \in OpenFrame /\ sndOpen # Absent /\ sndOffset \in Nat
        /\ sndOffset <= sndOpen.size /\ input \in Seq(Byte) /\ sndHashed \in Seq(Byte)
    BY <1>0, <2>1, InputsAssumption
    DEF BaseInv, SndInv, SndTypeOK, SenderKeepsCount, SndActive
  <2>3. sndOffset = Len(input)
    BY <2>1, <2>2 DEF OpenFrame, VersionInv, SenderReadsInput
  <2>4. sndHashed = input
    BY <2>1, <2>2, <2>3, WholePiece DEF VersionInv, SenderReadsInput
  <2>5. f \in SenderFrame /\ PieceOfInput(f)
    BY <2>2, <2>4 DEF SenderFrame, EofFrame, PieceOfInput
  <2> HIDE DEF f
  <2>6. FramesArePieces'
    BY <1>0, <2>1, <2>5, OneMorePiece DEF VersionInv
  <2>7. SenderReadsInput'
    BY <2>1 DEF VersionInv, SenderReadsInput
  <2> QED
    BY <1>1, <2>6, <2>7 DEF VersionInv
<1>5. CASE SndRecvOk \/ SndExit
  <2>1. toReceiver' = toReceiver /\ sndPc' \in {"ok", "off"} /\ sndOpen' \in {sndOpen, Absent}
    BY <1>5 DEF SndRecvOk, SndExit
  <2>2. FramesArePieces'
    BY <1>0, <2>1, FewerPieces DEF VersionInv
  <2>3. SenderReadsInput'
    BY <2>1 DEF VersionInv, SenderReadsInput
  <2> QED
    BY <1>1, <2>2, <2>3 DEF VersionInv
<1> QED
  BY <1>2, <1>3, <1>4, <1>5, SndLeaves DEF SenderAct, SndStep

\* What is kept of the sessions' files, and added at the end of one of them.
LEMMA BeginningsStay ==
  ASSUME RcvInv, PartialsAreBeginnings, input' = input,
         \A s \in Sessions : Exists(partial'[s]) =>
           \/ Exists(partial[s]) /\ partial'[s].data = partial[s].data
           \/ Beginning(partial'[s].data)
  PROVE  PartialsAreBeginnings'
BY DEF PartialsAreBeginnings, Beginning

\* The file of the session being served, and the one version of the input.
LEMMA ServedBeginning ==
  ASSUME VersionInv, rcvPc \in Transferring
  PROVE  /\ Session \in Sessions /\ partial[Session] \in File /\ Exists(partial[Session])
         /\ rcvOpen \in OpenFrame /\ rcvOpen # Absent /\ rcvOpen.size = Len(input)
         /\ input \in Seq(Byte) /\ Len(input) \in Nat
         /\ expectedNext = Len(rcvHashed) /\ rcvHashed \in Seq(Byte) /\ expectedNext \in Nat
         /\ partial[Session].data = rcvHashed
         /\ expectedNext <= Len(input) /\ rcvHashed = SubSeq(input, 1, expectedNext)
<1>0. RcvInv /\ SndInv
  BY DEF VersionInv, ConversationInv, BaseInv
<1>1. /\ Session \in Sessions /\ partial[Session] \in File /\ Exists(partial[Session])
      /\ rcvOpen \in OpenFrame /\ expectedNext = Len(rcvHashed)
      /\ partial[Session].data = rcvHashed
  BY <1>0, ServedSession
<1>2. Beginning(partial[Session].data)
  BY <1>1 DEF VersionInv, PartialsAreBeginnings
<1>3. rcvHashed \in Seq(Byte) /\ expectedNext \in Nat
  BY <1>0 DEF RcvInv, RcvTypeOK
<1>4. rcvOpen # Absent /\ rcvOpen.size = Len(input)
  BY <1>1, ProtocolAssumption DEF VersionInv, ReceiverExpectsInput
<1>5. input \in Seq(Byte) /\ Len(input) \in Nat
  BY <1>0, InputsAssumption DEF SndInv, SndTypeOK
<1> QED
  BY <1>1, <1>2, <1>3, <1>4, <1>5 DEF Beginning

\* The chunk a receiver reads is the next piece of the input.
LEMMA ReadPiece ==
  ASSUME VersionInv, rcvPc = "stream", toReceiver # <<>>, Acceptable(Head(toReceiver))
  PROVE  LET f == Head(toReceiver) IN
         /\ f.offset = expectedNext /\ f.data \in Seq(Byte) /\ Len(f.data) \in Nat
         /\ expectedNext + Len(f.data) <= Len(input)
         /\ SubSeq(input, 1, expectedNext) \o f.data
              = SubSeq(input, 1, expectedNext + Len(f.data))
<1> DEFINE f == Head(toReceiver)
<1>1. toReceiver \in Seq(SenderFrame)
  BY DEF VersionInv, ConversationInv, BaseInv, RcvInv, WireTypeOK
<1>2. f = toReceiver[1] /\ 1 \in 1..Len(toReceiver) /\ f \in SenderFrame
  BY <1>1
<1>3. PieceOfInput(f)
  BY <1>2 DEF VersionInv, FramesArePieces
<1>4. f.type = "CHUNK" /\ f.offset = expectedNext
  BY DEF Acceptable
<1>5. f.data \in Seq(Byte) /\ Len(f.data) \in Nat
  BY <1>2, <1>4, FrameKinds
<1> HIDE DEF f
<1>6. EndOf(f) = expectedNext + Len(f.data)
  BY <1>4 DEF EndOf
<1>7. /\ EndOf(f) <= Len(input)
      /\ SubSeq(input, 1, expectedNext) \o f.data = SubSeq(input, 1, EndOf(f))
  BY <1>3, <1>4 DEF PieceOfInput
<1> QED
  BY <1>4, <1>5, <1>6, <1>7 DEF f

\* A chunk that is stored whole makes the beginning longer.
LEMMA StoreVersion ==
  ASSUME VersionInv, RcvChunk, input' = input
  PROVE  PartialsAreBeginnings'
<1> DEFINE d == Head(toReceiver).data
<1>0. RcvInv /\ PartialsAreBeginnings
  BY DEF VersionInv, ConversationInv, BaseInv
<1>1. /\ rcvPc = "stream" /\ toReceiver # <<>> /\ Acceptable(Head(toReceiver))
      /\ partial' = [partial EXCEPT ![Session] = WriteAt(@, Head(toReceiver).offset, d)]
      /\ UNCHANGED <<meta, dest, delivered>>
  BY DEF RcvChunk
<1>2. /\ Head(toReceiver).offset = expectedNext /\ d \in Seq(Byte) /\ Len(d) \in Nat
      /\ expectedNext + Len(d) <= Len(input)
      /\ SubSeq(input, 1, expectedNext) \o d = SubSeq(input, 1, expectedNext + Len(d))
  BY <1>1, ReadPiece
<1> HIDE DEF d
<1>3. /\ Session \in Sessions /\ rcvOpen.size = Len(input) /\ Len(input) \in Nat
      /\ expectedNext \in Nat /\ input \in Seq(Byte)
      /\ rcvHashed = SubSeq(input, 1, expectedNext)
  BY <1>1, ServedBeginning DEF Transferring
<1>4. Len(d) <= rcvOpen.size - expectedNext
  BY <1>2, <1>3
<1>5. partial'[Session].data = rcvHashed \o d
  BY <1>0, <1>1, <1>2, <1>4, AppendKeepsFiles
<1>6. partial'[Session].data = SubSeq(input, 1, expectedNext + Len(d))
  BY <1>2, <1>3, <1>5
<1>7. Len(partial'[Session].data) = expectedNext + Len(d)
  BY <1>2, <1>3, <1>6, FirstPiece
<1>8. Beginning(partial'[Session].data)
  BY <1>2, <1>6, <1>7 DEF Beginning
<1>9. \A s \in Sessions : s # Session => partial'[s] = partial[s]
  BY <1>0, <1>1 DEF RcvInv, RcvTypeOK, DiskTypeOK
<1> QED
  BY <1>0, <1>8, <1>9, BeginningsStay

\* So does a part of one, when the write stops half way.
LEMMA PartVersion ==
  ASSUME VersionInv, RcvPartWrite, input' = input
  PROVE  PartialsAreBeginnings'
<1> DEFINE d == Head(toReceiver).data
<1>0. RcvInv /\ PartialsAreBeginnings
  BY DEF VersionInv, ConversationInv, BaseInv
<1>1. PICK n \in 1..Len(d) :
        partial' = [partial EXCEPT ![Session] =
                      WriteAt(@, Head(toReceiver).offset, SubSeq(d, 1, n))]
  BY DEF RcvPartWrite
<1>2. rcvPc = "stream" /\ toReceiver # <<>> /\ Acceptable(Head(toReceiver))
  BY DEF RcvPartWrite
<1>3. /\ Head(toReceiver).offset = expectedNext /\ d \in Seq(Byte) /\ Len(d) \in Nat
      /\ expectedNext + Len(d) <= Len(input)
      /\ SubSeq(input, 1, expectedNext) \o d = SubSeq(input, 1, expectedNext + Len(d))
  BY <1>2, ReadPiece
<1> HIDE DEF d
<1> DEFINE p == partial[Session]
           w == WriteAt(p, expectedNext, SubSeq(d, 1, n))
<1>4. /\ Session \in Sessions /\ p \in File /\ input \in Seq(Byte)
      /\ expectedNext \in Nat /\ Len(p.data) = expectedNext /\ Len(p.data) <= Len(input)
      /\ p.data = SubSeq(input, 1, Len(p.data))
  BY <1>2, ServedBeginning DEF Transferring
<1>5. n \in 0..Len(d) /\ expectedNext <= Len(p.data)
  BY <1>3, <1>4
<1> HIDE DEF p
<1>6. Len(w.data) <= Len(input) /\ w.data = SubSeq(input, 1, Len(w.data))
  BY ONLY <1>3, <1>4, <1>5, WritePrefix
<1>7. partial \in [Sessions -> File \cup {Absent}]
  BY <1>0 DEF RcvInv, RcvTypeOK, DiskTypeOK
<1>8. partial' = [partial EXCEPT ![Session] = w]
  BY <1>1, <1>3 DEF p
<1> HIDE DEF w
<1>9. partial'[Session] = w /\ \A s \in Sessions : s # Session => partial'[s] = partial[s]
  BY <1>4, <1>7, <1>8
<1>10. Beginning(partial'[Session].data)
  BY <1>6, <1>9 DEF Beginning
<1> QED
  BY <1>0, <1>9, <1>10, BeginningsStay

\* No other step but a power failure changes what a session's file holds.
LEMMA RestVersion ==
  ASSUME VersionInv, RcvStep \/ RcvFault \/ RcvUser,
         ~RcvChunk, ~RcvPartWrite, ~PowerLoss, input' = input
  PROVE  PartialsAreBeginnings'
<1>0. RcvInv /\ PartialsAreBeginnings /\ partial \in [Sessions -> File \cup {Absent}]
  BY DEF VersionInv, ConversationInv, BaseInv, RcvInv, RcvTypeOK, DiskTypeOK
<1>1. CASE partial' = partial
  BY <1>0, <1>1, BeginningsStay
<1>2. ASSUME NEW s, partial' = [partial EXCEPT ![s] = Absent]
      PROVE  PartialsAreBeginnings'
  BY <1>0, <1>2, BeginningsStay DEF Exists
<1>3. CASE RcvOpenNew
  <2>1. PICK s : partial' = [partial EXCEPT ![s] = EmptyFile]
    BY <1>3 DEF RcvOpenNew
  <2>2. EmptyFile.data = <<>>
    BY EmptyFileFacts
  <2>3. input \in Seq(Byte) /\ Len(input) \in Nat
    BY InputsAssumption DEF VersionInv, ConversationInv, BaseInv, SndInv, SndTypeOK
  <2>4. Beginning(EmptyFile.data)
    BY <2>2, <2>3 DEF Beginning
  <2> QED
    BY <1>0, <2>1, <2>4, BeginningsStay
<1>4. CASE RcvEof
  <2>1. partial' = partial \/ partial' = [partial EXCEPT ![Session] = Synced(@)]
    BY <1>4 DEF RcvEof
  <2>2. /\ Session \in Sessions /\ Synced(partial[Session]).data = partial[Session].data
        /\ Exists(partial[Session])
    BY <1>4, ServedBeginning, SyncedFile DEF RcvEof, Transferring
  <2>3. \A s \in Sessions : Exists(partial'[s]) =>
          Exists(partial[s]) /\ partial'[s].data = partial[s].data
    BY <1>0, <2>1, <2>2
  <2> QED
    BY <1>0, <2>3, BeginningsStay
<1>5. \/ partial' = partial \/ RcvOpenNew \/ RcvEof
      \/ \E s : partial' = [partial EXCEPT ![s] = Absent]
  <2>1. CASE RcvStep
    BY <2>1 DEF RcvStep, RcvOpenResume, RcvOpenRefused, RcvWriteMeta, RcvAck,
       RcvStreamRefused, RcvVerifyOk, RcvVerifyMismatch, RcvVerifyBlocked,
       RcvReject, RcvDiscard, RcvDiscardMeta, RcvPromote, RcvUnlinkMeta, RcvReply,
       RcvFail, disk
  <2>2. CASE RcvFault
    BY <2>2 DEF RcvFault, RcvIoError, RcvDiscardFails, RcvKill, disk
  <2>3. CASE RcvUser
    BY <2>3 DEF RcvUser, ManualCleanup, RemoveOrphan, TakeOutput
  <2> QED
    BY <2>1, <2>2, <2>3
<1> QED
  BY <1>1, <1>2, <1>3, <1>4, <1>5

\* The receiver announces, checks and hashes the one version only.
LEMMA ReceiverExpects ==
  ASSUME VersionInv, RcvStep \/ RcvFault \/ RcvUser, input' = input
  PROVE  ReceiverExpectsInput'
<1>0. WireTypeOK /\ ReceiverExpectsInput /\ FramesArePieces
  BY DEF VersionInv, ConversationInv, BaseInv, RcvInv
<1>1. CASE RcvOpenResume \/ RcvOpenNew \/ RcvEof
  <2>1. /\ toReceiver # <<>> /\ toReceiver \in Seq(SenderFrame)
    BY <1>0, <1>1 DEF WireTypeOK, RcvOpenResume, RcvOpenNew, RcvEof, Arrived
  <2>2. Head(toReceiver) = toReceiver[1] /\ 1 \in 1..Len(toReceiver)
    BY <2>1
  <2>3. PieceOfInput(Head(toReceiver))
    BY <1>0, <2>2 DEF FramesArePieces
  <2>4. CASE RcvOpenResume \/ RcvOpenNew
    <3>1. /\ rcvOpen' = Head(toReceiver) /\ Head(toReceiver).type = "OPEN"
          /\ rcvPc' \notin {"verify", "promote"}
      BY <2>4 DEF RcvOpenResume, RcvOpenNew, Arrived
    <3> QED
      BY <2>3, <3>1 DEF PieceOfInput, ReceiverExpectsInput
  <2>5. CASE RcvEof
    <3>1. /\ digest' = Head(toReceiver).digest /\ Head(toReceiver).type = "EOF"
          /\ rcvOpen' = rcvOpen
      BY <2>5 DEF RcvEof, Arrived
    <3> QED
      BY <1>0, <2>3, <3>1 DEF PieceOfInput, ReceiverExpectsInput
  <2> QED
    BY <1>1, <2>4, <2>5
<1>2. CASE rcvOpen' = Absent /\ rcvPc' \in Down
  BY <1>2 DEF ReceiverExpectsInput, Down
<1>3. CASE /\ rcvOpen' = rcvOpen /\ digest' = digest
           /\ rcvPc' \in {"verify", "promote"} => rcvPc \in {"verify", "promote"}
  BY <1>0, <1>3 DEF ReceiverExpectsInput
<1>4. \/ RcvOpenResume \/ RcvOpenNew \/ RcvEof
      \/ rcvOpen' = Absent /\ rcvPc' \in Down
      \/ /\ rcvOpen' = rcvOpen /\ digest' = digest
         /\ rcvPc' \in {"verify", "promote"} => rcvPc \in {"verify", "promote"}
  <2>1. CASE RcvStep
    BY <2>1 DEF RcvStep, RcvOpenRefused, RcvWriteMeta, RcvAck, RcvChunk,
       RcvStreamRefused, RcvVerifyOk, RcvVerifyMismatch, RcvVerifyBlocked,
       RcvReject, RcvDiscard, RcvDiscardMeta, RcvPromote, RcvUnlinkMeta, RcvReply,
       RcvFail, Raise, Exit, Down, local
  <2>2. CASE RcvFault
    BY <2>2 DEF RcvFault, RcvIoError, RcvDiscardFails, RcvKill, RcvPartWrite, PowerLoss,
       Raise, Exit, Down, local
  <2>3. CASE RcvUser
    BY <2>3 DEF RcvUser, ManualCleanup, local
  <2> QED
    BY <2>1, <2>2, <2>3
<1> QED
  BY <1>1, <1>2, <1>3, <1>4

\* The three checks succeed: what was received is the whole version.
LEMMA VersionVerified ==
  ASSUME VersionInv, rcvPc = "verify"
  PROVE  Verified
<1>1. /\ expectedNext = Len(input) /\ rcvHashed = SubSeq(input, 1, expectedNext)
      /\ partial[Session].data = rcvHashed /\ rcvOpen.size = Len(input)
      /\ expectedNext = Len(rcvHashed) /\ input \in Seq(Byte)
  BY ServedBeginning DEF Transferring, VersionInv, ConversationInv, EofAtSize
<1>2. digest = input
  BY DEF VersionInv, ReceiverExpectsInput
<1>3. rcvHashed = input
  BY <1>1, WholePiece
<1> QED
  BY <1>1, <1>2, <1>3 DEF Verified

\* The receiver's steps keep to the one version, and reject nothing.
LEMMA ReceiverVersion ==
  ASSUME ~PowerMayFail, VersionInv, ConversationInv', input' = input,
         RcvStep \/ RcvFault \/ RcvUser, UNCHANGED sndVars
  PROVE  VersionInv'
<1>1. ~PowerLoss
  BY DEF PowerLoss
<1>2. PartialsAreBeginnings'
  BY <1>1, StoreVersion, PartVersion, RestVersion
<1>3. FramesArePieces'
  BY RcvReads, FewerPieces DEF VersionInv, ConversationInv, BaseInv, RcvInv
<1>4. SenderReadsInput'
  BY DEF VersionInv, SenderReadsInput, sndVars
<1>5. ReceiverExpectsInput'
  BY ReceiverExpects
<1>6. NothingRejected'
  <2>1. CASE rcvPc' = "reject"
    <3>1. RcvVerifyMismatch \/ rcvPc = "reject"
      BY <2>1 DEF RcvStep, RcvOpenResume, RcvOpenNew, RcvOpenRefused, RcvWriteMeta, RcvAck,
         RcvChunk, RcvStreamRefused, RcvEof, RcvVerifyOk, RcvVerifyMismatch,
         RcvVerifyBlocked, RcvReject, RcvDiscard, RcvDiscardMeta, RcvPromote, RcvUnlinkMeta,
         RcvReply, RcvFail, RcvFault, RcvIoError, RcvDiscardFails, RcvKill, RcvPartWrite,
         PowerLoss, RcvUser, ManualCleanup, Raise, Exit
    <3>2. rcvPc # "reject" /\ (rcvPc = "verify" => Verified)
      BY VersionVerified DEF VersionInv, NothingRejected
    <3> QED
      BY <3>1, <3>2 DEF RcvVerifyMismatch
  <2>2. CASE rcvPc' # "reject"
    BY <2>2 DEF NothingRejected
  <2> QED
    BY <2>1, <2>2
<1> QED
  BY <1>2, <1>3, <1>4, <1>5, <1>6 DEF VersionInv

\* VersionInv is inductive.
LEMMA NextVersion ==
  ASSUME OneVersion, ~PowerMayFail, VersionInv, [Next]_vars
  PROVE  VersionInv'
<1>0. ConversationInv' /\ BaseInv /\ WireTypeOK
  BY NextConversation DEF VersionInv, ConversationInv, BaseInv, RcvInv
<1>1. input' = input /\ ~EditInput /\ ~SndRecvAckEdited
  BY <1>0, InputStays
<1>2. CASE \E s \in Sessions, k \in ChunkSizes : Connect(s, k)
  <2>1. PICK f : /\ toReceiver' = <<f>> /\ sndOpen' = f /\ f.type = "OPEN"
                 /\ f.size = Len(input)
    BY <1>2 DEF Connect, SndOpen
  <2>2. /\ sndPc' = "awaitAck" /\ rcvPc' = "accepted"
        /\ UNCHANGED <<partial, rcvOpen, digest>>
    BY <1>2 DEF Connect, SndOpen, RcvAccept, disk, local
  <2>3. FramesArePieces'
    BY <1>1, <2>1 DEF FramesArePieces, PieceOfInput
  <2>4. PartialsAreBeginnings' /\ SenderReadsInput' /\ ReceiverExpectsInput'
          /\ NothingRejected'
    BY <1>1, <2>1, <2>2
    DEF VersionInv, PartialsAreBeginnings, Beginning, SenderReadsInput,
        ReceiverExpectsInput, NothingRejected
  <2> QED
    BY <1>0, <2>3, <2>4 DEF VersionInv
<1>3. CASE SenderAct /\ UNCHANGED rcvVars
  BY <1>0, <1>1, <1>3, SenderVersion
<1>4. CASE (RcvStep \/ RcvFault \/ RcvUser) /\ UNCHANGED sndVars
  BY <1>0, <1>1, <1>4, ReceiverVersion
<1>5. CASE (LoseConnection /\ UNCHANGED <<sndVars, rcvVars>>) \/ UNCHANGED vars
  <2>1. /\ toReceiver' = toReceiver \/ toReceiver' = <<>>
        /\ UNCHANGED <<sndOpen, sndPc, sndHashed, sndOffset, partial, rcvOpen, rcvPc, digest>>
    BY <1>5 DEF LoseConnection, vars, wire, sndVars, rcvVars, disk, local
  <2>2. FramesArePieces'
    BY <1>0, <1>1, <2>1, FewerPieces DEF VersionInv
  <2>3. PartialsAreBeginnings' /\ SenderReadsInput' /\ ReceiverExpectsInput'
          /\ NothingRejected'
    BY <1>1, <2>1
    DEF VersionInv, PartialsAreBeginnings, Beginning, SenderReadsInput,
        ReceiverExpectsInput, NothingRejected
  <2> QED
    BY <1>0, <2>2, <2>3 DEF VersionInv
<1> QED
  BY <1>1, <1>2, <1>3, <1>4, <1>5, NextCases

(***************************************************************************)
(* While the input stays as it is and the receiver's disk keeps what was   *)
(* written, the receiver throws away nothing it has: after any history of  *)
(* kills, lost connections, half-finished writes, failing file operations  *)
(* and resumptions, with any chunk sizes and in any session, what it       *)
(* checks at EOF is the file (receiver.py:109-115, sender.py:140).         *)
(***************************************************************************)
THEOREM NothingIsRejected ==
  ASSUME OneVersion, ~PowerMayFail
  PROVE  Spec => []NothingRejected
<1>1. VersionInv /\ [Next]_vars => VersionInv'
  BY NextVersion
<1>2. VersionInv => NothingRejected
  BY DEF VersionInv
<1> QED
  BY <1>1, <1>2, InitVersion, PTL DEF Spec

(***************************************************************************)
(* As long as the receiver's host stays up, what a session has received is *)
(* kept across kills, half-finished writes, refusals and reruns: it goes   *)
(* only by promotion, after a mismatch or by the user's cleanup between    *)
(* runs (README.md:83).                                                    *)
(***************************************************************************)
THEOREM ProgressIsKeptHolds ==
  ASSUME ~PowerMayFail
  PROVE  Spec => ProgressIsKept
<1>1. ASSUME BaseInv, [Next]_vars
      PROVE  [\A s \in Sessions : Exists(partial[s]) =>
                \/ /\ Exists(partial'[s])
                   /\ Len(partial'[s].data) >= Len(partial[s].data)
                   /\ SubSeq(partial'[s].data, 1, Len(partial[s].data)) = partial[s].data
                \/ partial'[s] = Absent /\ rcvPc \in {"promote", "discard"} \cup Down]_rcvVars
  <2>1. RcvInv /\ (RcvStep \/ RcvFault \/ RcvUser \/ UNCHANGED disk)
    BY <1>1, NextCases DEF BaseInv, Connect, RcvAccept, rcvVars, vars
  <2> QED
    BY <2>1, RcvKeepsProgress DEF Extends
<1> QED
  BY <1>1, InitBase, NextBase, PTL DEF Spec, ProgressIsKept
=============================================================================
