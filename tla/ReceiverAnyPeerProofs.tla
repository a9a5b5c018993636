----------------------- MODULE ReceiverAnyPeerProofs ------------------------
(***************************************************************************)
(* What the receiver guarantees whatever its peer sends, proved for every  *)
(* set of sessions, bytes, frames and buffer size.                         *)
(***************************************************************************)
EXTENDS ReceiverAnyPeer, StreamReceiverProofs

\* What is being checked or promoted was announced by this connection's peer.
CheckIsAnnounced ==
  rcvPc \in {"verify", "promote"} =>
    [size |-> rcvOpen.size, digest |-> digest] \in committed

CommittedTypeOK == committed \subseteq [size : Nat, digest : Seq(Byte)]

\* The invariant holds initially.
LEMMA InitInv == Init => RcvInv /\ CommittedTypeOK /\ CheckIsAnnounced
BY RcvInitInv DEF Init, RcvInit, CommittedTypeOK, CheckIsAnnounced

\* Whatever the peer and the network do, the channels hold frames.
LEMMA PeerWire ==
  ASSUME WireTypeOK,
         PeerConnect \/ (\E f \in Frames : PeerSend(f)) \/ LoseConnection
  PROVE  WireTypeOK'
<1>1. CASE PeerConnect
  BY <1>1 DEF PeerConnect, WireTypeOK
<1>2. CASE \E f \in Frames : PeerSend(f)
  BY <1>2, FramesAssumption DEF PeerSend, WireTypeOK
<1>3. CASE LoseConnection
  BY <1>3, LostWire
<1> QED
  BY <1>1, <1>2, <1>3

\* RcvInv is inductive whatever the peer sends.
LEMMA NextRcvInv == RcvInv /\ [Next]_vars => RcvInv'
<1> SUFFICES ASSUME RcvInv, [Next]_vars PROVE RcvInv'
  OBVIOUS
<1>1. CASE PeerConnect \/ (\E f \in Frames : PeerSend(f))
             \/ (LoseConnection /\ UNCHANGED rcvVars)
  <2>1. WireTypeOK'
    BY <1>1, PeerWire DEF RcvInv
  <2> QED
    BY <1>1, <2>1, RcvPeerInv DEF PeerConnect, PeerSend
<1>2. CASE RcvStep \/ RcvFault \/ RcvUser
  BY <1>2, RcvStepInv
<1>3. CASE UNCHANGED vars
  <2>1. WireTypeOK' /\ UNCHANGED rcvVars
    BY <1>3 DEF vars, wire, RcvInv, WireTypeOK
  <2> QED
    BY <2>1, RcvPeerInv
<1> QED
  BY <1>1, <1>2, <1>3 DEF Next, Receiver, Fault

(***************************************************************************)
(* Partial file, running hash and offset describe the same bytes, after    *)
(* any history of connections, kills, interrupted writes, power failures   *)
(* and resumptions, whatever the peer sends.                               *)
(***************************************************************************)
THEOREM StreamSafe == Spec => []StreamIsContiguous
<1>1. Init => RcvInv
  BY InitInv
<1>2. RcvInv => StreamIsContiguous
  BY DEF RcvInv
<1> QED
  BY <1>1, <1>2, NextRcvInv, PTL DEF Spec

(***************************************************************************)
(* Between runs as well, no session's file is longer than its meta file    *)
(* announces, so that a resumption is never refused for that reason        *)
(* (receiver.py:110).                                                      *)
(***************************************************************************)
THEOREM NoSessionOutgrows == Spec => []PartialFitsMeta
<1>1. Init => RcvInv
  BY InitInv
<1>2. RcvInv => PartialFitsMeta
  BY DEF RcvInv
<1> QED
  BY <1>1, <1>2, NextRcvInv, PTL DEF Spec

(***************************************************************************)
(* Without --overwrite the receiver never replaces a destination: between  *)
(* the check and the rename of one run no other run is there to create it. *)
(* A power failure may only damage it if fsync was allowed to fail.        *)
(***************************************************************************)
THEOREM NeverReplacedHolds ==
  ASSUME ~(FsyncMayFail /\ PowerMayFail)
  PROVE  Spec => NeverReplaced
<1>1. ASSUME RcvInv, [Next]_vars
      PROVE  [~Overwrite /\ Exists(dest) => dest' \in {dest, Absent}]_rcvVars
  <2> SUFFICES ASSUME ~Overwrite, Exists(dest) PROVE dest' \in {dest, Absent}
    OBVIOUS
  <2>1. CASE RcvStep \/ RcvFault \/ RcvUser
    BY <1>1, <2>1, RcvNeverReplaces
  <2>2. CASE UNCHANGED rcvVars \/ PeerConnect
    BY <2>2 DEF PeerConnect, RcvAccept, rcvVars, disk
  <2> QED
    BY <1>1, <2>1, <2>2 DEF Next, Receiver, Fault, PeerSend, vars
<1>2. Init => RcvInv
  BY InitInv
<1> QED
  BY <1>1, <1>2, NextRcvInv, PTL DEF Spec, NeverReplaced

(***************************************************************************)
(* No peer can make the receiver lose what a session has: as long as its   *)
(* host stays up, a partial file goes only by promotion, after a mismatch  *)
(* or by the user's cleanup between runs (README.md:83, 101).              *)
(***************************************************************************)
THEOREM ProgressIsKeptHolds ==
  ASSUME ~PowerMayFail
  PROVE  Spec => ProgressIsKept
<1>1. ASSUME RcvInv, [Next]_vars
      PROVE  [\A s \in Sessions : Exists(partial[s]) =>
                \/ /\ Exists(partial'[s])
                   /\ Len(partial'[s].data) >= Len(partial[s].data)
                   /\ SubSeq(partial'[s].data, 1, Len(partial[s].data)) = partial[s].data
                \/ partial'[s] = Absent /\ rcvPc \in {"promote", "discard"} \cup Down]_rcvVars
  <2>1. RcvStep \/ RcvFault \/ RcvUser \/ UNCHANGED disk
    BY <1>1 DEF Next, PeerConnect, RcvAccept, PeerSend, Receiver, Fault, rcvVars, vars
  <2> QED
    BY <1>1, <2>1, RcvKeepsProgress DEF Extends
<1>2. Init => RcvInv
  BY InitInv
<1> QED
  BY <1>1, <1>2, NextRcvInv, PTL DEF Spec, ProgressIsKept

-----------------------------------------------------------------------------
(* The destination.                                                        *)

Announced == [size |-> rcvOpen.size, digest |-> digest]

\* Reading an EOF completes an announcement (receiver.py:164-166).
LEMMA EofAnnounces ==
  ASSUME RcvInv, CommittedTypeOK, RcvEof,
         committed' = committed \cup {[size |-> rcvOpen.size, digest |-> digest']}
  PROVE  CommittedTypeOK' /\ CheckIsAnnounced'
<1>1. rcvOpen' = rcvOpen
  BY DEF RcvEof
<1>2. rcvOpen \in OpenFrame /\ digest' \in Seq(Byte)
  <2>1. rcvOpen \in OpenFrame
    BY ServedSession DEF RcvEof, Transferring
  <2>2. RcvInv'
    BY EofInv
  <2> QED
    BY <2>1, <2>2 DEF RcvInv, RcvTypeOK
<1>3. CommittedTypeOK'
  BY <1>2 DEF CommittedTypeOK, OpenFrame
<1> QED
  BY <1>1, <1>3 DEF CheckIsAnnounced

\* The receiver's steps keep what is checked announced.
LEMMA ReceiverAnnounces ==
  ASSUME RcvInv, CommittedTypeOK, CheckIsAnnounced, Receiver
  PROVE  CommittedTypeOK' /\ CheckIsAnnounced' /\ committed \subseteq committed'
<1>1. CASE RcvEof
  <2>1. committed' = committed \cup {[size |-> rcvOpen.size, digest |-> digest']}
    BY <1>1 DEF Receiver, RcvEof
  <2> QED
    BY <1>1, <2>1, EofAnnounces
<1>2. CASE RcvVerifyOk
  BY <1>2 DEF Receiver, RcvVerifyOk, local, CommittedTypeOK, CheckIsAnnounced
<1>3. CASE ~RcvEof /\ ~RcvVerifyOk
  <2>1. rcvPc' \notin {"verify", "promote"}
    BY <1>3 DEF Receiver, RcvStep, RcvOpenResume, RcvOpenNew, RcvOpenRefused, RcvWriteMeta,
       RcvAck, RcvChunk, RcvStreamRefused, RcvVerifyMismatch, RcvVerifyBlocked, RcvReject,
       RcvDiscard, RcvDiscardMeta, RcvPromote, RcvUnlinkMeta, RcvReply, RcvFail, Raise, Exit
  <2> QED
    BY <2>1 DEF Receiver, CommittedTypeOK, CheckIsAnnounced
<1> QED
  BY <1>1, <1>2, <1>3

\* No other step announces anything or disturbs a check.
LEMMA OthersAnnounceNothing ==
  ASSUME CommittedTypeOK, CheckIsAnnounced, [Next]_vars, ~Receiver
  PROVE  CommittedTypeOK' /\ CheckIsAnnounced' /\ committed' = committed
<1>1. committed' = committed
  BY DEF Next, PeerConnect, PeerSend, vars
<1>2. CASE rcvPc' \notin {"verify", "promote"}
  BY <1>1, <1>2 DEF CommittedTypeOK, CheckIsAnnounced
<1>3. CASE rcvPc' \in {"verify", "promote"}
  <2>1. UNCHANGED <<local, rcvPc>>
    BY <1>3 DEF Next, PeerConnect, PeerSend, RcvAccept, Fault, RcvFault, RcvIoError,
       RcvDiscardFails, RcvKill, RcvPartWrite, PowerLoss, RcvUser, ManualCleanup, Raise,
       Exit, vars, rcvVars
  <2> QED
    BY <1>1, <2>1 DEF CommittedTypeOK, CheckIsAnnounced, local
<1> QED
  BY <1>2, <1>3

\* The step that renames installs what was announced.
LEMMA PromoteInstallsAnnounced ==
  ASSUME RcvInv, CheckIsAnnounced, RcvPromote, committed \subseteq committed'
  PROVE  DestinationIsVerified'
<1>1. rcvPc = "promote" /\ dest' = partial[Session]
  BY DEF RcvPromote
<1>2. dest'.data = rcvHashed /\ expectedNext = Len(rcvHashed)
  BY <1>1, ServedSession DEF Transferring
<1>3. expectedNext = rcvOpen.size /\ rcvHashed = digest
  BY <1>1 DEF RcvInv, PromotionIsChecked
<1>4. [size |-> Len(dest'.data), digest |-> dest'.data] \in committed
  BY <1>1, <1>2, <1>3 DEF CheckIsAnnounced
<1> QED
  BY <1>4 DEF DestinationIsVerified

Inv == RcvInv /\ CommittedTypeOK /\ CheckIsAnnounced

\* The invariant is inductive, and announcements are never forgotten.
LEMMA NextInv == Inv /\ [Next]_vars => Inv' /\ committed \subseteq committed'
<1> SUFFICES ASSUME Inv, [Next]_vars PROVE Inv' /\ committed \subseteq committed'
  OBVIOUS
<1>1. CASE Receiver
  BY <1>1, ReceiverAnnounces, NextRcvInv DEF Inv
<1>2. CASE ~Receiver
  BY <1>2, OthersAnnounceNothing, NextRcvInv DEF Inv
<1> QED
  BY <1>1, <1>2

(***************************************************************************)
(* Every variable keeps its type, whatever the peer sends.                 *)
(***************************************************************************)
THEOREM TypeCorrect == Spec => []TypeOK
<1>1. Init => Inv
  BY InitInv DEF Inv
<1>2. Inv => TypeOK
  BY DEF Inv, RcvInv, TypeOK, CommittedTypeOK
<1> QED
  BY <1>1, <1>2, NextInv, PTL DEF Spec

(***************************************************************************)
(* The destination is a file whose size and SHA-256 one connection         *)
(* announced, whatever was sent in between and however often the host lost *)
(* power, provided fsync tells the truth.                                  *)
(***************************************************************************)
THEOREM DestinationVerified ==
  ASSUME ~(FsyncMayFail /\ PowerMayFail)
  PROVE  Spec => []DestinationIsVerified
<1>1. Init => Inv /\ DestinationIsVerified
  BY InitInv DEF Inv, Init, RcvInit, DiskInit, DestinationIsVerified, Exists
<1>2. Inv /\ DestinationIsVerified /\ [Next]_vars => Inv' /\ DestinationIsVerified'
  <2> SUFFICES ASSUME Inv, DestinationIsVerified, [Next]_vars
               PROVE  DestinationIsVerified'
    BY NextInv
  <2>1. committed \subseteq committed'
    BY NextInv
  <2>2. CASE RcvPromote
    BY <2>1, <2>2, PromoteInstallsAnnounced DEF Inv
  <2>3. CASE PowerLoss
    <3>1. dest' = dest
      BY <2>3, LosePowerFiles DEF PowerLoss, Inv
    <3> QED
      BY <2>1, <3>1 DEF DestinationIsVerified
  <2>4. CASE dest' = Absent
    BY <2>4 DEF DestinationIsVerified, Exists
  <2>5. CASE UNCHANGED dest
    BY <2>1, <2>5 DEF DestinationIsVerified
  <2>6. RcvPromote \/ PowerLoss \/ dest' = Absent \/ UNCHANGED dest
    <3>1. CASE RcvStep \/ RcvFault \/ RcvUser
      BY <3>1, DestUntouched DEF TakeOutput
    <3>2. CASE UNCHANGED rcvVars \/ PeerConnect
      BY <3>2 DEF PeerConnect, RcvAccept, rcvVars, disk
    <3> QED
      BY <3>1, <3>2 DEF Next, Receiver, Fault, PeerSend, vars
  <2> QED
    BY <2>2, <2>3, <2>4, <2>5, <2>6
<1> QED
  BY <1>1, <1>2, PTL DEF Spec
=============================================================================
