-------------------------- MODULE ReceiverAnyPeer ---------------------------
(***************************************************************************)
(* The receiver of the mTLS stream connected to a peer that may send any   *)
(* well-formed frames in any order: chunks that leave gaps, repeat or run  *)
(* over the announced size, an early EOF, a digest of something else.      *)
(* What the receiver guarantees here it guarantees by its own checks, not  *)
(* because sender.py behaves (README.md:101, DESIGN.md:112-116).           *)
(***************************************************************************)
EXTENDS StreamReceiver

CONSTANT Frames       \* the frames the peer may send

ASSUME FramesAssumption == Frames \subseteq SenderFrame

VARIABLE committed    \* history: every [size, digest] the peer announced

vars == <<wire, rcvVars, committed>>

Init == WireInit /\ RcvInit /\ committed = {}

\* The peer connects to a receiver the user has started.
PeerConnect ==
  /\ RcvAccept
  /\ toReceiver' = <<>>
  /\ toSender' = <<>>
  /\ link' = "up"
  /\ UNCHANGED committed

PeerSend(f) ==
  /\ link = "up" /\ Len(toReceiver) < MaxInFlight
  /\ toReceiver' = Append(toReceiver, f)
  /\ UNCHANGED <<toSender, link, rcvVars, committed>>

\* The receiver's own steps; an EOF it reads completes an announcement.
Receiver ==
  /\ RcvStep
  /\ committed' = IF rcvPc = "stream" /\ rcvPc' = "verify"
                  THEN committed \cup {[size |-> rcvOpen.size, digest |-> digest']}
                  ELSE committed

Fault == RcvFault \/ (LoseConnection /\ UNCHANGED rcvVars)

Next ==
  \/ PeerConnect
  \/ \E f \in Frames : PeerSend(f)
  \/ Receiver
  \/ (RcvUser \/ Fault) /\ UNCHANGED committed

Spec == Init /\ [][Next]_vars

-----------------------------------------------------------------------------
TypeOK ==
  /\ WireTypeOK /\ RcvTypeOK
  /\ committed \subseteq [size : Nat, digest : Seq(Byte)]

(***************************************************************************)
(* The destination only ever shows a file whose size was announced in an   *)
(* OPEN and whose SHA-256 was announced in an EOF of the same connection   *)
(* (receiver.py:176-195).                                                  *)
(***************************************************************************)
DestinationIsVerified ==
  Exists(dest) => [size |-> Len(dest.data), digest |-> dest.data] \in committed
=============================================================================
