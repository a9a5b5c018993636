--------------------------- MODULE StreamProtocol ---------------------------
(***************************************************************************)
(* The connection between the sender and the receiver of the mTLS stream   *)
(* (common/protocol.py over one TCP + TLS connection) and the frames that  *)
(* travel on it.                                                           *)
(*                                                                         *)
(* TLS delivers frames in order and unchanged or breaks the connection, so *)
(* each direction is a FIFO.  A frame that was sent before the connection  *)
(* broke may still be read afterwards (it is in a socket buffer); nothing  *)
(* sent later arrives, and what an end has not read when it closes its     *)
(* socket is gone.  SHA-256 is taken to be injective: a digest is modelled *)
(* by the byte sequence it was computed from.                              *)
(***************************************************************************)
EXTENDS TransferFiles

CONSTANTS
  Sessions,     \* session ids
  ChunkSizes,   \* the values of --chunk-size, in units
  MaxInFlight   \* frames the socket buffers hold before sendall blocks

VARIABLES
  toReceiver,   \* frames from the sender not yet read
  toSender,     \* frames from the receiver not yet read
  link          \* "up", or "broken" once an end closed it or it was lost

wire == <<toReceiver, toSender, link>>

OpenFrame  == [type : {"OPEN"}, session : Sessions, size : Nat, chunk : Nat]
AckFrame   == [type : {"OPEN_ACK"}, have : Nat]
ChunkFrame == [type : {"CHUNK"}, offset : Nat, data : Seq(Byte)]
EofFrame   == [type : {"EOF"}, digest : Seq(Byte)]
ErrorFrame == [type : {"SERVER_ERROR"}]
OkFrame    == [type : {"SERVER_OK"}]

SenderFrame   == OpenFrame \cup ChunkFrame \cup EofFrame
ReceiverFrame == AckFrame \cup ErrorFrame \cup OkFrame

ASSUME ProtocolAssumption ==
  /\ ChunkSizes \subseteq Nat \ {0}
  /\ MaxInFlight \in Nat \ {0}
  /\ Absent \notin OpenFrame

WireTypeOK ==
  /\ toReceiver \in Seq(SenderFrame)
  /\ toSender \in Seq(ReceiverFrame)
  /\ link \in {"up", "broken"}

WireInit ==
  /\ toReceiver = <<>>
  /\ toSender = <<>>
  /\ link = "broken"

\* recv_frame returns a frame of type t from channel c.
Arrived(c, t) == c # <<>> /\ Head(c).type = t

ServerError == [type |-> "SERVER_ERROR"]
\* Mutant of ServerOk: the wrong message type.
ServerOkMistyped == [type |-> "OPEN"]

ServerOk    == [type |-> "SERVER_OK"]

\* The network drops the connection, one end's socket times out, or a reset
\* overtakes the frames still under way.
LoseConnection ==
  /\ link' = "broken"
  /\ toReceiver' \in {toReceiver, <<>>}
  /\ toSender' \in {toSender, <<>>}
=============================================================================
