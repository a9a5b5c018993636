----------------------------- MODULE MtlsStream -----------------------------
(***************************************************************************)
(* Approach A as a whole: the sender and the receiver of the mTLS stream,  *)
(* the connection between them, the user who reruns both programs, edits   *)
(* the input file and takes the output away, and the faults of processes,  *)
(* network and host.                                                       *)
(***************************************************************************)
EXTENDS StreamSender, StreamReceiver

vars == <<wire, sndVars, rcvVars>>

Init == WireInit /\ SndInit /\ RcvInit

\* Connecting takes both ends; a connection carries nothing of earlier ones.
Connect(s, k) == SndOpen(s, k) /\ RcvAccept

Rerun == \E s \in Sessions, k \in ChunkSizes : Connect(s, k)

Programs ==
  \/ SndStep /\ UNCHANGED rcvVars
  \/ RcvStep /\ UNCHANGED sndVars

User ==
  \/ RcvUser /\ UNCHANGED sndVars
  \/ (EditInput \/ SndRecvAckEdited) /\ UNCHANGED rcvVars

Fault ==
  \/ SndKill /\ UNCHANGED rcvVars
  \/ RcvFault /\ UNCHANGED sndVars
  \/ LoseConnection /\ UNCHANGED <<sndVars, rcvVars>>

Next == Rerun \/ Programs \/ User \/ Fault

Spec == Init /\ [][Next]_vars

-----------------------------------------------------------------------------
(* Fairness.  Both programs are ordinary processes that never wait for     *)
(* anything but their peer, so an enabled step of theirs is taken.  That   *)
(* the user reruns the programs, and cleans up when told to, is assumed    *)
(* only where a property names it.                                         *)

ProgramsRun == WF_vars(SndStep /\ UNCHANGED rcvVars)
                 /\ WF_vars(RcvStep /\ UNCHANGED sndVars)

UserReruns == WF_vars(Rerun)

UserCleansUp == \A s \in Sessions : SF_vars(ManualCleanup(s) /\ UNCHANGED sndVars)

FairSpec == Spec /\ ProgramsRun

RetrySpec == FairSpec /\ UserReruns

CaringUserSpec == RetrySpec /\ UserCleansUp

-----------------------------------------------------------------------------
(* Safety.                                                                 *)

TypeOK == WireTypeOK /\ SndTypeOK /\ RcvTypeOK

(***************************************************************************)
(* The destination never shows anything but a whole file, byte for byte    *)
(* what some run of the sender hashed and committed to with an EOF frame:  *)
(* not a prefix, not a mix of two versions of the input, not blocks lost   *)
(* in a power failure (receiver.py:147-195).                               *)
(***************************************************************************)
DestinationWasOffered == Exists(dest) => dest.data \in offered

(***************************************************************************)
(* When sender.py exits with code 0, exactly the bytes this run read have  *)
(* been renamed to the destination (sender.py:157-161, receiver.py:191).   *)
(***************************************************************************)
SuccessMeansDelivered == sndPc = "ok" => sndHashed \in delivered

(***************************************************************************)
(* The receiver never refuses what an honest sender streams: after any     *)
(* sequence of crashes and resumptions the next chunk continues the        *)
(* partial file and stays inside the announced size (receiver.py:153,      *)
(* protocol.py:219-222).                                                   *)
(***************************************************************************)
HonestStreamAccepted ==
  rcvPc = "stream" /\ Arrived(toReceiver, "CHUNK") => Acceptable(Head(toReceiver))

(***************************************************************************)
(* While the input stays as it is and the disk keeps what was written, no  *)
(* sequence of kills, lost connections, failed file operations and         *)
(* resumptions makes the receiver throw away what it has: the prefix it    *)
(* rehashes and the prefix the sender rehashes are the same bytes          *)
(* (receiver.py:109-115, sender.py:140).                                   *)
(***************************************************************************)
NothingRejected == rcvPc # "reject"

(***************************************************************************)
(* The whole transfer implements AtomicDelivery.  A content is a byte      *)
(* sequence as long as some version of the input.                          *)
(***************************************************************************)
FileContents == UNION { [1..Len(f) -> Byte] : f \in Inputs }

Delivery == INSTANCE AtomicDelivery WITH
  Contents  <- FileContents,
  Nothing   <- Absent,
  out       <- IF Exists(dest) THEN dest.data ELSE Absent,
  reported  <- IF sndPc = "ok" THEN sndHashed ELSE Absent

ImplementsDelivery == Delivery!Spec

-----------------------------------------------------------------------------
(* Liveness.                                                               *)

(***************************************************************************)
(* Neither end waits for the other for ever, whatever the faults and the   *)
(* user do: every run of either program ends, without the help of the      *)
(* socket timeout (blocking sendall and recv on both sides).               *)
(***************************************************************************)
RunsEnd == []<>(sndPc \notin SndActive) /\ []<>(rcvPc \in Down)

\* From some point on nothing fails and nobody rewrites the input.
Calm == <>[][Rerun \/ Programs \/ (User /\ input' = input)]_vars

(***************************************************************************)
(* Rerunning both programs with the same session id succeeds again and     *)
(* again once things stay calm, wherever earlier runs were interrupted     *)
(* (README.md:77-83).                                                      *)
(***************************************************************************)
RerunSucceeds == Calm => []<>(sndPc = "ok")

=============================================================================
