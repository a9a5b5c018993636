---------------------------- MODULE StreamSender ----------------------------
(***************************************************************************)
(* The sending program of the mTLS stream (sender.py), one run at a time.  *)
(* A run stats the file, announces it (OPEN), learns how much of the       *)
(* session the receiver already has (OPEN_ACK), hashes that prefix of its  *)
(* own file, streams the rest while hashing it, sends the digest (EOF) and *)
(* waits for the verdict.  The user may rerun the program at any time, and *)
(* may rewrite the input file at any time, also in the middle of a run.    *)
(***************************************************************************)
EXTENDS StreamProtocol

CONSTANT Inputs      \* the contents the input file may have

ASSUME InputsAssumption == Inputs # {} /\ Inputs \subseteq Seq(Byte)

VARIABLES
  input,       \* the file named by --input, as it is now
  sndPc,       \* where the run is; "ok": the last run ended with exit code 0
  sndOpen,     \* open_msg of this run
  sndOffset,   \* offset of the next chunk
  sndHashed,   \* the bytes fed to hasher so far
  offered      \* history: every digest a run has sent in an EOF frame

sndVars == <<input, sndPc, sndOpen, sndOffset, sndHashed, offered>>

SndActive == {"awaitAck", "send", "awaitFinal"}

SndTypeOK ==
  /\ input \in Inputs
  /\ sndPc \in SndActive \cup {"off", "ok"}
  /\ sndOpen \in OpenFrame \cup {Absent}
  /\ (sndOpen = Absent) = (sndPc = "off")
  /\ sndOffset \in Nat
  /\ sndHashed \in Seq(Byte)
  /\ offered \subseteq Seq(Byte)

SndInit ==
  /\ input \in Inputs
  /\ sndPc = "off"
  /\ sndOpen = Absent
  /\ sndOffset = 0
  /\ sndHashed = <<>>
  /\ offered = {}

\* The run ends without success and its socket is closed.
SndExit ==
  /\ sndPc' = "off"
  /\ sndOpen' = Absent
  /\ sndOffset' = 0
  /\ sndHashed' = <<>>
  /\ toSender' = <<>>
  /\ link' = "broken"
  /\ UNCHANGED <<input, offered, toReceiver>>

\* The run announces the file as stat() saw it.  (The receiver's half of the
\* connection set-up is in the composition.)
SndOpen(s, k) ==
  /\ sndPc \in {"off", "ok"}
  /\ sndOpen' = [type |-> "OPEN", session |-> s, size |-> Len(input), chunk |-> k]
  /\ sndPc' = "awaitAck"
  /\ sndOffset' = 0
  /\ sndHashed' = <<>>
  /\ toReceiver' = <<sndOpen'>>
  /\ toSender' = <<>>
  /\ link' = "up"
  /\ UNCHANGED <<input, offered>>

\* The answer to OPEN lets the run go on: it is an OPEN_ACK for no more than
\* the announced size, and _hash_prefix finds that many bytes in the file.
AckUsable(f) ==
  /\ f.type = "OPEN_ACK"
  /\ f.have <= sndOpen.size
  /\ f.have <= Len(input)

\* Mutant of HashPrefix: the bytes the receiver has are not hashed.
HashNothing(n) == <<>>

\* _hash_prefix
HashPrefix(n) == SubSeq(input, 1, n)

\* Mutant of SndRecvAck: the chunks are sent from the first one on.
SndRecvAckFromStart ==
  /\ sndPc = "awaitAck"
  /\ toSender # <<>>
  /\ AckUsable(Head(toSender))
  /\ sndPc' = "send"
  /\ sndOffset' = 0
  /\ sndHashed' = <<>>
  /\ toSender' = Tail(toSender)
  /\ UNCHANGED <<input, sndOpen, offered, toReceiver, link>>

SndTakeAck ==
  /\ sndPc = "awaitAck"
  /\ toSender # <<>>
  /\ AckUsable(Head(toSender))
  /\ sndPc' = "send"
  /\ sndOffset' = Head(toSender).have
  /\ toSender' = Tail(toSender)
  /\ UNCHANGED <<sndOpen, offered, toReceiver, link>>

SndRecvAck ==
  /\ SndTakeAck
  /\ sndHashed' = HashPrefix(Head(toSender).have)
  /\ UNCHANGED input

SndRecvRefusal ==
  /\ sndPc = "awaitAck"
  /\ toSender # <<>>
  /\ ~AckUsable(Head(toSender))
  /\ SndExit

\* The number of units the next read() asks for.
ToRead ==
  IF sndOpen.chunk < sndOpen.size - sndOffset
  THEN sndOpen.chunk ELSE sndOpen.size - sndOffset

SndChunk ==
  /\ sndPc = "send"
  /\ sndOffset < sndOpen.size
  /\ link = "up" /\ Len(toReceiver) < MaxInFlight
  /\ sndOffset + ToRead <= Len(input)
  /\ LET data == SubSeq(input, sndOffset + 1, sndOffset + ToRead) IN
       /\ toReceiver' = Append(toReceiver,
                          [type |-> "CHUNK", offset |-> sndOffset, data |-> data])
       /\ sndHashed' = sndHashed \o data
  /\ sndOffset' = sndOffset + ToRead
  /\ UNCHANGED <<input, sndPc, sndOpen, offered, toSender, link>>

\* The file got shorter than the announced size.
SndShortRead ==
  /\ sndPc = "send"
  /\ sndOffset < sndOpen.size
  /\ sndOffset + ToRead > Len(input)
  /\ SndExit

SndEof ==
  /\ sndPc = "send"
  /\ sndOffset >= sndOpen.size
  /\ link = "up" /\ Len(toReceiver) < MaxInFlight
  /\ toReceiver' = Append(toReceiver, [type |-> "EOF", digest |-> sndHashed])
  /\ offered' = offered \cup {sndHashed}
  /\ sndPc' = "awaitFinal"
  /\ UNCHANGED <<input, sndOpen, sndOffset, sndHashed, toSender, link>>

\* Mutant of Confirmed: whatever comes back counts as success.
ConfirmedByAnything == toSender # <<>>

Confirmed == Arrived(toSender, "SERVER_OK")

SndRecvOk ==
  /\ sndPc = "awaitFinal"
  /\ Confirmed
  /\ toSender' = <<>>
  /\ sndPc' = "ok"
  /\ link' = "broken"
  /\ UNCHANGED <<input, sndOpen, sndOffset, sndHashed, offered, toReceiver>>

SndRecvError ==
  /\ sndPc = "awaitFinal"
  /\ toSender # <<>>
  /\ ~Confirmed
  /\ SndExit

\* The connection is gone: sendall raises, or recv has nothing left to return.
SndFail ==
  /\ sndPc \in SndActive
  /\ link = "broken"
  /\ sndPc = "send" \/ toSender = <<>>
  /\ SndExit

\* The process is killed; the kernel still delivers what it has sent.
SndKill ==
  /\ sndPc \in SndActive
  /\ link = "up"
  /\ SndExit

SndStep ==
  \/ SndRecvAck \/ SndRecvRefusal \/ SndChunk \/ SndShortRead
  \/ SndEof \/ SndRecvOk \/ SndRecvError \/ SndFail

\* The user rewrites the input file in place.
EditInput ==
  /\ input' \in Inputs \ {input}
  /\ UNCHANGED <<sndPc, sndOpen, sndOffset, sndHashed, offered, wire>>

\* n bytes that were read one after the other while the input was rewritten.
Mixtures(n) ==
  { d \in [1..n -> Byte] : \A i \in 1..n : \E f \in Inputs : i <= Len(f) /\ d[i] = f[i] }

\* The user rewrites it, once or more often, while _hash_prefix reads it.
SndRecvAckEdited ==
  /\ SndTakeAck
  /\ sndHashed' \in Mixtures(Head(toSender).have)
  /\ input' \in Inputs \ {input}
=============================================================================
