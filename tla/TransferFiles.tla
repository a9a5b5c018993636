--------------------------- MODULE TransferFiles ----------------------------
(***************************************************************************)
(* Files as the programs see them.  A file is a record: its data, and how  *)
(* many of its bytes are known to be on stable storage.  A killed process  *)
(* loses nothing (the kernel has the data); a power loss may zero or cut   *)
(* off what was not fsynced.  Renames, creations and removals take effect  *)
(* in order.                                                               *)
(***************************************************************************)
EXTENDS Integers, Sequences

CONSTANTS
  Byte,          \* the units a file is made of
  Absent,        \* no such file, no such value (Python's None)
  Zero           \* what a lost block, or a gap, of a file reads as

File == [data : Seq(Byte), synced : Nat]

ASSUME FilesAssumption ==
  /\ Zero \in Byte
  /\ Absent \notin File \cup Seq(Byte)

Exists(f) == f # Absent

EmptyFile == [data |-> <<>>, synced |-> 0]

\* Mutant of WriteAt: the file is opened for writing from scratch.
WriteOver(f, offset, data) == [f EXCEPT !.data = data]

\* fp.seek(offset); fp.write(data): overwrites or extends, fills a gap with 0.
WriteAt(f, offset, data) ==
  LET end == offset + Len(data)
      len == IF Len(f.data) > end THEN Len(f.data) ELSE end
  IN [f EXCEPT !.data =
        [i \in 1..len |-> IF i \in offset+1..end THEN data[i - offset]
                          ELSE IF i <= Len(f.data) THEN f.data[i] ELSE Zero]]

\* The first n bytes of file f, each one beyond the synced part lost or not.
Damaged(f, n) ==
  { d \in [1..n -> Byte] :
      \A i \in 1..n : d[i] = f.data[i] \/ (i > f.synced /\ d[i] = Zero) }

\* What a file may be after a power loss.
Torn(f) ==
  IF f = Absent THEN {Absent}
  ELSE UNION { {[data |-> d, synced |-> n] : d \in Damaged(f, n)} :
                 n \in f.synced..Len(f.data) }

\* Mutant of Synced: os.fsync is left out.
NotSynced(f) == f

\* os.fsync
Synced(f) == [f EXCEPT !.synced = Len(f.data)]
=============================================================================
