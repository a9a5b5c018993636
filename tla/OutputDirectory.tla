-------------------------- MODULE OutputDirectory ---------------------------
(***************************************************************************)
(* The directory the mTLS stream's receiver works in (--output-dir), all   *)
(* it keeps across its runs: per session a partial file and a meta file,   *)
(* and the destination; and what the user and a power failure do to it.    *)
(***************************************************************************)
EXTENDS StreamProtocol

Meta == [size : Nat, chunk : Nat]

ASSUME DirectoryAssumption == Absent \notin Meta

VARIABLES
  partial,       \* {session}.partial, per session
  meta,          \* {session}.meta.json, per session
  dest,          \* the destination file
  delivered      \* history: contents that have been renamed to dest

disk == <<partial, meta, dest, delivered>>

DiskTypeOK ==
  /\ partial \in [Sessions -> File \cup {Absent}]
  /\ meta \in [Sessions -> Meta \cup {Absent}]
  /\ dest \in File \cup {Absent}
  /\ delivered \subseteq Seq(Byte)

DiskInit ==
  /\ partial = [s \in Sessions |-> Absent]
  /\ meta = [s \in Sessions |-> Absent]
  /\ dest = Absent
  /\ delivered = {}

\* The host goes down: files lose what was not on the disk.
LosePower ==
  /\ partial' \in { p \in [Sessions -> UNION {Torn(partial[s]) : s \in Sessions}] :
                      \A s \in Sessions : p[s] \in Torn(partial[s]) }
  /\ dest' \in Torn(dest)
  /\ UNCHANGED <<meta, delivered>>

\* The user moves the delivered file away.
TakeOutput ==
  /\ Exists(dest)
  /\ dest' = Absent
  /\ UNCHANGED <<partial, meta, delivered>>

\* "partial/meta pair inconsistent; manual cleanup required": the user removes
\* the file that is left.
RemoveOrphan(s) ==
  /\ Exists(partial[s]) # Exists(meta[s])
  /\ partial' = [partial EXCEPT ![s] = Absent]
  /\ meta' = [meta EXCEPT ![s] = Absent]
  /\ UNCHANGED <<dest, delivered>>
=============================================================================
