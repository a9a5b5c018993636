--------------------------- MODULE SessionRequests ---------------------------
(***************************************************************************)
(* The requests about one session, what they do to its files, and their    *)
(* answers (broker_server.py, _dispatch).                                  *)
(***************************************************************************)
EXTENDS Naturals, FiniteSets, SequencesExt

CONSTANTS
  Connections,   \* each is used by one client
  Indices,       \* of chunks
  Ciphertexts,
  Manifests,     \* manifest.json; its signature is named by the manifest
  DiskMayFail,   \* a write on the broker's disk may raise OSError
  Absent,        \* no such file; no request, no answer
  Refused        \* an answer with status 1

Request ==
  [cmd : {"PUT_CHUNK"}, index : Indices, data : Ciphertexts]
    \cup [cmd : {"GET_CHUNK"}, index : Indices]
    \cup [cmd : {"LIST_CHUNKS", "GET_MANIFEST"}]
    \cup [cmd : {"PUT_MANIFEST"}, data : Manifests]

Writes(r) == r.cmd \in {"PUT_CHUNK", "PUT_MANIFEST"}

Files ==
  [chunks : [Indices -> Ciphertexts \cup {Absent}],
   manifest : Manifests \cup {Absent},
   signature : Manifests \cup {Absent}]

\* The indices in LIST's answer, which the client makes a set.
Listed(s) == { i \in Indices : s.chunks[i] # Absent }

\* The files after request r, and the answer to it.
After(s, r) ==
  CASE r.cmd = "PUT_CHUNK"    -> [s EXCEPT !.chunks[r.index] = r.data]
    [] r.cmd = "PUT_MANIFEST" -> [s EXCEPT !.manifest = r.data, !.signature = r.data]
    [] OTHER                  -> s

Answer(s, r) ==
  CASE Writes(r)               -> <<>>
    [] r.cmd = "LIST_CHUNKS"   -> Listed(s)
    [] r.cmd = "GET_CHUNK"     ->
         IF s.chunks[r.index] = Absent THEN Refused ELSE <<s.chunks[r.index]>>
    [] r.cmd = "GET_MANIFEST"  ->
         IF Absent \in {s.manifest, s.signature} THEN Refused
         ELSE <<s.manifest, s.signature>>

\* A call: where it is, its request, the answer.
Call(at, r, a) == [at |-> at, req |-> r, answer |-> a]
=============================================================================
