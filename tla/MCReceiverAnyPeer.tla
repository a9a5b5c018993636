------------------------- MODULE MCReceiverAnyPeer --------------------------
(* A small instance of ReceiverAnyPeer for TLC. *)
EXTENDS ReceiverAnyPeer, TLC

MCFrames ==
  [type : {"OPEN"}, session : Sessions, size : 1..2, chunk : ChunkSizes]
    \cup [type : {"CHUNK"}, offset : 0..1, data : {<<>>, <<1>>, <<1, 1>>}]
    \cup [type : {"EOF"}, digest : {<<1>>, <<1, 1>>}]

\* Sessions are only compared with each other.
Symmetric == Permutations(Sessions)
=============================================================================
