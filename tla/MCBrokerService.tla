--------------------------- MODULE MCBrokerService ---------------------------
(* A small instance of BrokerService for TLC. *)
EXTENDS BrokerService

CONSTANTS m1, m2

\* Two uploads publish their manifests while a chunk is written and others look.
MCRequests ==
  { [cmd |-> "PUT_CHUNK", index |-> 0, data |-> CHOOSE x \in Ciphertexts : TRUE],
    [cmd |-> "LIST_CHUNKS"],
    [cmd |-> "PUT_MANIFEST", data |-> m1],
    [cmd |-> "PUT_MANIFEST", data |-> m2],
    [cmd |-> "GET_MANIFEST"] }

\* Chunk 0 is the one that makes the answer to LIST too long.
MCUploaded ==
  { [chunks |-> [i \in Indices |-> IF i = 0 THEN Absent ELSE CHOOSE x \in Ciphertexts : TRUE],
     manifest |-> Absent, signature |-> Absent] }
=============================================================================
