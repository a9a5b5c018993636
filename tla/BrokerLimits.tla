---------------------------- MODULE BrokerLimits ----------------------------
(***************************************************************************)
(* The size limits of the broker's protocol (broker_protocol.py), in bytes.*)
(* A request is checked where it is packed; an answer only meets the limit *)
(* of a frame, when the broker writes it, and one that is longer ends the  *)
(* connection (BrokerService!ReplyTooLong).  So what a PUT accepts should  *)
(* not outgrow the answer that gives it back.                              *)
(***************************************************************************)
EXTENDS Integers

MaxBodyLen == 64 * 1024 * 1024 + 256
SessionIdLen == 16
TagLen == 16            \* AES-GCM adds it to a plaintext
Length == 8             \* a length, an index or a count in a body

Fits(body) == body <= MaxBodyLen

ChunkSizeAllowed(size) == 0 < size /\ size <= MaxBodyLen \div 2
Ciphertext(size) == size + TagLen

PutChunkAccepted(ct) == ct <= MaxBodyLen - SessionIdLen - 8 - 4
PutChunkBody(ct) == SessionIdLen + 8 + 4 + ct

PutManifestAccepted(json, sig) == json <= MaxBodyLen \div 2 /\ sig <= 8192
PutManifestBody(json, sig) == SessionIdLen + Length + json + Length + sig

\* Answers begin with the status.
GetChunkAnswer(ct) == 1 + Length + ct
GetManifestAnswer(json, sig) == 1 + Length + json + Length + sig
ListAnswer(n) == 1 + Length + Length * n

\* The shortest entry of a chunk in a manifest: its keys, two digests in hex,
\* a nonce in base 64, and two numbers of one digit.
EntryLen == 247
=============================================================================
