------------------------------- MODULE Broker -------------------------------
(***************************************************************************)
(* The broker of the envelope transfer (broker_server.py), seen by one     *)
(* session.  Every connection has a thread of its own; a handler works     *)
(* under the lock of its session, so each request is one step.  A client   *)
(* waits for the answer to a request before it sends the next.  When it    *)
(* gives up (killed, timeout, connection lost), its last request may still *)
(* be on its way: such a stray request is served at any later time, or     *)
(* never.  The broker never fsyncs.                                        *)
(***************************************************************************)
EXTENDS EnvelopeFormat

CONSTANTS
  Clients,             \* the program runs that may be connected
  BrokerPowerMayFail,  \* the broker's host may lose power
  MaxStray             \* bound: requests of gone clients at a time

ASSUME BrokerAssumption ==
  /\ BrokerPowerMayFail \in BOOLEAN
  /\ MaxStray \in Nat
  /\ Absent \notin {"valid", "invalid"}

VARIABLES
  chunks,      \* chunk_<index>.bin
  manifest,    \* manifest.json
  signature,   \* manifest.sig: "valid" if it signs the manifest.json there
  stray,       \* requests of clients that are gone
  connected    \* the clients whose connection stands

store == <<chunks, manifest, signature>>
brokerVars == <<store, stray, connected>>

PutChunk == [cmd : {"PUT_CHUNK"}, index : Indices, ct : Ciphertext]
PutManifest == [cmd : {"PUT_MANIFEST"}, manifest : Manifest]
Put == PutChunk \cup PutManifest

BrokerTypeOK ==
  /\ chunks \in [Indices -> Ciphertext \cup {Absent, Garbled}]
  /\ manifest \in Manifest \cup {Absent, Garbled}
  /\ signature \in {"valid", "invalid", Absent}
  /\ stray \subseteq Put /\ Cardinality(stray) <= MaxStray
  /\ connected \subseteq Clients

BrokerInit ==
  /\ chunks = [i \in Indices |-> Absent]
  /\ manifest = Absent
  /\ signature = Absent
  /\ stray = {}
  /\ connected = {}

Stored == { i \in Indices : chunks[i] # Absent }

\* The first of the two renames of PUT_MANIFEST and not the second: a signature
\* that is there is of another manifest.
HalfManifest(m) ==
  /\ manifest' = m
  /\ signature' = IF signature = Absent THEN Absent ELSE "invalid"
  /\ UNCHANGED chunks

StoreManifest(m) ==
  /\ manifest' = m
  /\ signature' = "valid"
  /\ UNCHANGED chunks

StoreChunk(i, ct) ==
  /\ chunks' = [chunks EXCEPT ![i] = ct]
  /\ UNCHANGED <<manifest, signature>>

\* The request that carries out r, in one step.
Serve(r) ==
  \/ r.cmd = "PUT_CHUNK" /\ StoreChunk(r.index, r.ct)
  \/ r.cmd = "PUT_MANIFEST" /\ StoreManifest(r.manifest)

ServeStray ==
  \E r \in stray : Serve(r) /\ stray' = stray \ {r} /\ UNCHANGED connected

\* The second rename of a stray PUT_MANIFEST fails.
StrayHalfDone ==
  \E r \in stray :
    /\ r.cmd = "PUT_MANIFEST" /\ HalfManifest(r.manifest)
    /\ stray' = stray \ {r} /\ UNCHANGED connected

\* The broker is killed, perhaps between the two renames.
BrokerKilled ==
  /\ \/ UNCHANGED store
     \/ \E r \in stray : r.cmd = "PUT_MANIFEST" /\ HalfManifest(r.manifest)
  /\ stray' = {}
  /\ connected' = {}

\* What a small file that is never fsynced may be after a power failure.
Unsynced(f) == IF f = Absent THEN {Absent} ELSE {f, Garbled}

BrokerPowerLoss ==
  /\ BrokerPowerMayFail
  /\ \E lost \in SUBSET Stored :
       chunks' = [i \in Indices |-> IF i \in lost THEN Garbled ELSE chunks[i]]
  /\ manifest' \in Unsynced(manifest)
  /\ signature' \in {signature, IF signature = Absent THEN Absent ELSE "invalid"}
  /\ stray' = {}
  /\ connected' = {}

\* The connection of one client is lost.
Disconnect(c) ==
  /\ c \in connected
  /\ connected' = connected \ {c}
  /\ UNCHANGED <<store, stray>>

BrokerFault ==
  BrokerKilled \/ BrokerPowerLoss \/ StrayHalfDone \/ \E c \in Clients : Disconnect(c)

\* manifest.json and manifest.sig are there and verify.
ManifestVerifies == manifest \in Manifest /\ signature = "valid"

\* Every chunk the published manifest lists is there, byte for byte, unless a
\* power failure has made it unreadable.
Complete ==
  \A i \in 0..ChunkCount(Len(manifest.plain)) - 1 :
    chunks[i] \in {Listed(manifest, i), Garbled}
=============================================================================
