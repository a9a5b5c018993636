---------------------------- MODULE BrokerService ----------------------------
(***************************************************************************)
(* How the broker serves one session (broker_server.py): a thread for each *)
(* connection, which reads a frame, carries out the request under the lock *)
(* of the session, by way of temporary files and renames, and writes the   *)
(* answer; and the calls of the clients (broker_client.py).  The frames    *)
(* (broker_protocol.py) are sequences of units on a byte stream, which     *)
(* hands them over in pieces of any size and may end anywhere.             *)
(***************************************************************************)
EXTENDS SessionRequests

CONSTANTS
  Requests,      \* the requests that are made
  Uploaded,      \* what earlier connections may have left in the session
  Garbled,       \* a temporary file whose write has failed
  HeaderLen,     \* units of a frame header
  MaxBody,       \* MAX_BODY_LEN in units
  MaxCalls       \* bound: requests made

VARIABLES
  files, tmp,    \* the files of the session, and their .part files
  lock,          \* the handler that holds the session's lock
  replaced,      \* history: manifest.json until the signature is renamed too
  handler,       \* per connection, where its thread is
  client,        \* per connection, where its client is
  req,           \* its last request
  got,           \* the answer the client has got
  served,        \* resp, the answer to the last request once it is carried out
  link,          \* the connection; "broken": ended by a peer without a reason
  inbox, buf,    \* per end, the units in the stream, and those of the frame read
  calls          \* requests made so far

ends == <<inbox, buf>>
vars == <<files, tmp, lock, replaced, handler, client, req, got, served, link, ends, calls>>

Ends == {"client", "server"}

-----------------------------------------------------------------------------
(* Frames.  A request is its own message; an answer carries its command.   *)

Response(r, a) == [cmd |-> r.cmd, answer |-> a]

\* Chunks and manifests are one unit; so are the status and the session id.
BodyLen(m) ==
  IF "answer" \in DOMAIN m
  THEN 1 + (IF m.answer = Refused THEN 0
            ELSE IF m.cmd = "LIST_CHUNKS" THEN Cardinality(m.answer) ELSE Len(m.answer))
  ELSE IF "data" \in DOMAIN m THEN 2 ELSE 1

ASSUME ServiceAssumption ==
  /\ HeaderLen \in Nat \ {0} /\ MaxBody \in Nat /\ MaxCalls \in Nat
  /\ IsFiniteSet(Indices)
  /\ Requests \subseteq Request /\ Uploaded \subseteq Files
  /\ \A r \in Requests : BodyLen(r) <= MaxBody
  /\ Absent \notin Connections \cup {Refused}
  /\ \A s \in Files, r \in Requests : Answer(s, r) # Absent

Frame(m) == [k \in 1..HeaderLen + BodyLen(m) |-> [msg |-> m, unit |-> k]]

\* The header in b is read, and starts with the magic.
HeaderRead(b) == Len(b) >= HeaderLen
Magic(b) == b[1].unit = 1

\* What recv_exact is asked for.
Need(b) == IF HeaderRead(b) THEN HeaderLen + BodyLen(b[1].msg) ELSE HeaderLen

\* Mutant of FrameRead: one recv for the body, however much it returns.
FrameReadOnce(b) == Len(b) > HeaderLen

FrameRead(b) == HeaderRead(b) /\ Len(b) = Need(b)

Intact(b) == b = Frame(b[1].msg)

\* recv_exact or read_frame raises: the end of the stream, or no magic.
CannotRead(c, e) ==
  \/ ~FrameRead(buf[e][c]) /\ inbox[e][c] = <<>> /\ link[c] # "up"
  \/ HeaderRead(buf[e][c]) /\ ~Magic(buf[e][c])

\* A recv: one or more of the units that have come.
Recv(c, e) ==
  /\ IF e = "server" THEN handler[c] = "read" ELSE client[c] = "waiting"
  /\ ~FrameRead(buf[e][c])
  /\ \E n \in 1..Len(inbox[e][c]) :
       /\ Len(buf[e][c]) + n <= Need(buf[e][c])
       /\ buf' = [buf EXCEPT ![e][c] = @ \o SubSeq(inbox[e][c], 1, n)]
       /\ inbox' = [inbox EXCEPT ![e][c] = SubSeq(@, n + 1, Len(@))]
  /\ UNCHANGED <<files, tmp, lock, replaced, handler, client, req, got, served, link,
                 calls>>

\* An end closes its socket: what it has read, and not read, is gone.
Close(e, c) ==
  /\ inbox' = [inbox EXCEPT ![e][c] = <<>>]
  /\ buf' = [buf EXCEPT ![e][c] = <<>>]

-----------------------------------------------------------------------------
(* The client.                                                             *)

Connect(c) ==
  /\ client[c] = "new"
  /\ client' = [client EXCEPT ![c] = "idle"]
  /\ handler' = [handler EXCEPT ![c] = "read"]
  /\ link' = [link EXCEPT ![c] = "up"]
  /\ UNCHANGED <<files, tmp, lock, replaced, req, got, served, ends, calls>>

\* Every caller leaves after a refusal.
Send(c) ==
  /\ client[c] = "idle" /\ link[c] = "up" /\ got[c] # Refused
  /\ calls < MaxCalls
  /\ \E r \in Requests :
       /\ req' = [req EXCEPT ![c] = r]
       /\ inbox' = [inbox EXCEPT !.server[c] = Frame(r)]
  /\ client' = [client EXCEPT ![c] = "waiting"]
  /\ got' = [got EXCEPT ![c] = Absent]
  /\ served' = [served EXCEPT ![c] = Absent]
  /\ calls' = calls + 1
  /\ UNCHANGED <<files, tmp, lock, replaced, handler, link, buf>>

Return(c) ==
  LET b == buf.client[c]
  IN /\ client[c] = "waiting" /\ FrameRead(b) /\ Intact(b)
     /\ b[1].msg.cmd = req[c].cmd
     /\ got' = [got EXCEPT ![c] = b[1].msg.answer]
     /\ client' = [client EXCEPT ![c] = "idle"]
     /\ buf' = [buf EXCEPT !.client[c] = <<>>]
     /\ UNCHANGED <<files, tmp, lock, replaced, handler, req, served, link, inbox, calls>>

\* The program ends; the connection, if it still stands, becomes this.
ClientGone(c, then) ==
  /\ client' = [client EXCEPT ![c] = "gone"]
  /\ req' = [req EXCEPT ![c] = Absent]
  /\ got' = [got EXCEPT ![c] = Absent]
  /\ link' = [link EXCEPT ![c] = IF @ = "up" THEN then ELSE @]
  /\ UNCHANGED <<files, tmp, lock, replaced, handler, served, calls>>

\* The call raises BrokerProtocolError.
CallFails(c) ==
  /\ client[c] = "waiting"
  /\ \/ ~FrameRead(buf.client[c]) /\ CannotRead(c, "client")
     \/ FrameRead(buf.client[c]) /\ ~Intact(buf.client[c])
  /\ ClientGone(c, "broken")
  /\ Close("client", c)

\* Done; or refused, or not able to pack or to send another request.
Leave(c) ==
  /\ client[c] = "idle"
  /\ ClientGone(c, "down")
  /\ Close("client", c)

ClientStep(c) == Recv(c, "client") \/ Return(c) \/ CallFails(c)

-----------------------------------------------------------------------------
(* The handler.                                                            *)

Body(c) == buf.server[c][1].msg

\* Mutant of LockFree: there is no lock.
LockFreeAlways == TRUE

LockFree == lock = Absent

\* The frame is read; _dispatch unpacks the body and takes the lock.
CanServe(c) ==
  /\ handler[c] = "read" /\ FrameRead(buf.server[c]) /\ Magic(buf.server[c])
  /\ Intact(buf.server[c]) => LockFree

\* Mutant of Done: the lock is not released.
DoneLocked(c, a) ==
  /\ served' = [served EXCEPT ![c] = a]
  /\ handler' = [handler EXCEPT ![c] = "reply"]
  /\ UNCHANGED <<lock, client, req, got, link, ends, calls>>

\* The answer is ready, and the lock released.
Done(c, a) ==
  /\ served' = [served EXCEPT ![c] = a]
  /\ lock' = IF lock = c THEN Absent ELSE lock
  /\ handler' = [handler EXCEPT ![c] = "reply"]
  /\ UNCHANGED <<client, req, got, link, ends, calls>>

\* GET and LIST; and what cannot be unpacked is refused.
Look(c) ==
  /\ CanServe(c)
  /\ IF Intact(buf.server[c])
     THEN ~Writes(Body(c)) /\ Done(c, Answer(files, Body(c)))
     ELSE Done(c, Refused)
  /\ UNCHANGED <<files, tmp, replaced>>

\* PUT: into the lock.
Acquire(c) ==
  /\ CanServe(c) /\ Intact(buf.server[c]) /\ Writes(Body(c))
  /\ lock' = c
  /\ handler' = [handler EXCEPT ![c] = "write"]
  /\ UNCHANGED <<files, tmp, replaced, client, req, got, served, link, ends, calls>>

Write(c) ==
  /\ handler[c] = "write"
  /\ tmp' = After(tmp, Body(c))
  /\ handler' = [handler EXCEPT ![c] =
                   IF Body(c).cmd = "PUT_CHUNK" THEN "renameChunk" ELSE "renameManifest"]
  /\ UNCHANGED <<files, lock, replaced, client, req, got, served, link, ends, calls>>

\* The disk is full: an OSError, which _dispatch's caller answers.
WriteFails(c) ==
  /\ DiskMayFail /\ handler[c] = "write"
  /\ tmp' = After(tmp, [Body(c) EXCEPT !.data = Garbled])
  /\ Done(c, Refused)
  /\ UNCHANGED <<files, replaced>>

RenameChunk(c) ==
  LET i == Body(c).index
  IN /\ handler[c] = "renameChunk"
     /\ files' = [files EXCEPT !.chunks[i] = tmp.chunks[i]]
     /\ tmp' = [tmp EXCEPT !.chunks[i] = Absent]
     /\ Done(c, <<>>)
     /\ UNCHANGED replaced

RenameManifest(c) ==
  /\ handler[c] = "renameManifest"
  /\ files' = [files EXCEPT !.manifest = tmp.manifest]
  /\ tmp' = [tmp EXCEPT !.manifest = Absent]
  /\ replaced' = files.manifest
  /\ handler' = [handler EXCEPT ![c] = "renameSignature"]
  /\ UNCHANGED <<lock, client, req, got, served, link, ends, calls>>

RenameSignature(c) ==
  /\ handler[c] = "renameSignature"
  /\ files' = [files EXCEPT !.signature = tmp.signature]
  /\ tmp' = [tmp EXCEPT !.signature = Absent]
  /\ replaced' = Absent
  /\ Done(c, <<>>)

\* The second rename raises an OSError; the first one stays done.  (A first one
\* that fails is WriteFails: a .part file is left that the next write truncates.)
RenameFails(c) ==
  /\ DiskMayFail /\ handler[c] = "renameSignature"
  /\ replaced' = Absent
  /\ Done(c, Refused)
  /\ UNCHANGED <<files, tmp>>

TooLong(c) == BodyLen(Response(Body(c), served[c])) > MaxBody

\* The next frame, if the client is still there, follows this one.
Reply(c) ==
  /\ handler[c] = "reply" /\ ~TooLong(c)
  /\ inbox' = IF link[c] = "up"
              THEN [inbox EXCEPT !.client[c] = Frame(Response(Body(c), served[c]))]
              ELSE inbox
  /\ buf' = [buf EXCEPT !.server[c] = <<>>]
  /\ handler' = [handler EXCEPT ![c] = "read"]
  /\ UNCHANGED <<files, tmp, lock, replaced, client, req, got, served, link, calls>>

\* Mutant of ReplyTooLong: the connection stays open.
ReplyTooLongOpen(c) ==
  /\ handler[c] = "reply" /\ TooLong(c)
  /\ handler' = [handler EXCEPT ![c] = "off"]
  /\ Close("server", c)
  /\ UNCHANGED <<files, tmp, lock, replaced, client, req, got, served, link, calls>>

\* write_frame raises BrokerProtocolError, which nothing catches: the thread
\* ends, and the connection with it.
ReplyTooLong(c) ==
  /\ handler[c] = "reply" /\ TooLong(c)
  /\ handler' = [handler EXCEPT ![c] = "off"]
  /\ link' = [link EXCEPT ![c] = IF @ = "up" THEN "down" ELSE @]
  /\ Close("server", c)
  /\ UNCHANGED <<files, tmp, lock, replaced, client, req, got, served, calls>>

HandlerEnds(c) ==
  /\ handler[c] = "read" /\ CannotRead(c, "server")
  /\ handler' = [handler EXCEPT ![c] = "off"]
  /\ link' = [link EXCEPT ![c] = IF @ = "up" THEN "broken" ELSE @]
  /\ Close("server", c)
  /\ UNCHANGED <<files, tmp, lock, replaced, client, req, got, served, calls>>

HandlerStep(c) ==
  \/ Recv(c, "server") \/ Look(c) \/ Acquire(c)
  \/ Write(c) \/ WriteFails(c) \/ RenameChunk(c) \/ RenameManifest(c)
  \/ RenameSignature(c) \/ RenameFails(c) \/ Reply(c) \/ ReplyTooLong(c) \/ HandlerEnds(c)

-----------------------------------------------------------------------------
(* Faults.                                                                 *)

\* The connection is lost, with any end of what is in it.
Cut(c) ==
  /\ link[c] = "up"
  /\ link' = [link EXCEPT ![c] = "down"]
  /\ \E s \in Prefixes(inbox.server[c]), t \in Prefixes(inbox.client[c]) :
       inbox' = [inbox EXCEPT !.server[c] = s, !.client[c] = t]
  /\ UNCHANGED <<files, tmp, lock, replaced, handler, client, req, got, served, buf,
                 calls>>

\* The client is killed, or its socket timeout ends the call.
GiveUp(c) ==
  /\ client[c] = "waiting"
  /\ ClientGone(c, "down")
  /\ \E s \in Prefixes(inbox.server[c]) :
       inbox' = [inbox EXCEPT !.server[c] = s, !.client[c] = <<>>]
  /\ buf' = [buf EXCEPT !.client[c] = <<>>]

\* The broker is killed, and started again for those who connect later.
Killed ==
  /\ \E c \in Connections : handler[c] # "off"
  /\ handler' = [c \in Connections |-> "off"]
  /\ lock' = Absent
  /\ replaced' = Absent
  /\ link' = [c \in Connections |-> IF link[c] = "up" THEN "down" ELSE link[c]]
  /\ inbox' = [inbox EXCEPT !.server = [c \in Connections |-> <<>>]]
  /\ buf' = [buf EXCEPT !.server = [c \in Connections |-> <<>>]]
  /\ UNCHANGED <<files, tmp, client, req, got, served, calls>>

-----------------------------------------------------------------------------
Init ==
  /\ files \in Uploaded
  /\ tmp = [chunks |-> [i \in Indices |-> Absent], manifest |-> Absent, signature |-> Absent]
  /\ lock = Absent
  /\ replaced = Absent
  /\ handler = [c \in Connections |-> "off"]
  /\ client = [c \in Connections |-> "new"]
  /\ req = [c \in Connections |-> Absent]
  /\ got = [c \in Connections |-> Absent]
  /\ served = [c \in Connections |-> Absent]
  /\ link = [c \in Connections |-> "none"]
  /\ inbox = [e \in Ends |-> [c \in Connections |-> <<>>]]
  /\ buf = [e \in Ends |-> [c \in Connections |-> <<>>]]
  /\ calls = 0

Next ==
  \/ \E c \in Connections :
       \/ Connect(c) \/ Send(c) \/ ClientStep(c) \/ Leave(c)
       \/ HandlerStep(c)
       \/ Cut(c) \/ GiveUp(c)
  \/ Killed

(* Fairness.  As long as any handler or client can go on, one of them does: *)
(* less than the scheduler and the network give.  It is enough because each *)
(* step comes nearer to the end of some call.                               *)
Spec ==
  /\ Init /\ [][Next]_vars
  /\ WF_vars(\E c \in Connections : HandlerStep(c) \/ ClientStep(c))

-----------------------------------------------------------------------------
TypeOK ==
  /\ files \in Files /\ DOMAIN tmp = DOMAIN files
  /\ lock \in Connections \cup {Absent}
  /\ \A c \in Connections :
       /\ handler[c] \in {"off", "read", "write", "renameChunk",
                          "renameManifest", "renameSignature", "reply"}
       /\ (lock = c) = (handler[c] \in {"write", "renameChunk",
                                        "renameManifest", "renameSignature"})
       /\ client[c] \in {"new", "idle", "waiting", "gone"}
       /\ req[c] \in Requests \cup {Absent}
       /\ link[c] \in {"none", "up", "down", "broken"}
       /\ \A e \in Ends : Len(buf[e][c]) <= HeaderLen + MaxBody
  /\ calls \in 0..MaxCalls

(***************************************************************************)
(* The service implements SessionStore.  A request is carried out by its   *)
(* last rename, or when the handler has looked.  It is stray if its client *)
(* has gone and all of its frame has been sent, read or is being served.   *)
(***************************************************************************)
Sent(c) == buf.server[c] \o inbox.server[c]

CanBeServed(c) ==
  handler[c] \notin {"off", "reply"} /\ Sent(c) # <<>> /\ Intact(Sent(c))

AbstractCall(c) ==
  CASE client[c] \in {"new", "idle"} -> Call("idle", req[c], got[c])
    [] client[c] = "waiting" /\ served[c] = Absent -> Call("waiting", req[c], Absent)
    [] client[c] = "waiting" /\ served[c] # Absent -> Call("answered", req[c], served[c])
    [] client[c] = "gone" /\ CanBeServed(c) -> Call("stray", Sent(c)[1].msg, Absent)
    [] client[c] = "gone" /\ ~CanBeServed(c) -> Call("gone", Absent, Absent)

AbstractCalls == [c \in Connections |-> AbstractCall(c)]

AbstractFiles ==
  IF \E c \in Connections : handler[c] = "renameSignature"
  THEN [files EXCEPT !.manifest = replaced] ELSE files

Store == INSTANCE SessionStore WITH
  stored <- AbstractFiles,
  call   <- AbstractCalls

ImplementsStore == Store!Spec

(***************************************************************************)
(* A call fails, or a handler ends, only because the other end has left or *)
(* been killed, the connection was lost, or the answer is too long: never  *)
(* because a frame came in pieces (broker_protocol.py:38-58).              *)
(***************************************************************************)
FailsForAReason == \A c \in Connections : link[c] # "broken"

(***************************************************************************)
(* Every one of the MaxCalls calls ends, with its answer or an error: no   *)
(* handler keeps the lock of the session, and none leaves its client       *)
(* waiting when it ends without an answer (broker_server.py:72-98).        *)
(***************************************************************************)
CallsEnd == []<>(\A c \in Connections : client[c] # "waiting")
=============================================================================
