------------------------ MODULE BrokerServiceProofs -------------------------
(***************************************************************************)
(* Proofs about BrokerService: the broker's threads serve each connection  *)
(* as SessionStore says, for any number of connections, any requests and   *)
(* frames of any length.                                                   *)
(***************************************************************************)
EXTENDS BrokerService, BrokerLimits, FiniteSetTheorems, SequenceTheorems, TLAPS

-----------------------------------------------------------------------------
(* Answers.                                                                *)

\* What the requests are answered.
Answers == { Answer(s, r) : s \in Files, r \in Requests } \cup {Refused}

\* An answer that can be framed: _dispatch's (broker_server.py:94-157).
CanFrame(r, a) == a \in Answers /\ a # Absent /\ BodyLen(Response(r, a)) \in Nat

\* A request has no field "answer", and "data" if it writes.
LEMMA RequestFields ==
  ASSUME NEW r \in Requests
  PROVE  /\ r \in Request /\ BodyLen(r) \in Nat /\ BodyLen(r) <= MaxBody
         /\ r.cmd = "PUT_CHUNK" => r.index \in Indices /\ r.data \in Ciphertexts
         /\ r.cmd = "PUT_MANIFEST" => r.data \in Manifests
         /\ r.cmd = "GET_CHUNK" => r.index \in Indices
<1>1. r \in Request /\ BodyLen(r) <= MaxBody
  BY ServiceAssumption
<1>2. "answer" \notin DOMAIN r
  BY <1>1 DEF Request
<1>3. BodyLen(r) \in Nat
  BY <1>2 DEF BodyLen
<1> QED
  BY <1>1, <1>3 DEF Request

\* The answer to a request, or a refusal, can be framed.
LEMMA AnswerFits ==
  ASSUME NEW s \in Files, NEW r \in Requests
  PROVE  /\ CanFrame(r, Answer(s, r))
         /\ CanFrame(r, Refused)
         /\ Writes(r) => Answer(s, r) = <<>>
<1>1. \A a : DOMAIN Response(r, a) = {"cmd", "answer"} /\ Response(r, a).cmd = r.cmd
             /\ Response(r, a).answer = a
  BY DEF Response
<1>2. BodyLen(Response(r, Refused)) = 1
  BY <1>1 DEF BodyLen
<1>3. \A a : a # Refused =>
         BodyLen(Response(r, a)) =
           1 + (IF r.cmd = "LIST_CHUNKS" THEN Cardinality(a) ELSE Len(a))
  BY <1>1 DEF BodyLen
<1>4. Cardinality(Listed(s)) \in Nat
  <2>1. IsFiniteSet(Listed(s))
    BY ServiceAssumption, FS_Subset DEF Listed
  <2> QED
    BY <2>1, FS_CardinalityType
<1>8. Answer(s, r) \in Answers /\ Refused \in Answers
  BY DEF Answers
<1>9. Answer(s, r) # Absent /\ Refused # Absent
  BY ServiceAssumption
<1>5. CanFrame(r, Refused) /\ (Answer(s, r) = Refused => CanFrame(r, Answer(s, r)))
  <2>1. BodyLen(Response(r, Refused)) \in Nat
    BY <1>2
  <2> QED
    BY <1>8, <1>9, <2>1, Zenon DEF CanFrame
<1>6. ASSUME Answer(s, r) # Refused PROVE CanFrame(r, Answer(s, r))
  <2>1. r.cmd = "LIST_CHUNKS" => Answer(s, r) = Listed(s)
    BY DEF Answer, Writes
  <2>2. r.cmd # "LIST_CHUNKS" => Len(Answer(s, r)) \in Nat
    BY <1>6, RequestFields DEF Answer, Writes, Request
  <2>3. BodyLen(Response(r, Answer(s, r))) \in Nat
    BY <1>3, <1>4, <1>6, <2>1, <2>2
  <2> QED
    BY <2>3, <1>8, <1>9, Zenon DEF CanFrame
<1>7. Writes(r) => Answer(s, r) = <<>>
  BY DEF Answer, Writes
<1> QED
  BY <1>5, <1>6, <1>7

-----------------------------------------------------------------------------
(* Frames on a stream.                                                     *)

\* What is sent.
Message == Requests \cup { Response(r, a) : r \in Requests, a \in Answers }

\* The units of its frames, and what a connection carries of them.
Unit == [msg : Message, unit : Nat]
Stream == Seq(Unit)

\* These units are the first ones of the frame of m (broker_protocol.py:61-66).
Begins(s, m) ==
  /\ s \in Seq(Unit)
  /\ Len(s) <= HeaderLen + BodyLen(m)
  /\ \A i \in 1..Len(s) : s[i] = [msg |-> m, unit |-> i]

\* A frame is as long as its header and body, and begins itself.
LEMMA FrameBegins ==
  ASSUME NEW m \in Message, BodyLen(m) \in Nat
  PROVE  /\ Begins(Frame(m), m) /\ Frame(m) # <<>>
         /\ Len(Frame(m)) = HeaderLen + BodyLen(m)
<1>1. HeaderLen + BodyLen(m) \in Nat \ {0}
  BY ServiceAssumption
<1> DEFINE n == HeaderLen + BodyLen(m)
<1>3. \A k \in 1..n : k \in Nat /\ [msg |-> m, unit |-> k] \in Unit
  BY <1>1 DEF Unit
<1>2. /\ Frame(m) \in Seq(Unit) /\ Len(Frame(m)) = n
      /\ \A i \in 1..Len(Frame(m)) : Frame(m)[i] = [msg |-> m, unit |-> i]
  <2>1. Frame(m) = [k \in 1..n |-> [msg |-> m, unit |-> k]]
    BY DEF Frame
  <2> HIDE DEF n
  <2>2. n \in Nat
    BY <1>1 DEF n
  <2>3. Frame(m) \in [1..n -> Unit] /\ \A i \in 1..n : Frame(m)[i] = [msg |-> m, unit |-> i]
    BY <1>3, <2>1, Zenon
  <2>4. Frame(m) \in Seq(Unit) /\ Len(Frame(m)) = n
    BY <2>2, <2>3
  <2> QED
    BY <2>3, <2>4
<1> QED
  BY <1>1, <1>2 DEF Begins

\* What has been read or cut off of a beginning is one.
LEMMA ShorterBegins ==
  ASSUME NEW m, NEW s, Begins(s, m), BodyLen(m) \in Nat, NEW n \in 0..Len(s)
  PROVE  Begins(SubSeq(s, 1, n), m) /\ Len(SubSeq(s, 1, n)) = n
<1>1. s \in Seq(Unit) /\ Len(s) \in Nat /\ n \in Nat /\ n <= Len(s)
  BY DEF Begins
<1>2. /\ SubSeq(s, 1, n) \in Seq(Unit) /\ Len(SubSeq(s, 1, n)) = n
      /\ \A i \in 1..n : SubSeq(s, 1, n)[i] = s[i]
  BY <1>1
<1> QED
  BY <1>1, <1>2, ServiceAssumption DEF Begins

\* No unit is a stream too.
LEMMA NoUnits == <<>> \in Stream
BY DEF Stream

\* Nothing is a beginning of every frame.
LEMMA NothingBegins == ASSUME NEW m, BodyLen(m) \in Nat PROVE Begins(<<>>, m)
BY ServiceAssumption DEF Begins

\* A beginning of a frame starts with the magic, names the message, and is
\* complete exactly when recv_exact has got all it has asked for
\* (broker_protocol.py:38-58).
LEMMA BeginningOfFrame ==
  ASSUME NEW m \in Message, BodyLen(m) \in Nat, NEW s, Begins(s, m)
  PROVE  /\ s # <<>> => s[1].msg = m /\ Magic(s)
         /\ HeaderRead(s) => Magic(s)
         /\ HeaderRead(s) => s # <<>> /\ Need(s) = HeaderLen + BodyLen(m)
         /\ Need(s) \in Nat /\ Need(s) <= HeaderLen + BodyLen(m)
         /\ FrameRead(s) => s # <<>> /\ s = Frame(m) /\ Intact(s)
         /\ s # <<>> /\ Intact(s) => s = Frame(m) /\ FrameRead(s)
<1>1. s \in Seq(Unit) /\ Len(s) \in Nat /\ HeaderLen \in Nat \ {0}
  BY ServiceAssumption DEF Begins
<1>2. s # <<>> => s[1].msg = m /\ Magic(s)
  <2> SUFFICES ASSUME s # <<>> PROVE s[1].msg = m /\ s[1].unit = 1
    BY DEF Magic
  <2>1. 1 \in 1..Len(s)
    BY <1>1
  <2>2. s[1] = [msg |-> m, unit |-> 1]
    BY <2>1 DEF Begins
  <2> QED
    BY <2>2
<1>3. HeaderRead(s) => s # <<>> /\ Len(s) >= HeaderLen
  BY <1>1 DEF HeaderRead
<1>4. HeaderRead(s) => Need(s) = HeaderLen + BodyLen(m)
  BY <1>2, <1>3 DEF Need
<1>5. ~HeaderRead(s) => Need(s) = HeaderLen
  BY DEF Need
<1>6. FrameRead(s) => s = Frame(m)
  <2> SUFFICES ASSUME FrameRead(s) PROVE s = Frame(m)
    OBVIOUS
  <2>1. Len(s) = HeaderLen + BodyLen(m)
    BY <1>4 DEF FrameRead
  <2>2. /\ Frame(m) \in Seq(Unit) /\ Len(Frame(m)) = Len(s)
        /\ \A i \in 1..Len(s) : Frame(m)[i] = s[i]
    BY <2>1, FrameBegins DEF Begins
  <2> QED
    BY <1>1, <2>2
<1>7. FrameRead(s) => s # <<>> /\ Intact(s)
  BY <1>2, <1>3, <1>6 DEF FrameRead, Intact
<1>8. s # <<>> /\ Intact(s) => s = Frame(m) /\ FrameRead(s)
  <2> SUFFICES ASSUME s # <<>>, Intact(s) PROVE s = Frame(m) /\ FrameRead(s)
    OBVIOUS
  <2>1. s = Frame(m)
    BY <1>2 DEF Intact
  <2>2. Len(s) = HeaderLen + BodyLen(m)
    BY <2>1, FrameBegins
  <2>3. HeaderRead(s)
    BY <1>1, <2>2 DEF HeaderRead
  <2> QED
    BY <1>4, <2>1, <2>2, <2>3 DEF FrameRead
<1> QED
  BY <1>1, <1>2, <1>3, <1>4, <1>5, <1>6, <1>7, <1>8

\* The elements of a concatenation.
LEMMA Joined ==
  ASSUME NEW U, NEW s \in Seq(U), NEW t \in Seq(U)
  PROVE  /\ s \o t \in Seq(U) /\ Len(s \o t) = Len(s) + Len(t)
         /\ Len(s) \in Nat /\ Len(t) \in Nat
         /\ \A i \in 1..Len(s) : (s \o t)[i] = s[i]
         /\ \A i \in Len(s) + 1 .. Len(s) + Len(t) : (s \o t)[i] = t[i - Len(s)]
OBVIOUS

\* A recv moves units from the stream to what is read.
LEMMA RecvMoves ==
  ASSUME NEW b \in Seq(Unit), NEW x \in Seq(Unit), NEW n \in 1..Len(x)
  PROVE  /\ b \o SubSeq(x, 1, n) \in Seq(Unit) /\ SubSeq(x, n + 1, Len(x)) \in Seq(Unit)
         /\ (b \o SubSeq(x, 1, n)) \o SubSeq(x, n + 1, Len(x)) = b \o x
         /\ Len(b \o SubSeq(x, 1, n)) = Len(b) + n
<1> DEFINE y == SubSeq(x, 1, n)
           z == SubSeq(x, n + 1, Len(x))
<1>1. Len(x) \in Nat /\ Len(b) \in Nat /\ n \in Nat /\ n <= Len(x)
  OBVIOUS
<1>2. y \in Seq(Unit) /\ Len(y) = n /\ \A i \in 1..n : y[i] = x[i]
  BY <1>1
<1>3. z \in Seq(Unit) /\ Len(z) = Len(x) - n /\ \A i \in 1..Len(x) - n : z[i] = x[n + i]
  BY <1>1
<1> HIDE DEF y, z
<1>5. (b \o y) \o z = b \o x
  <2>1. y \in Seq(Unit) /\ z \in Seq(Unit) /\ Len(y) = n /\ Len(z) = Len(x) - n
    BY <1>2, <1>3
  <2>2. \A s, t \in Seq(Unit) :
          /\ Len(s) \in Nat /\ s \o t \in Seq(Unit) /\ Len(s \o t) = Len(s) + Len(t)
          /\ \A i \in 1..Len(s) : (s \o t)[i] = s[i]
          /\ \A i \in Len(s) + 1 .. Len(s) + Len(t) : (s \o t)[i] = t[i - Len(s)]
    BY Joined
  <2>3. PICK w : w = b \o y
    OBVIOUS
  <2>4. PICK q : q = b \o x
    OBVIOUS
  <2>5. PICK p : p = w \o z
    OBVIOUS
  <2>6. /\ w \in Seq(Unit) /\ Len(w) = Len(b) + Len(y)
        /\ \A i \in 1..Len(b) : w[i] = b[i]
        /\ \A i \in Len(b) + 1 .. Len(b) + Len(y) : w[i] = y[i - Len(b)]
    BY <2>3, <2>2, <2>1, Zenon
  <2>7. /\ q \in Seq(Unit) /\ Len(q) = Len(b) + Len(x)
        /\ \A i \in 1..Len(b) : q[i] = b[i]
        /\ \A i \in Len(b) + 1 .. Len(b) + Len(x) : q[i] = x[i - Len(b)]
    BY <2>4, <2>2, Zenon
  <2>8. /\ p \in Seq(Unit) /\ Len(p) = Len(w) + Len(z)
        /\ \A i \in 1..Len(w) : p[i] = w[i]
        /\ \A i \in Len(w) + 1 .. Len(w) + Len(z) : p[i] = z[i - Len(w)]
    <3>1. w \in Seq(Unit)
      BY <2>6
    <3> QED
      BY <2>5, <2>2, <2>1, <3>1, Zenon
  <2>9. Len(w) = Len(b) + n /\ Len(p) = Len(b) + Len(x) /\ Len(z) = Len(x) - n
    BY <1>1, <2>6, <2>8, <2>1
  <2>10. ASSUME NEW i \in 1..Len(p) PROVE p[i] = q[i]
    <3>1. i \in 1..Len(b) + Len(x)
      BY <2>9
    <3>2. CASE i <= Len(b)
      <4>1. i \in 1..Len(b) /\ i \in 1..Len(w)
        BY <1>1, <2>9, <3>1, <3>2
      <4> QED
        BY <2>6, <2>7, <2>8, <4>1, Zenon
    <3>3. CASE i > Len(b) /\ i <= Len(b) + n
      <4>1. /\ i - Len(b) \in 1..n /\ i \in Len(b) + 1 .. Len(b) + Len(y)
            /\ i \in 1..Len(w) /\ i \in Len(b) + 1 .. Len(b) + Len(x)
        BY <1>1, <2>9, <2>1, <3>1, <3>3
      <4>2. p[i] = y[i - Len(b)] /\ q[i] = x[i - Len(b)]
        BY <2>6, <2>7, <2>8, <4>1, Zenon
      <4> QED
        BY <1>2, <4>1, <4>2, Zenon
    <3>4. CASE i > Len(b) + n
      <4>1. /\ i - Len(w) \in 1..Len(x) - n /\ n + (i - Len(w)) = i - Len(b)
            /\ i \in Len(w) + 1 .. Len(w) + Len(z)
            /\ i \in Len(b) + 1 .. Len(b) + Len(x)
        BY <1>1, <2>9, <3>1, <3>4
      <4>2. p[i] = z[i - Len(w)] /\ q[i] = x[i - Len(b)]
        BY <2>7, <2>8, <4>1, Zenon
      <4>3. z[i - Len(w)] = x[n + (i - Len(w))]
        BY <1>3, <4>1, Zenon
      <4> QED
        BY <4>1, <4>2, <4>3, Zenon
    <3> QED
      BY <1>1, <3>1, <3>2, <3>3, <3>4
  <2>11. p = q
    BY <2>7, <2>8, <2>10, <2>9, SeqEqual, Zenon
  <2> QED
    BY <2>11, <2>3, <2>4, <2>5, Zenon
<1>6. b \o y \in Seq(Unit) /\ Len(b \o y) = Len(b) + n
  BY <1>1, <1>2
<1> QED
  BY <1>3, <1>5, <1>6 DEF y, z

\* What a lost connection leaves of a stream.
LEMMA CutLeaves ==
  ASSUME NEW b \in Seq(Unit), NEW x \in Seq(Unit), NEW t \in Prefixes(x)
  PROVE  /\ t \in Seq(Unit)
         /\ \E n \in 0..Len(b \o x) : b \o t = SubSeq(b \o x, 1, n)
         /\ \A m : BodyLen(m) \in Nat /\ Begins(b \o x, m) => Begins(b \o t, m)
         /\ b \o x = <<>> => b \o t = <<>>
<1>1. PICK n \in 0..Len(x) : t = SubSeq(x, 1, n)
  BY DEF Prefixes
<1>2. Len(x) \in Nat /\ Len(b) \in Nat /\ n \in Nat /\ n <= Len(x)
  OBVIOUS
<1>3. t \in Seq(Unit) /\ Len(t) = n /\ \A i \in 1..n : t[i] = x[i]
  BY <1>1, <1>2
<1>4. b \o x \in Seq(Unit) /\ Len(b \o x) = Len(b) + Len(x)
  BY <1>2
<1>5. /\ SubSeq(b \o x, 1, Len(b) + n) \in Seq(Unit)
      /\ Len(SubSeq(b \o x, 1, Len(b) + n)) = Len(b) + n
      /\ \A i \in 1..Len(b) + n : SubSeq(b \o x, 1, Len(b) + n)[i] = (b \o x)[i]
  BY <1>2, <1>4
<1>6. /\ b \o t \in Seq(Unit) /\ Len(b \o t) = Len(b) + n
      /\ \A i \in 1..Len(b) + n : (b \o t)[i] = IF i <= Len(b) THEN b[i] ELSE t[i - Len(b)]
  BY <1>2, <1>3
<1>7. \A i \in 1..Len(b) + n : (b \o t)[i] = (b \o x)[i]
  BY <1>2, <1>3, <1>6
<1>8. b \o t = SubSeq(b \o x, 1, Len(b) + n)
  BY <1>5, <1>6, <1>7
<1>9. Len(b) + n \in 0..Len(b \o x)
  BY <1>2, <1>4
<1>10. ASSUME NEW m, BodyLen(m) \in Nat, Begins(b \o x, m) PROVE Begins(b \o t, m)
  <2> DEFINE k == Len(b) + n
  <2>1. k \in 0..Len(b \o x) /\ b \o t = SubSeq(b \o x, 1, k)
    BY <1>8, <1>9
  <2> HIDE DEF k
  <2>2. Begins(SubSeq(b \o x, 1, k), m)
    BY <1>10, <2>1, ShorterBegins
  <2> QED
    BY <2>1, <2>2
<1>11. b \o x = <<>> => b \o t = <<>>
  <2>1. b \o x = <<>> => Len(b) + n = 0
    BY <1>2, <1>4
  <2> QED
    BY <1>2, <1>6, <2>1
<1> QED
  BY <1>3, <1>8, <1>9, <1>10, <1>11

\* What has been read of a beginning is one, and all of it if it is a frame.
LEMMA ReadBegins ==
  ASSUME NEW b \in Seq(Unit), NEW x \in Seq(Unit), NEW m \in Message, BodyLen(m) \in Nat,
         Begins(b \o x, m)
  PROVE  /\ Begins(b, m)
         /\ FrameRead(b) => x = <<>> /\ b \o x = b
<1>1. Len(b) \in Nat /\ Len(x) \in Nat /\ HeaderLen + BodyLen(m) \in Nat
  BY ServiceAssumption
<1>2. /\ Len(b \o x) = Len(b) + Len(x)
      /\ \A i \in 1..Len(b) : (b \o x)[i] = b[i]
  BY <1>1
<1>3. Len(b) + Len(x) <= HeaderLen + BodyLen(m)
  BY <1>2 DEF Begins
<1>4. \A i \in 1..Len(b) : b[i] = [msg |-> m, unit |-> i]
  <2>1. \A i \in 1..Len(b) : i \in 1..Len(b \o x)
    BY <1>1, <1>2
  <2> QED
    BY <1>2, <2>1 DEF Begins
<1>5. Begins(b, m)
  BY <1>1, <1>3, <1>4 DEF Begins
<1>6. FrameRead(b) => Len(b) = HeaderLen + BodyLen(m)
  BY <1>5, BeginningOfFrame, FrameBegins
<1>7. FrameRead(b) => Len(x) = 0
  BY <1>1, <1>3, <1>6
<1>8. FrameRead(b) => x = <<>>
  BY <1>7
<1>9. b \o <<>> = b
  OBVIOUS
<1> QED
  BY <1>5, <1>8, <1>9

-----------------------------------------------------------------------------
(* The inductive invariant.                                                *)

\* What the client has not taken of what the broker has sent it.
Got(c) == buf.client[c] \o inbox.client[c]

\* The handler is in the lock.
Working == {"write", "renameChunk", "renameManifest", "renameSignature"}

\* The .part files.
PartFiles ==
  [chunks : [Indices -> Ciphertexts \cup {Absent, Garbled}],
   manifest : Manifests \cup {Absent, Garbled},
   signature : Manifests \cup {Absent, Garbled}]

\* The types of the variables.
ServiceTypes ==
  /\ files \in Files
  /\ tmp \in PartFiles
  /\ lock \in Connections \cup {Absent}
  /\ replaced \in Manifests \cup {Absent}
  /\ handler \in [Connections -> {"off", "read", "reply"} \cup Working]
  /\ client \in [Connections -> {"new", "idle", "waiting", "gone"}]
  /\ req \in [Connections -> Requests \cup {Absent}]
  /\ got \in [Connections -> Answers \cup {Absent}]
  /\ served \in [Connections -> Answers \cup {Absent}]
  /\ link \in [Connections -> {"none", "up", "down"}]
  /\ inbox \in [Ends -> [Connections -> Stream]]
  /\ buf \in [Ends -> [Connections -> Stream]]
  /\ calls \in 0..MaxCalls

\* A connection stands as long as both ends hold it.
LinkStands(c) ==
  /\ link[c] = "up" => handler[c] # "off" /\ client[c] \in {"idle", "waiting"}
  /\ client[c] = "new" => handler[c] = "off"

\* On its way to the broker is a beginning of one request, of the client that
\* waits for the answer or that has gone.
Asked(c) ==
  /\ client[c] \in {"new", "idle"} \/ handler[c] = "off" => Sent(c) = <<>>
  /\ client[c] = "waiting" => req[c] \in Requests /\ Begins(Sent(c), req[c])
  /\ client[c] = "gone" /\ Sent(c) # <<>> => \E r \in Requests : Begins(Sent(c), r)

\* A request is carried out from a whole frame, and once.
Served(c) ==
  /\ handler[c] \in Working \cup {"reply"} => FrameRead(buf.server[c])
  /\ handler[c] = "reply" => CanFrame(Body(c), served[c])
  /\ client[c] = "waiting" /\ served[c] # Absent => handler[c] = "reply" \/ Sent(c) = <<>>

\* On its way to the client is a beginning of the answer it waits for.
Answered(c) ==
  Got(c) # <<>> =>
    /\ client[c] = "waiting" /\ Sent(c) = <<>> /\ handler[c] \in {"off", "read"}
    /\ CanFrame(req[c], served[c])
    /\ BodyLen(Response(req[c], served[c])) <= MaxBody
    /\ Begins(Got(c), Response(req[c], served[c]))

\* The lock is held exactly by the handler that is in it.
LockHeld(c) == lock = c <=> handler[c] \in Working

\* What that handler has done of its request.
Progress(c) ==
  /\ handler[c] \in Working => Writes(Body(c))
  /\ handler[c] = "renameChunk" =>
       Body(c).cmd = "PUT_CHUNK" /\ tmp.chunks[Body(c).index] = Body(c).data
  /\ handler[c] = "renameManifest" =>
       /\ Body(c).cmd = "PUT_MANIFEST"
       /\ tmp.manifest = Body(c).data /\ tmp.signature = Body(c).data
  /\ handler[c] = "renameSignature" =>
       /\ Body(c).cmd = "PUT_MANIFEST"
       /\ files.manifest = Body(c).data /\ tmp.signature = Body(c).data

\* What one connection carries, and both of its ends.
Conversation(c) == LinkStands(c) /\ Asked(c) /\ Served(c) /\ Answered(c)

\* The inductive invariant.
ServiceInv ==
  /\ ServiceTypes
  /\ \A c \in Connections : Conversation(c) /\ LockHeld(c) /\ Progress(c)

-----------------------------------------------------------------------------
(* What the invariant says of one connection.                              *)

\* The streams of a connection.
LEMMA Streams ==
  ASSUME ServiceTypes, NEW c \in Connections
  PROVE  /\ buf.server[c] \in Seq(Unit) /\ inbox.server[c] \in Seq(Unit)
         /\ buf.client[c] \in Seq(Unit) /\ inbox.client[c] \in Seq(Unit)
         /\ Sent(c) \in Seq(Unit) /\ Got(c) \in Seq(Unit)
<1>1. /\ buf.server[c] \in Seq(Unit) /\ inbox.server[c] \in Seq(Unit)
      /\ buf.client[c] \in Seq(Unit) /\ inbox.client[c] \in Seq(Unit)
  BY DEF ServiceTypes, Ends, Stream
<1> QED
  BY <1>1 DEF Sent, Got

\* The request that is on its way on a connection.
LEMMA OnTheWay ==
  ASSUME ServiceTypes, NEW c \in Connections, Asked(c), Sent(c) # <<>>
  PROVE  /\ client[c] \in {"waiting", "gone"} /\ handler[c] # "off"
         /\ \E r \in Requests :
              /\ r \in Message /\ BodyLen(r) \in Nat /\ BodyLen(r) <= MaxBody
              /\ Begins(Sent(c), r) /\ Sent(c)[1].msg = r
              /\ client[c] = "waiting" => req[c] = r
<1>1. client[c] \in {"new", "idle", "waiting", "gone"}
  BY DEF ServiceTypes
<1>2. client[c] \in {"waiting", "gone"} /\ handler[c] # "off"
  BY <1>1 DEF Asked
<1>3. PICK r \in Requests : Begins(Sent(c), r) /\ (client[c] = "waiting" => req[c] = r)
  BY <1>2 DEF Asked
<1>4. r \in Message /\ BodyLen(r) \in Nat /\ BodyLen(r) <= MaxBody
  BY RequestFields DEF Message
<1>5. Sent(c)[1].msg = r
  BY <1>3, <1>4, BeginningOfFrame
<1> QED
  BY <1>2, <1>3, <1>4, <1>5

\* When the frame of a request has been read nothing else is on its way: it is
\* the request of the client, if that has not gone.
LEMMA WholeRequest ==
  ASSUME ServiceTypes, NEW c \in Connections, Asked(c), FrameRead(buf.server[c])
  PROVE  /\ Body(c) \in Requests /\ Body(c) \in Message
         /\ BodyLen(Body(c)) \in Nat /\ BodyLen(Body(c)) <= MaxBody
         /\ buf.server[c] = Frame(Body(c)) /\ inbox.server[c] = <<>>
         /\ Sent(c) = buf.server[c] /\ Sent(c) # <<>>
         /\ Sent(c)[1].msg = Body(c)
         /\ Intact(buf.server[c]) /\ Magic(buf.server[c])
         /\ client[c] \in {"waiting", "gone"} /\ handler[c] # "off"
         /\ client[c] = "waiting" => req[c] = Body(c)
<1>1. /\ buf.server[c] \in Seq(Unit) /\ inbox.server[c] \in Seq(Unit)
      /\ Sent(c) = buf.server[c] \o inbox.server[c]
  BY Streams DEF Sent
<1>2. Len(buf.server[c]) \in Nat \ {0}
  BY <1>1, ServiceAssumption DEF FrameRead, HeaderRead
<1>3. Sent(c) # <<>>
  BY <1>1, <1>2
<1>4. PICK r \in Requests :
         /\ r \in Message /\ BodyLen(r) \in Nat /\ BodyLen(r) <= MaxBody
         /\ Begins(Sent(c), r) /\ Sent(c)[1].msg = r
         /\ client[c] = "waiting" => req[c] = r
  BY <1>3, OnTheWay
<1>5. Begins(buf.server[c], r) /\ inbox.server[c] = <<>> /\ Sent(c) = buf.server[c]
  BY <1>1, <1>4, ReadBegins
<1>6. /\ buf.server[c] = Frame(r) /\ Intact(buf.server[c])
      /\ buf.server[c][1].msg = r /\ Magic(buf.server[c])
  BY <1>4, <1>5, BeginningOfFrame
<1>7. Body(c) = r
  BY <1>6 DEF Body
<1> QED
  BY <1>3, <1>4, <1>5, <1>6, <1>7, OnTheWay

-----------------------------------------------------------------------------
(* A step of one connection.                                               *)

\* Connection d stays as it is.
Same(d) ==
  /\ handler'[d] = handler[d] /\ client'[d] = client[d] /\ req'[d] = req[d]
  /\ got'[d] = got[d] /\ served'[d] = served[d] /\ link'[d] = link[d]
  /\ inbox'.server[d] = inbox.server[d] /\ inbox'.client[d] = inbox.client[d]
  /\ buf'.server[d] = buf.server[d] /\ buf'.client[d] = buf.client[d]

\* So does what is said about it.
LEMMA SameConversation ==
  ASSUME NEW d, Same(d)
  PROVE  /\ Sent(d)' = Sent(d) /\ Got(d)' = Got(d) /\ Body(d)' = Body(d)
         /\ Conversation(d) => Conversation(d)'
<1>1. Sent(d)' = Sent(d) /\ Got(d)' = Got(d) /\ Body(d)' = Body(d)
  BY DEF Same, Sent, Got, Body
<1>2. LinkStands(d) => LinkStands(d)'
  BY DEF Same, LinkStands
<1>3. Asked(d) => Asked(d)'
  BY <1>1 DEF Same, Asked
<1>4. Served(d) => Served(d)'
  BY <1>1 DEF Same, Served
<1>5. Answered(d) => Answered(d)'
  BY <1>1 DEF Same, Answered
<1> QED
  BY <1>1, <1>2, <1>3, <1>4, <1>5 DEF Conversation

\* A step of one connection only disturbs the others by way of the lock and
\* the files, and the files only if it holds the lock.
LEMMA StepKeeps ==
  ASSUME ServiceInv, ServiceTypes', NEW c \in Connections,
         \A d \in Connections \ {c} : Same(d),
         Conversation(c)', LockHeld(c)', Progress(c)',
         lock' = lock \/ {lock, lock'} \subseteq {c, Absent},
         UNCHANGED <<files, tmp>> \/ lock = c
  PROVE  ServiceInv'
<1>1. ASSUME NEW d \in Connections \ {c}
      PROVE  Conversation(d)' /\ LockHeld(d)' /\ Progress(d)'
  <2>1. Conversation(d) /\ LockHeld(d) /\ Progress(d) /\ Same(d) /\ d # c /\ d # Absent
    BY ServiceAssumption DEF ServiceInv
  <2>2. Conversation(d)' /\ Body(d)' = Body(d) /\ handler'[d] = handler[d]
    BY <2>1, SameConversation DEF Same
  <2>3. lock' = d <=> lock = d
    BY <2>1
  <2>4. LockHeld(d)'
    BY <2>1, <2>2, <2>3 DEF LockHeld
  <2>5. CASE UNCHANGED <<files, tmp>>
    BY <2>1, <2>2, <2>4, <2>5 DEF Progress
  <2>6. CASE lock = c
    <3>1. handler'[d] \notin Working
      BY <2>1, <2>2, <2>6 DEF LockHeld
    <3> QED
      BY <2>2, <2>4, <3>1 DEF Progress, Working
  <2> QED
    BY <2>2, <2>4, <2>5, <2>6
<1> QED
  BY <1>1 DEF ServiceInv

\* What ServiceInv says of one connection.
LEMMA OfConnection ==
  ASSUME ServiceInv, NEW c \in Connections
  PROVE  /\ ServiceTypes /\ LinkStands(c) /\ Asked(c) /\ Served(c) /\ Answered(c)
         /\ LockHeld(c) /\ Progress(c)
BY DEF ServiceInv, Conversation

\* Units are read, in a piece of any size (broker_protocol.py:38-45).
LEMMA RecvEffect ==
  ASSUME ServiceTypes, NEW c \in Connections, NEW e \in Ends, Recv(c, e)
  PROVE  /\ ServiceTypes' /\ \A d \in Connections \ {c} : Same(d)
         /\ UNCHANGED <<files, tmp, lock, replaced, handler, client, req, got, served, link>>
         /\ Sent(c)' = Sent(c) /\ Got(c)' = Got(c)
         /\ buf'.server[c] = buf.server[c] \/ handler[c] = "read"
<1> DEFINE b == buf[e][c]
           x == inbox[e][c]
<1>1. b \in Seq(Unit) /\ x \in Seq(Unit)
  BY DEF ServiceTypes, Stream
<1>2. PICK n \in 1..Len(x) :
         /\ buf' = [buf EXCEPT ![e][c] = b \o SubSeq(x, 1, n)]
         /\ inbox' = [inbox EXCEPT ![e][c] = SubSeq(x, n + 1, Len(x))]
  BY DEF Recv
<1> DEFINE b2 == b \o SubSeq(x, 1, n)
           x2 == SubSeq(x, n + 1, Len(x))
<1>3. b2 \in Stream /\ x2 \in Stream /\ b2 \o x2 = b \o x
  BY <1>1, RecvMoves DEF Stream
<1>4. /\ buf' = [buf EXCEPT ![e][c] = b2]
      /\ inbox' = [inbox EXCEPT ![e][c] = x2]
      /\ UNCHANGED <<files, tmp, lock, replaced, handler, client, req, got, served, link, calls>>
      /\ e = "server" => handler[c] = "read"
  BY <1>2 DEF Recv
<1>5. b = buf[e][c] /\ x = inbox[e][c]
  OBVIOUS
<1> HIDE DEF b, x, b2, x2
<1>6. /\ buf'[e][c] = b2 /\ inbox'[e][c] = x2
      /\ \A f \in Ends, d \in Connections :
           f # e \/ d # c => buf'[f][d] = buf[f][d] /\ inbox'[f][d] = inbox[f][d]
      /\ buf' \in [Ends -> [Connections -> Stream]]
      /\ inbox' \in [Ends -> [Connections -> Stream]]
  BY <1>3, <1>4 DEF ServiceTypes
<1>7. ServiceTypes'
  BY <1>4, <1>6 DEF ServiceTypes
<1>8. \A d \in Connections \ {c} : Same(d)
  BY <1>4, <1>6 DEF Same, Ends
<1>9. CASE e = "server"
  BY <1>3, <1>4, <1>5, <1>6, <1>7, <1>8, <1>9 DEF Sent, Got, Ends
<1>10. CASE e = "client"
  BY <1>3, <1>4, <1>5, <1>6, <1>7, <1>8, <1>10 DEF Sent, Got, Ends
<1> QED
  BY <1>9, <1>10 DEF Ends

\* Nothing that has been said changes.
LEMMA RecvInv ==
  ASSUME ServiceInv, NEW c \in Connections, NEW e \in Ends, Recv(c, e)
  PROVE  ServiceInv'
<1>1. /\ ServiceTypes /\ LinkStands(c) /\ Asked(c) /\ Served(c) /\ Answered(c)
      /\ LockHeld(c) /\ Progress(c)
  BY OfConnection
<1>2. /\ ServiceTypes' /\ \A d \in Connections \ {c} : Same(d)
      /\ UNCHANGED <<files, tmp, lock, replaced, handler, client, req, got, served, link>>
      /\ Sent(c)' = Sent(c) /\ Got(c)' = Got(c)
      /\ buf'.server[c] = buf.server[c] \/ handler[c] = "read"
  BY <1>1, RecvEffect
<1>3. Body(c)' = Body(c) \/ handler[c] = "read"
  BY <1>2 DEF Body
<1>4. LinkStands(c)' /\ Asked(c)' /\ Answered(c)' /\ LockHeld(c)'
  BY <1>1, <1>2 DEF LinkStands, Asked, Answered, LockHeld
<1>5. Served(c)' /\ Progress(c)'
  BY <1>1, <1>2, <1>3 DEF Served, Progress, Working
<1> QED
  BY <1>2, <1>4, <1>5, StepKeeps DEF Conversation

-----------------------------------------------------------------------------
(* The client.                                                             *)

\* A handler that has a request to answer has got it from its client.
LEMMA HandlerReads ==
  ASSUME ServiceInv, NEW c \in Connections, Sent(c) = <<>>, handler[c] # "off"
  PROVE  handler[c] = "read"
<1>1. ServiceTypes /\ Asked(c) /\ Served(c)
  BY OfConnection
<1>2. ~FrameRead(buf.server[c])
  BY <1>1, WholeRequest
<1> QED
  BY <1>1, <1>2 DEF Served, ServiceTypes

\* What is on its way to the client, once its frame is read.
LEMMA WholeAnswer ==
  ASSUME ServiceInv, NEW c \in Connections, Got(c) # <<>>
  PROVE  /\ client[c] = "waiting" /\ served[c] \in Answers /\ served[c] # Absent
         /\ HeaderRead(buf.client[c]) => Magic(buf.client[c])
         /\ FrameRead(buf.client[c]) =>
              /\ Intact(buf.client[c]) /\ inbox.client[c] = <<>>
              /\ buf.client[c][1].msg = Response(req[c], served[c])
<1> DEFINE m == Response(req[c], served[c])
<1>1. /\ ServiceTypes /\ Asked(c) /\ client[c] = "waiting"
      /\ CanFrame(req[c], served[c]) /\ Begins(Got(c), m)
  BY OfConnection DEF Answered
<1>2. m \in Message /\ BodyLen(m) \in Nat /\ served[c] \in Answers /\ served[c] # Absent
  BY <1>1 DEF CanFrame, Message, Asked
<1>3. /\ buf.client[c] \in Seq(Unit) /\ inbox.client[c] \in Seq(Unit)
      /\ Got(c) = buf.client[c] \o inbox.client[c]
  BY <1>1, Streams DEF Got
<1> HIDE DEF m
<1>4. Begins(buf.client[c], m) /\ (FrameRead(buf.client[c]) => inbox.client[c] = <<>>)
  BY <1>1, <1>2, <1>3, ReadBegins
<1>5. /\ HeaderRead(buf.client[c]) => Magic(buf.client[c])
      /\ FrameRead(buf.client[c]) => Intact(buf.client[c]) /\ buf.client[c][1].msg = m
  BY <1>2, <1>4, BeginningOfFrame
<1> QED
  BY <1>1, <1>2, <1>4, <1>5 DEF m

\* An end that has read something has got something.
LEMMA ReadIsGot ==
  ASSUME ServiceTypes, NEW c \in Connections
  PROVE  /\ FrameRead(buf.client[c]) \/ HeaderRead(buf.client[c]) => Got(c) # <<>>
         /\ FrameRead(buf.server[c]) \/ HeaderRead(buf.server[c]) => Sent(c) # <<>>
         /\ Got(c) = <<>> <=> buf.client[c] = <<>> /\ inbox.client[c] = <<>>
         /\ Sent(c) = <<>> <=> buf.server[c] = <<>> /\ inbox.server[c] = <<>>
<1>1. /\ buf.client[c] \in Seq(Unit) /\ inbox.client[c] \in Seq(Unit)
      /\ buf.server[c] \in Seq(Unit) /\ inbox.server[c] \in Seq(Unit)
  BY Streams
<1>2. \A b \in Seq(Unit) : FrameRead(b) \/ HeaderRead(b) => b # <<>>
  BY ServiceAssumption DEF FrameRead, HeaderRead
<1>3. \A b, x \in Seq(Unit) : b \o x = <<>> <=> b = <<>> /\ x = <<>>
  BY ConcatEqualIffEmpty, ConcatSimplifications
<1> QED
  BY <1>1, <1>2, <1>3 DEF Got, Sent

\* A client that has not been here before (sender_encrypt_upload.py:42-57).
LEMMA ConnectInv == ASSUME ServiceInv, NEW c \in Connections, Connect(c) PROVE ServiceInv'
<1>1. /\ ServiceTypes /\ LinkStands(c) /\ Asked(c) /\ Answered(c) /\ LockHeld(c)
  BY OfConnection
<1>2. /\ client[c] = "new" /\ client'[c] = "idle" /\ handler'[c] = "read" /\ link'[c] = "up"
      /\ UNCHANGED <<files, tmp, lock, replaced, req, got, served, inbox, buf, calls>>
  BY <1>1 DEF Connect, ends, ServiceTypes
<1>3. ServiceTypes'
  BY <1>1, <1>2 DEF Connect, ServiceTypes
<1>4. \A d \in Connections \ {c} : Same(d)
  BY <1>1, <1>2 DEF Connect, ServiceTypes, Same
<1>5. Sent(c)' = <<>> /\ Got(c)' = <<>>
  BY <1>1, <1>2 DEF Asked, Answered, Sent, Got
<1>6. handler[c] = "off"
  BY <1>1, <1>2 DEF LinkStands
<1>7. LinkStands(c)' /\ Asked(c)' /\ Served(c)' /\ Answered(c)' /\ LockHeld(c)' /\ Progress(c)'
  BY <1>1, <1>2, <1>5, <1>6
  DEF LinkStands, Asked, Served, Answered, LockHeld, Progress, Working
<1> QED
  BY <1>2, <1>3, <1>4, <1>7, StepKeeps DEF Conversation

\* A call (broker_client.py:25-26).
LEMMA SendEffect ==
  ASSUME ServiceInv, NEW c \in Connections, Send(c)
  PROVE  /\ ServiceTypes' /\ \A d \in Connections \ {c} : Same(d)
         /\ client[c] = "idle" /\ handler[c] = "read" /\ link[c] = "up"
         /\ UNCHANGED <<files, tmp, lock, replaced, handler, link, buf>>
         /\ client'[c] = "waiting" /\ served'[c] = Absent /\ got'[c] = Absent
         /\ req'[c] \in Requests /\ Sent(c)' = Frame(req'[c]) /\ Got(c)' = <<>>
<1>1. /\ ServiceTypes /\ LinkStands(c) /\ Asked(c) /\ Answered(c)
  BY OfConnection
<1>2. PICK r \in Requests :
         /\ req' = [req EXCEPT ![c] = r]
         /\ inbox' = [inbox EXCEPT !.server[c] = Frame(r)]
  BY DEF Send
<1>3. /\ client[c] = "idle" /\ link[c] = "up" /\ calls < MaxCalls /\ calls' = calls + 1
      /\ client' = [client EXCEPT ![c] = "waiting"]
      /\ got' = [got EXCEPT ![c] = Absent]
      /\ served' = [served EXCEPT ![c] = Absent]
      /\ UNCHANGED <<files, tmp, lock, replaced, handler, link, buf>>
  BY DEF Send
<1>4. r \in Message /\ BodyLen(r) \in Nat
  BY RequestFields DEF Message
<1>5. Frame(r) \in Seq(Unit) /\ Frame(r) \in Stream
  BY <1>4, FrameBegins DEF Begins, Stream
<1>6. /\ inbox' \in [Ends -> [Connections -> Stream]]
      /\ inbox'.server[c] = Frame(r) /\ inbox'.client = inbox.client
      /\ \A d \in Connections \ {c} : inbox'.server[d] = inbox.server[d]
  BY <1>1, <1>2, <1>5 DEF ServiceTypes, Ends
<1>7. calls' \in 0..MaxCalls
  BY <1>1, <1>3, ServiceAssumption DEF ServiceTypes
<1>8. ServiceTypes'
  BY <1>1, <1>2, <1>3, <1>6, <1>7 DEF ServiceTypes
<1>9. \A d \in Connections \ {c} : Same(d)
  BY <1>1, <1>2, <1>3, <1>6 DEF ServiceTypes, Same
<1>10. Sent(c) = <<>> /\ Got(c) = <<>>
  BY <1>1, <1>3 DEF Asked, Answered
<1>11. handler[c] = "read"
  BY <1>1, <1>3, <1>10, HandlerReads DEF LinkStands
<1>12. Sent(c)' = Frame(r) /\ Got(c)' = <<>>
  <2>1. buf.server[c] = <<>> /\ buf.client[c] = <<>> /\ inbox.client[c] = <<>>
    BY <1>1, <1>10, ReadIsGot
  <2>2. /\ Sent(c)' = buf'.server[c] \o inbox'.server[c]
        /\ Got(c)' = buf'.client[c] \o inbox'.client[c]
    BY DEF Sent, Got
  <2>3. <<>> \o Frame(r) = Frame(r) /\ <<>> \o <<>> = <<>>
    BY <1>5, ConcatEmptySeq
  <2> QED
    BY <1>3, <1>6, <2>1, <2>2, <2>3
<1>13. /\ req'[c] = r /\ client'[c] = "waiting" /\ served'[c] = Absent /\ got'[c] = Absent
  BY <1>1, <1>2, <1>3 DEF ServiceTypes
<1> QED
  BY <1>3, <1>8, <1>9, <1>11, <1>12, <1>13

\* The frame of a request goes out, on a connection that carries nothing.
LEMMA SendInv == ASSUME ServiceInv, NEW c \in Connections, Send(c) PROVE ServiceInv'
<1>1. /\ ServiceTypes' /\ \A d \in Connections \ {c} : Same(d)
      /\ client[c] = "idle" /\ handler[c] = "read" /\ link[c] = "up"
      /\ UNCHANGED <<files, tmp, lock, replaced, handler, link, buf>>
      /\ client'[c] = "waiting" /\ served'[c] = Absent /\ got'[c] = Absent
      /\ req'[c] \in Requests /\ Sent(c)' = Frame(req'[c]) /\ Got(c)' = <<>>
  BY SendEffect
<1>2. Begins(Frame(req'[c]), req'[c])
  BY <1>1, RequestFields, FrameBegins DEF Message
<1>3. LinkStands(c)' /\ Asked(c)' /\ Answered(c)'
  BY <1>1, <1>2 DEF LinkStands, Asked, Answered
<1>4. Served(c)' /\ Progress(c)'
  BY <1>1 DEF Served, Progress, Working
<1>5. LockHeld(c)'
  BY <1>1, OfConnection DEF LockHeld
<1> QED
  BY <1>1, <1>3, <1>4, <1>5, StepKeeps DEF Conversation

\* The answer is taken (broker_client.py:27-33).
LEMMA ReturnInv == ASSUME ServiceInv, NEW c \in Connections, Return(c) PROVE ServiceInv'
<1>1. /\ ServiceTypes /\ LinkStands(c) /\ Asked(c) /\ Answered(c) /\ LockHeld(c)
  BY OfConnection
<1>2. /\ client[c] = "waiting" /\ FrameRead(buf.client[c])
      /\ got' = [got EXCEPT ![c] = buf.client[c][1].msg.answer]
      /\ client' = [client EXCEPT ![c] = "idle"]
      /\ buf' = [buf EXCEPT !.client[c] = <<>>]
      /\ UNCHANGED <<files, tmp, lock, replaced, handler, req, served, link, inbox, calls>>
  BY DEF Return
<1>3. Got(c) # <<>>
  BY <1>1, <1>2, ReadIsGot
<1>4. /\ served[c] \in Answers /\ inbox.client[c] = <<>>
      /\ buf.client[c][1].msg = Response(req[c], served[c])
  BY <1>2, <1>3, WholeAnswer
<1>5. got' = [got EXCEPT ![c] = served[c]]
  BY <1>2, <1>4 DEF Response
<1>6. /\ buf' \in [Ends -> [Connections -> Stream]]
      /\ buf'.client[c] = <<>> /\ buf'.server = buf.server
      /\ \A d \in Connections \ {c} : buf'.client[d] = buf.client[d]
  BY <1>1, <1>2, NoUnits DEF ServiceTypes, Ends
<1>7. ServiceTypes'
  BY <1>1, <1>2, <1>4, <1>5, <1>6 DEF ServiceTypes
<1>8. \A d \in Connections \ {c} : Same(d)
  BY <1>1, <1>2, <1>5, <1>6 DEF ServiceTypes, Same
<1>9. Sent(c)' = <<>> /\ Sent(c) = <<>> /\ Got(c)' = <<>> /\ handler[c] \in {"off", "read"}
  BY <1>1, <1>2, <1>3, <1>4, <1>6 DEF Answered, Sent, Got
<1>10. client'[c] = "idle" /\ handler' = handler /\ link' = link /\ lock' = lock
  BY <1>1, <1>2 DEF ServiceTypes
<1>11. LinkStands(c)' /\ Asked(c)' /\ Answered(c)' /\ LockHeld(c)'
  BY <1>1, <1>2, <1>9, <1>10 DEF LinkStands, Asked, Answered, LockHeld
<1>12. Served(c)' /\ Progress(c)'
  BY <1>9, <1>10 DEF Served, Progress, Working
<1> QED
  BY <1>2, <1>7, <1>8, <1>11, <1>12, StepKeeps DEF Conversation

\* The client has gone, perhaps with the end of what it has sent.
Left(c) ==
  /\ \A d \in Connections \ {c} : Same(d)
  /\ UNCHANGED <<files, replaced, handler, served>>
  /\ client'[c] = "gone"
  /\ Sent(c) = <<>> => Sent(c)' = <<>>
  /\ \A m : BodyLen(m) \in Nat /\ Begins(Sent(c), m) => Begins(Sent(c)', m)

\* A client that leaves may take the end of what it has sent with it.
LEMMA LeavesInv ==
  ASSUME ServiceInv, NEW c \in Connections, client[c] \in {"idle", "waiting"},
         ClientGone(c, "down"),
         NEW s \in Prefixes(inbox.server[c]),
         inbox' = [inbox EXCEPT !.server[c] = s, !.client[c] = <<>>],
         buf' = [buf EXCEPT !.client[c] = <<>>]
  PROVE  ServiceInv' /\ Left(c)
<1>1. /\ ServiceTypes /\ LinkStands(c) /\ Asked(c) /\ Served(c) /\ LockHeld(c) /\ Progress(c)
  BY OfConnection
<1>2. /\ client' = [client EXCEPT ![c] = "gone"]
      /\ req' = [req EXCEPT ![c] = Absent]
      /\ got' = [got EXCEPT ![c] = Absent]
      /\ link' = [link EXCEPT ![c] = IF link[c] = "up" THEN "down" ELSE link[c]]
      /\ UNCHANGED <<files, tmp, lock, replaced, handler, served, calls>>
  BY DEF ClientGone
<1>3. /\ buf.server[c] \in Seq(Unit) /\ inbox.server[c] \in Seq(Unit)
      /\ Sent(c) = buf.server[c] \o inbox.server[c]
  BY <1>1, Streams DEF Sent
<1>4. /\ s \in Stream
      /\ \A m : BodyLen(m) \in Nat /\ Begins(Sent(c), m) => Begins(buf.server[c] \o s, m)
      /\ Sent(c) = <<>> => buf.server[c] \o s = <<>>
  <2> DEFINE b == buf.server[c]
             x == inbox.server[c]
  <2>1. b \in Seq(Unit) /\ x \in Seq(Unit) /\ s \in Prefixes(x)
    BY <1>3
  <2>2. Sent(c) = b \o x
    BY <1>3
  <2> HIDE DEF b, x
  <2>3. /\ s \in Seq(Unit)
        /\ \A m : BodyLen(m) \in Nat /\ Begins(b \o x, m) => Begins(b \o s, m)
        /\ b \o x = <<>> => b \o s = <<>>
    BY <2>1, CutLeaves
  <2> QED
    BY <2>2, <2>3 DEF b, x, Stream
<1>5. /\ inbox' \in [Ends -> [Connections -> Stream]]
      /\ inbox'.server[c] = s /\ inbox'.client[c] = <<>>
      /\ \A d \in Connections \ {c} :
           inbox'.server[d] = inbox.server[d] /\ inbox'.client[d] = inbox.client[d]
  BY <1>1, <1>4, NoUnits DEF ServiceTypes, Ends
<1>6. /\ buf' \in [Ends -> [Connections -> Stream]]
      /\ buf'.client[c] = <<>> /\ buf'.server = buf.server
      /\ \A d \in Connections \ {c} : buf'.client[d] = buf.client[d]
  BY <1>1, NoUnits DEF ServiceTypes, Ends
<1>7. ServiceTypes'
  BY <1>1, <1>2, <1>5, <1>6 DEF ServiceTypes
<1>8. \A d \in Connections \ {c} : Same(d)
  BY <1>1, <1>2, <1>5, <1>6 DEF ServiceTypes, Same
<1>9. Sent(c)' = buf.server[c] \o s /\ Got(c)' = <<>> /\ Body(c)' = Body(c)
  <2>1. Sent(c)' = buf'.server[c] \o inbox'.server[c]
    BY DEF Sent
  <2>2. Got(c)' = buf'.client[c] \o inbox'.client[c] /\ <<>> \o <<>> = <<>>
    BY DEF Got
  <2>3. Body(c)' = Body(c)
    BY <1>6 DEF Body
  <2> QED
    BY <1>5, <1>6, <2>1, <2>2, <2>3
<1>10. /\ client'[c] = "gone" /\ link'[c] # "up" /\ buf'.server[c] = buf.server[c]
       /\ UNCHANGED <<files, tmp, lock, handler, served>>
  BY <1>1, <1>2, <1>6 DEF ServiceTypes
<1>11. LinkStands(c)' /\ Answered(c)' /\ LockHeld(c)'
  BY <1>1, <1>9, <1>10 DEF LinkStands, Answered, LockHeld
<1>12. Asked(c)'
  <2>1. ASSUME Sent(c)' # <<>> PROVE handler'[c] # "off" /\ \E r \in Requests : Begins(Sent(c)', r)
    <3>1. Sent(c) # <<>>
      BY <1>4, <1>9, <2>1
    <3>2. handler[c] # "off" /\ \E r \in Requests : BodyLen(r) \in Nat /\ Begins(Sent(c), r)
      BY <1>1, <3>1, OnTheWay
    <3> QED
      BY <1>4, <1>9, <1>10, <3>2
  <2> QED
    BY <1>10, <2>1 DEF Asked
<1>13. Served(c)' /\ Progress(c)'
  BY <1>1, <1>9, <1>10 DEF Served, Progress
<1>14. Left(c)
  BY <1>2, <1>4, <1>8, <1>9, <1>10 DEF Left
<1>15. ServiceInv'
  BY <1>7, <1>8, <1>10, <1>11, <1>12, <1>13, StepKeeps DEF Conversation
<1> QED
  BY <1>14, <1>15

\* A client that closes its socket leaves what it has sent to the broker.
LEMMA ClosesInv ==
  ASSUME ServiceInv, NEW c \in Connections, client[c] \in {"idle", "waiting"},
         ClientGone(c, "down"), Close("client", c)
  PROVE  ServiceInv' /\ Left(c)
<1>1. inbox \in [Ends -> [Connections -> Stream]]
  BY OfConnection DEF ServiceTypes
<1>2. inbox.server[c] \in Prefixes(inbox.server[c])
  <2>1. inbox.server[c] \in Seq(Unit)
    BY <1>1 DEF Ends, Stream
  <2>2. /\ Len(inbox.server[c]) \in 0..Len(inbox.server[c])
        /\ SubSeq(inbox.server[c], 1, Len(inbox.server[c])) = inbox.server[c]
    BY <2>1
  <2> QED
    BY <2>2 DEF Prefixes
<1>3. /\ inbox' = [inbox EXCEPT !.server[c] = inbox.server[c], !.client[c] = <<>>]
      /\ buf' = [buf EXCEPT !.client[c] = <<>>]
  BY <1>1 DEF Close, Ends
<1> QED
  BY <1>2, <1>3, LeavesInv

\* The next frame cannot be read only when the other end has gone, or the
\* connection has been lost: what is there begins a frame.
LEMMA ReadsUntilTheEnd ==
  ASSUME ServiceInv, NEW c \in Connections
  PROVE  /\ CannotRead(c, "client") => link[c] # "up"
         /\ CannotRead(c, "server") => link[c] # "up"
         /\ FrameRead(buf.client[c]) => Intact(buf.client[c])
<1>1. ServiceTypes /\ Asked(c)
  BY OfConnection
<1>2. HeaderRead(buf.client[c]) => Magic(buf.client[c])
  BY <1>1, ReadIsGot, WholeAnswer
<1>3. FrameRead(buf.client[c]) => Intact(buf.client[c])
  BY <1>1, ReadIsGot, WholeAnswer
<1>4. HeaderRead(buf.server[c]) => Magic(buf.server[c])
  <2> SUFFICES ASSUME HeaderRead(buf.server[c]) PROVE Magic(buf.server[c])
    OBVIOUS
  <2>1. Sent(c) # <<>>
    BY <1>1, ReadIsGot
  <2>2. PICK r \in Requests : r \in Message /\ BodyLen(r) \in Nat /\ Begins(Sent(c), r)
    BY <1>1, <2>1, OnTheWay
  <2>3. /\ buf.server[c] \in Seq(Unit) /\ inbox.server[c] \in Seq(Unit)
        /\ Sent(c) = buf.server[c] \o inbox.server[c]
    BY <1>1, Streams DEF Sent
  <2>4. Begins(buf.server[c], r)
    BY <2>2, <2>3, ReadBegins
  <2> QED
    BY <2>2, <2>4, BeginningOfFrame
<1> QED
  BY <1>2, <1>3, <1>4 DEF CannotRead

\* The call raises (broker_client.py:27-33), and the program ends.
LEMMA CallFailsInv ==
  ASSUME ServiceInv, NEW c \in Connections, CallFails(c) PROVE ServiceInv' /\ Left(c)
<1>1. client[c] = "waiting" /\ ClientGone(c, "broken") /\ Close("client", c)
  BY DEF CallFails
<1>2. link[c] # "up"
  BY ReadsUntilTheEnd DEF CallFails
<1>3. ClientGone(c, "down")
  BY <1>1, <1>2 DEF ClientGone
<1> QED
  BY <1>1, <1>3, ClosesInv

\* A program that has its answers closes its connection.
LEMMA LeaveInv ==
  ASSUME ServiceInv, NEW c \in Connections, Leave(c) PROVE ServiceInv' /\ Left(c)
BY ClosesInv DEF Leave

\* The client is killed, or its socket timeout ends the call.
LEMMA GiveUpInv ==
  ASSUME ServiceInv, NEW c \in Connections, GiveUp(c) PROVE ServiceInv' /\ Left(c)
BY LeavesInv DEF GiveUp

-----------------------------------------------------------------------------
(* The handler.                                                            *)

\* The handler's part in a conversation changes; what has been read and sent
\* does not.
LEMMA HandlerStepInv ==
  ASSUME ServiceInv, ServiceTypes', NEW c \in Connections, FrameRead(buf.server[c]),
         \A d \in Connections \ {c} : handler'[d] = handler[d] /\ served'[d] = served[d],
         UNCHANGED <<client, req, got, link, ends>>,
         handler'[c] \in Working \cup {"reply"},
         handler'[c] = "reply" => CanFrame(Body(c), served'[c]),
         handler'[c] # "reply" => served'[c] = served[c] /\ handler[c] # "reply",
         LockHeld(c)', Progress(c)',
         lock' = lock \/ {lock, lock'} \subseteq {c, Absent},
         UNCHANGED <<files, tmp>> \/ lock = c
  PROVE  ServiceInv'
<1>1. /\ ServiceTypes /\ LinkStands(c) /\ Asked(c) /\ Served(c) /\ Answered(c)
  BY OfConnection
<1>2. /\ Sent(c) # <<>> /\ client[c] \in {"waiting", "gone"} /\ handler[c] # "off"
  BY <1>1, WholeRequest
<1>3. /\ Sent(c)' = Sent(c) /\ Got(c)' = Got(c) /\ Body(c)' = Body(c)
      /\ UNCHANGED <<client, req, got, link, inbox, buf>>
  BY DEF ends, Sent, Got, Body
<1>4. \A d \in Connections \ {c} : Same(d)
  BY <1>3 DEF Same
<1>5. Got(c) = <<>>
  BY <1>1, <1>2 DEF Answered
<1>6. handler'[c] # "off"
  BY DEF Working
<1>7. LinkStands(c)' /\ Asked(c)' /\ Answered(c)'
  BY <1>1, <1>2, <1>3, <1>5, <1>6 DEF LinkStands, Asked, Answered
<1>8. Served(c)'
  <2>1. client[c] = "waiting" /\ served[c] # Absent => handler[c] = "reply"
    BY <1>1, <1>2 DEF Served
  <2> QED
    BY <1>3, <2>1 DEF Served
<1> QED
  BY <1>4, <1>7, <1>8, StepKeeps DEF Conversation

\* The answer is ready, and the lock released (broker_server.py:79-83).
LEMMA DoneInv ==
  ASSUME ServiceInv, NEW c \in Connections, FrameRead(buf.server[c]),
         handler[c] = "read" \/ handler[c] \in Working,
         NEW a, CanFrame(Body(c), a), Done(c, a),
         files' \in Files, tmp' \in PartFiles, replaced' \in Manifests \cup {Absent},
         UNCHANGED <<files, tmp>> \/ lock = c
  PROVE  ServiceInv'
<1>1. ServiceTypes /\ LockHeld(c)
  BY OfConnection
<1>2. /\ served' = [served EXCEPT ![c] = a] /\ handler' = [handler EXCEPT ![c] = "reply"]
      /\ lock' = IF lock = c THEN Absent ELSE lock
      /\ UNCHANGED <<client, req, got, link, ends, calls>>
  BY DEF Done
<1>3. a \in Answers
  BY DEF CanFrame
<1>4. ServiceTypes'
  BY <1>1, <1>2, <1>3 DEF ServiceTypes, ends
<1>5. /\ handler'[c] = "reply" /\ served'[c] = a
      /\ \A d \in Connections \ {c} : handler'[d] = handler[d] /\ served'[d] = served[d]
  BY <1>1, <1>2 DEF ServiceTypes
<1>6. LockHeld(c)'
  BY <1>2, <1>5, ServiceAssumption DEF LockHeld, Working
<1>7. Progress(c)'
  BY <1>5 DEF Progress, Working
<1>8. lock' = lock \/ {lock, lock'} \subseteq {c, Absent}
  BY <1>2
<1> QED
  BY <1>2, <1>4, <1>5, <1>6, <1>7, <1>8, HandlerStepInv

\* GET and LIST (broker_server.py:107-124, 142-155).
LEMMA LookInv == ASSUME ServiceInv, NEW c \in Connections, Look(c) PROVE ServiceInv'
<1>1. ServiceTypes /\ Asked(c)
  BY OfConnection
<1>2. handler[c] = "read" /\ FrameRead(buf.server[c]) /\ UNCHANGED <<files, tmp, replaced>>
  BY DEF Look, CanServe
<1>3. Body(c) \in Requests /\ Intact(buf.server[c])
  BY <1>1, <1>2, WholeRequest
<1>4. Done(c, Answer(files, Body(c)))
  BY <1>3 DEF Look
<1>5. /\ files \in Files /\ tmp \in PartFiles /\ replaced \in Manifests \cup {Absent}
  BY <1>1 DEF ServiceTypes
<1>6. CanFrame(Body(c), Answer(files, Body(c)))
  BY <1>3, <1>5, AnswerFits
<1>7. files' \in Files /\ tmp' \in PartFiles /\ replaced' \in Manifests \cup {Absent}
  BY <1>2, <1>5
<1> QED
  BY <1>2, <1>4, <1>6, <1>7, DoneInv

\* A handler in the lock serves a request that writes.
LEMMA WritesRequest ==
  ASSUME ServiceInv, NEW c \in Connections, handler[c] \in Working
  PROVE  /\ FrameRead(buf.server[c]) /\ Body(c) \in Requests /\ Writes(Body(c)) /\ lock = c
         /\ Body(c).cmd = "PUT_CHUNK" =>
              Body(c).index \in Indices /\ Body(c).data \in Ciphertexts
         /\ Body(c).cmd = "PUT_MANIFEST" => Body(c).data \in Manifests
         /\ Body(c).cmd \in {"PUT_CHUNK", "PUT_MANIFEST"}
         /\ CanFrame(Body(c), <<>>) /\ CanFrame(Body(c), Refused)
         /\ client[c] \in {"waiting", "gone"}
         /\ client[c] = "waiting" => served[c] = Absent /\ req[c] = Body(c)
<1>1. /\ ServiceTypes /\ Asked(c) /\ Served(c) /\ LockHeld(c) /\ Progress(c)
  BY OfConnection
<1>2. FrameRead(buf.server[c]) /\ Writes(Body(c)) /\ lock = c
  BY <1>1 DEF Served, LockHeld, Progress
<1>3. /\ Body(c) \in Requests /\ Sent(c) # <<>> /\ client[c] \in {"waiting", "gone"}
      /\ client[c] = "waiting" => req[c] = Body(c)
  BY <1>1, <1>2, WholeRequest
<1>4. client[c] = "waiting" => served[c] = Absent
  BY <1>1, <1>3 DEF Served, Working
<1>5. files \in Files
  BY <1>1 DEF ServiceTypes
<1>6. CanFrame(Body(c), <<>>) /\ CanFrame(Body(c), Refused)
  BY <1>2, <1>3, <1>5, AnswerFits
<1> QED
  BY <1>2, <1>3, <1>4, <1>6, RequestFields DEF Writes

\* PUT: into the lock (broker_server.py:95-98, 126-129).
LEMMA AcquireInv == ASSUME ServiceInv, NEW c \in Connections, Acquire(c) PROVE ServiceInv'
<1>1. ServiceTypes
  BY OfConnection
<1>2. /\ handler[c] = "read" /\ FrameRead(buf.server[c]) /\ lock = Absent /\ lock' = c
      /\ Writes(Body(c)) /\ handler' = [handler EXCEPT ![c] = "write"]
      /\ UNCHANGED <<files, tmp, replaced, client, req, got, served, link, ends, calls>>
  BY DEF Acquire, CanServe, LockFree
<1>3. ServiceTypes'
  BY <1>1, <1>2 DEF ServiceTypes, ends, Working
<1>4. handler'[c] = "write" /\ \A d \in Connections \ {c} : handler'[d] = handler[d]
  BY <1>1, <1>2 DEF ServiceTypes
<1>5. LockHeld(c)'
  BY <1>2, <1>4 DEF LockHeld, Working
<1>6. Progress(c)'
  <2>1. Body(c)' = Body(c)
    BY <1>2 DEF Body, ends
  <2> QED
    BY <1>2, <1>4, <2>1 DEF Progress
<1>7. handler'[c] \in Working \cup {"reply"} /\ {lock, lock'} \subseteq {c, Absent}
  BY <1>2, <1>4 DEF Working
<1> QED
  BY <1>2, <1>3, <1>4, <1>5, <1>6, <1>7, HandlerStepInv

\* The .part files are written (broker_server.py:99-103, 130-137).
LEMMA WriteInv == ASSUME ServiceInv, NEW c \in Connections, Write(c) PROVE ServiceInv'
<1>1. ServiceTypes /\ LockHeld(c)
  BY OfConnection
<1>2. /\ handler[c] = "write" /\ tmp' = After(tmp, Body(c))
      /\ handler' = [handler EXCEPT ![c] = IF Body(c).cmd = "PUT_CHUNK"
                                           THEN "renameChunk" ELSE "renameManifest"]
      /\ UNCHANGED <<files, lock, replaced, client, req, got, served, link, ends, calls>>
  BY DEF Write
<1>3. /\ FrameRead(buf.server[c]) /\ Writes(Body(c)) /\ lock = c
      /\ Body(c).cmd = "PUT_CHUNK" =>
           Body(c).index \in Indices /\ Body(c).data \in Ciphertexts
      /\ Body(c).cmd = "PUT_MANIFEST" => Body(c).data \in Manifests
      /\ Body(c).cmd \in {"PUT_CHUNK", "PUT_MANIFEST"}
  BY <1>2, WritesRequest DEF Working
<1>4. tmp \in PartFiles
  BY <1>1 DEF ServiceTypes
<1>5. CASE Body(c).cmd = "PUT_CHUNK"
  <2>1. tmp' = [tmp EXCEPT !.chunks[Body(c).index] = Body(c).data]
    BY <1>2, <1>5 DEF After
  <2>2. tmp' \in PartFiles /\ tmp'.chunks[Body(c).index] = Body(c).data
    BY <1>3, <1>4, <1>5, <2>1 DEF PartFiles
  <2>3. handler' = [handler EXCEPT ![c] = "renameChunk"]
    BY <1>2, <1>5
  <2>4. /\ handler'[c] = "renameChunk"
        /\ \A d \in Connections \ {c} : handler'[d] = handler[d]
    BY <1>1, <2>3 DEF ServiceTypes
  <2>5. ServiceTypes'
    BY <1>1, <1>2, <2>2, <2>3 DEF ServiceTypes, ends, Working
  <2>6. LockHeld(c)'
    BY <1>2, <1>3, <2>4 DEF LockHeld, Working
  <2>7. Progress(c)'
    BY <1>2, <1>3, <1>5, <2>2, <2>4 DEF Progress, Body, ends
  <2>8. handler'[c] \in Working \cup {"reply"} /\ handler[c] # "reply"
    BY <1>2, <2>4 DEF Working
  <2> QED
    BY <1>2, <1>3, <2>4, <2>5, <2>6, <2>7, <2>8, HandlerStepInv
<1>6. CASE Body(c).cmd = "PUT_MANIFEST"
  <2>1. tmp' = [tmp EXCEPT !.manifest = Body(c).data, !.signature = Body(c).data]
    BY <1>2, <1>6 DEF After
  <2>2. tmp' \in PartFiles /\ tmp'.manifest = Body(c).data /\ tmp'.signature = Body(c).data
    BY <1>3, <1>4, <1>6, <2>1 DEF PartFiles
  <2>3. handler' = [handler EXCEPT ![c] = "renameManifest"]
    BY <1>2, <1>6
  <2>4. /\ handler'[c] = "renameManifest"
        /\ \A d \in Connections \ {c} : handler'[d] = handler[d]
    BY <1>1, <2>3 DEF ServiceTypes
  <2>5. ServiceTypes'
    BY <1>1, <1>2, <2>2, <2>3 DEF ServiceTypes, ends, Working
  <2>6. LockHeld(c)'
    BY <1>2, <1>3, <2>4 DEF LockHeld, Working
  <2>7. Progress(c)'
    BY <1>2, <1>3, <1>6, <2>2, <2>4 DEF Progress, Body, ends
  <2>8. handler'[c] \in Working \cup {"reply"} /\ handler[c] # "reply"
    BY <1>2, <2>4 DEF Working
  <2> QED
    BY <1>2, <1>3, <2>4, <2>5, <2>6, <2>7, <2>8, HandlerStepInv
<1> QED
  BY <1>3, <1>5, <1>6

\* The disk is full (broker_server.py:79-83).
LEMMA WriteFailsInv == ASSUME ServiceInv, NEW c \in Connections, WriteFails(c) PROVE ServiceInv'
<1>1. ServiceTypes
  BY OfConnection
<1>2. /\ handler[c] \in Working /\ tmp' = After(tmp, [Body(c) EXCEPT !.data = Garbled])
      /\ Done(c, Refused) /\ UNCHANGED <<files, replaced>>
  BY DEF WriteFails, Working
<1>3. /\ FrameRead(buf.server[c]) /\ Body(c) \in Requests /\ lock = c
      /\ Body(c).cmd = "PUT_CHUNK" => Body(c).index \in Indices
      /\ Body(c).cmd \in {"PUT_CHUNK", "PUT_MANIFEST"} /\ CanFrame(Body(c), Refused)
  BY <1>2, WritesRequest
<1>4. /\ files \in Files /\ tmp \in PartFiles /\ replaced \in Manifests \cup {Absent}
  BY <1>1 DEF ServiceTypes
<1>5. tmp' \in PartFiles
  <2>1. Body(c) \in Request /\ Writes(Body(c))
    BY <1>3, RequestFields DEF Writes
  <2>2. CASE Body(c).cmd = "PUT_CHUNK"
    <3>1. Body(c) \in [cmd : {"PUT_CHUNK"}, index : Indices, data : Ciphertexts]
      BY <2>1, <2>2 DEF Request
    <3>2. tmp' = [tmp EXCEPT !.chunks[Body(c).index] = Garbled]
      BY <1>2, <2>2, <3>1 DEF After
    <3> QED
      BY <1>3, <1>4, <2>2, <3>2 DEF PartFiles
  <2>3. CASE Body(c).cmd = "PUT_MANIFEST"
    <3>1. Body(c) \in [cmd : {"PUT_MANIFEST"}, data : Manifests]
      BY <2>1, <2>3 DEF Request
    <3>2. tmp' = [tmp EXCEPT !.manifest = Garbled, !.signature = Garbled]
      BY <1>2, <2>3, <3>1 DEF After
    <3> QED
      BY <1>4, <3>2 DEF PartFiles
  <2> QED
    BY <1>3, <2>2, <2>3
<1> QED
  BY <1>2, <1>3, <1>4, <1>5, DoneInv

\* The chunk takes its name (broker_server.py:104-105).
LEMMA RenameChunkInv ==
  ASSUME ServiceInv, NEW c \in Connections, RenameChunk(c)
  PROVE  /\ ServiceInv' /\ files' = After(files, Body(c)) /\ Done(c, <<>>)
<1>1. ServiceTypes /\ Progress(c)
  BY OfConnection
<1>2. /\ handler[c] = "renameChunk" /\ handler[c] \in Working
      /\ files' = [files EXCEPT !.chunks[Body(c).index] = tmp.chunks[Body(c).index]]
      /\ tmp' = [tmp EXCEPT !.chunks[Body(c).index] = Absent]
      /\ Done(c, <<>>) /\ replaced' = replaced
  BY DEF RenameChunk, Working
<1>3. /\ Body(c).cmd = "PUT_CHUNK" /\ tmp.chunks[Body(c).index] = Body(c).data
  BY <1>1, <1>2 DEF Progress
<1>4. /\ FrameRead(buf.server[c]) /\ lock = c /\ CanFrame(Body(c), <<>>)
      /\ Body(c).index \in Indices /\ Body(c).data \in Ciphertexts
  BY <1>2, <1>3, WritesRequest
<1>5. /\ files \in Files /\ tmp \in PartFiles /\ replaced \in Manifests \cup {Absent}
  BY <1>1 DEF ServiceTypes
<1>6. files' = [files EXCEPT !.chunks[Body(c).index] = Body(c).data]
  BY <1>2, <1>3
<1>7. files' \in Files /\ tmp' \in PartFiles
  BY <1>2, <1>4, <1>5, <1>6 DEF Files, PartFiles
<1>8. files' = After(files, Body(c))
  BY <1>3, <1>6 DEF After
<1>9. ServiceInv'
  BY <1>2, <1>4, <1>5, <1>7, DoneInv
<1> QED
  BY <1>2, <1>8, <1>9

\* The manifest takes its name (broker_server.py:138).
LEMMA RenameManifestInv ==
  ASSUME ServiceInv, NEW c \in Connections, RenameManifest(c) PROVE ServiceInv'
<1>1. ServiceTypes /\ Progress(c)
  BY OfConnection
<1>2. /\ handler[c] = "renameManifest" /\ handler[c] \in Working
      /\ files' = [files EXCEPT !.manifest = tmp.manifest]
      /\ tmp' = [tmp EXCEPT !.manifest = Absent]
      /\ replaced' = files.manifest
      /\ handler' = [handler EXCEPT ![c] = "renameSignature"]
      /\ UNCHANGED <<lock, client, req, got, served, link, ends, calls>>
  BY DEF RenameManifest, Working
<1>3. /\ Body(c).cmd = "PUT_MANIFEST" /\ tmp.manifest = Body(c).data
      /\ tmp.signature = Body(c).data
  BY <1>1, <1>2 DEF Progress
<1>4. /\ FrameRead(buf.server[c]) /\ Writes(Body(c)) /\ lock = c /\ Body(c).data \in Manifests
  BY <1>2, <1>3, WritesRequest
<1>5. /\ files \in Files /\ tmp \in PartFiles
  BY <1>1 DEF ServiceTypes
<1>6. files' \in Files /\ tmp' \in PartFiles /\ replaced' \in Manifests \cup {Absent}
  BY <1>2, <1>3, <1>4, <1>5 DEF Files, PartFiles
<1>7. files'.manifest = Body(c).data /\ tmp'.signature = Body(c).data
  BY <1>2, <1>3, <1>5 DEF Files, PartFiles
<1>8. ServiceTypes'
  BY <1>1, <1>2, <1>6 DEF ServiceTypes, ends, Working
<1>9. /\ handler'[c] = "renameSignature"
      /\ \A d \in Connections \ {c} : handler'[d] = handler[d]
  BY <1>1, <1>2 DEF ServiceTypes
<1>10. LockHeld(c)'
  BY <1>2, <1>4, <1>9 DEF LockHeld, Working
<1>11. Progress(c)'
  BY <1>2, <1>3, <1>4, <1>7, <1>9 DEF Progress, Body, ends
<1>12. handler'[c] \in Working \cup {"reply"}
  BY <1>9 DEF Working
<1> QED
  BY <1>2, <1>4, <1>8, <1>9, <1>10, <1>11, <1>12, HandlerStepInv

\* So does its signature, and the request is carried out (broker_server.py:139-140).
LEMMA RenameSignatureInv ==
  ASSUME ServiceInv, NEW c \in Connections, RenameSignature(c)
  PROVE  /\ ServiceInv' /\ Done(c, <<>>)
         /\ files' = After([files EXCEPT !.manifest = replaced], Body(c))
<1>1. ServiceTypes /\ Progress(c)
  BY OfConnection
<1>2. /\ handler[c] = "renameSignature" /\ handler[c] \in Working
      /\ files' = [files EXCEPT !.signature = tmp.signature]
      /\ tmp' = [tmp EXCEPT !.signature = Absent]
      /\ replaced' = Absent
      /\ Done(c, <<>>)
  BY DEF RenameSignature, Working
<1>3. /\ Body(c).cmd = "PUT_MANIFEST" /\ files.manifest = Body(c).data
      /\ tmp.signature = Body(c).data
  BY <1>1, <1>2 DEF Progress
<1>4. /\ FrameRead(buf.server[c]) /\ lock = c /\ CanFrame(Body(c), <<>>)
      /\ Body(c).data \in Manifests
  BY <1>2, <1>3, WritesRequest
<1>5. /\ files \in Files /\ tmp \in PartFiles
  BY <1>1 DEF ServiceTypes
<1>6. files' \in Files /\ tmp' \in PartFiles /\ replaced' \in Manifests \cup {Absent}
  BY <1>2, <1>3, <1>4, <1>5 DEF Files, PartFiles
<1>7. files' = After([files EXCEPT !.manifest = replaced], Body(c))
  BY <1>2, <1>3, <1>5 DEF After, Files
<1>8. ServiceInv'
  BY <1>2, <1>4, <1>6, DoneInv
<1> QED
  BY <1>2, <1>7, <1>8

\* The second rename fails, and the lock is released (broker_server.py:79-83, 139).
LEMMA RenameFailsInv == ASSUME ServiceInv, NEW c \in Connections, RenameFails(c) PROVE ServiceInv'
<1>1. ServiceTypes
  BY OfConnection
<1>2. /\ handler[c] = "renameSignature" /\ handler[c] \in Working
      /\ replaced' = Absent /\ Done(c, Refused) /\ UNCHANGED <<files, tmp>>
  BY DEF RenameFails, Working
<1>3. FrameRead(buf.server[c]) /\ CanFrame(Body(c), Refused)
  BY <1>2, WritesRequest
<1>4. files' \in Files /\ tmp' \in PartFiles /\ replaced' \in Manifests \cup {Absent}
  BY <1>1, <1>2 DEF ServiceTypes
<1> QED
  BY <1>2, <1>3, <1>4, DoneInv

\* A request that is answered.
LEMMA AnswersRequest ==
  ASSUME ServiceInv, NEW c \in Connections, handler[c] = "reply"
  PROVE  /\ Body(c) \in Requests /\ CanFrame(Body(c), served[c])
         /\ Response(Body(c), served[c]) \in Message
         /\ inbox.server[c] = <<>> /\ Got(c) = <<>>
         /\ client[c] \in {"waiting", "gone"}
         /\ client[c] = "waiting" => req[c] = Body(c)
<1>1. /\ ServiceTypes /\ Asked(c) /\ Served(c) /\ Answered(c)
  BY OfConnection
<1>2. FrameRead(buf.server[c]) /\ CanFrame(Body(c), served[c])
  BY <1>1 DEF Served
<1>3. Got(c) = <<>>
  BY <1>1 DEF Answered
<1>4. /\ Body(c) \in Requests /\ inbox.server[c] = <<>> /\ client[c] \in {"waiting", "gone"}
      /\ client[c] = "waiting" => req[c] = Body(c)
  BY <1>1, <1>2, WholeRequest
<1>5. Response(Body(c), served[c]) \in Message
  BY <1>2, <1>4 DEF CanFrame, Message
<1> QED
  BY <1>2, <1>3, <1>4, <1>5

\* The answer is written to the connection (broker_server.py:84-87).
LEMMA ReplyEffect ==
  ASSUME ServiceInv, NEW c \in Connections, Reply(c)
  PROVE  /\ ServiceTypes' /\ \A d \in Connections \ {c} : Same(d)
         /\ UNCHANGED <<files, tmp, lock, replaced, client, req, got, served, link>>
         /\ handler[c] = "reply" /\ handler'[c] = "read" /\ Sent(c)' = <<>>
         /\ link[c] # "up" => Got(c)' = <<>>
         /\ link[c] = "up" => Got(c)' = Frame(Response(Body(c), served[c]))
<1>1. ServiceTypes
  BY OfConnection
<1>2. /\ handler[c] = "reply" /\ handler' = [handler EXCEPT ![c] = "read"]
      /\ buf' = [buf EXCEPT !.server[c] = <<>>]
      /\ link[c] = "up" =>
           inbox' = [inbox EXCEPT !.client[c] = Frame(Response(Body(c), served[c]))]
      /\ link[c] # "up" => inbox' = inbox
      /\ UNCHANGED <<files, tmp, lock, replaced, client, req, got, served, link, calls>>
  BY DEF Reply
<1>3. /\ Response(Body(c), served[c]) \in Message /\ inbox.server[c] = <<>> /\ Got(c) = <<>>
      /\ BodyLen(Response(Body(c), served[c])) \in Nat
  BY <1>2, AnswersRequest DEF CanFrame
<1> DEFINE f == Frame(Response(Body(c), served[c]))
<1>4. f \in Seq(Unit) /\ f \in Stream
  BY <1>3, FrameBegins DEF Begins, Stream
<1>5. /\ link[c] = "up" => inbox' = [inbox EXCEPT !.client[c] = f]
      /\ link[c] # "up" => inbox' = inbox
  BY <1>2
<1> HIDE DEF f
<1>6. /\ buf' \in [Ends -> [Connections -> Stream]]
      /\ buf'.server[c] = <<>> /\ buf'.client = buf.client
      /\ \A d \in Connections \ {c} : buf'.server[d] = buf.server[d]
  BY <1>1, <1>2, NoUnits DEF ServiceTypes, Ends
<1>7. /\ inbox' \in [Ends -> [Connections -> Stream]]
      /\ inbox'.server = inbox.server
      /\ inbox'.client[c] = IF link[c] = "up" THEN f ELSE inbox.client[c]
      /\ \A d \in Connections \ {c} : inbox'.client[d] = inbox.client[d]
  BY <1>1, <1>4, <1>5 DEF ServiceTypes, Ends
<1>8. ServiceTypes'
  BY <1>1, <1>2, <1>6, <1>7 DEF ServiceTypes
<1>9. \A d \in Connections \ {c} : Same(d)
  BY <1>1, <1>2, <1>6, <1>7 DEF ServiceTypes, Same
<1>10. handler'[c] = "read"
  BY <1>1, <1>2 DEF ServiceTypes
<1>11. buf.client[c] = <<>> /\ inbox.client[c] = <<>>
  BY <1>1, <1>3, ReadIsGot
<1>12. Sent(c)' = <<>> /\ Got(c)' = IF link[c] = "up" THEN f ELSE <<>>
  <2>1. /\ Sent(c)' = buf'.server[c] \o inbox'.server[c]
        /\ Got(c)' = buf'.client[c] \o inbox'.client[c]
    BY DEF Sent, Got
  <2>2. <<>> \o f = f /\ <<>> \o <<>> = <<>>
    BY <1>4, ConcatEmptySeq
  <2> QED
    BY <1>3, <1>6, <1>7, <1>11, <2>1, <2>2
<1> QED
  BY <1>2, <1>8, <1>9, <1>10, <1>12 DEF f

\* What has been sent begins with the answer the client waits for.
LEMMA ReplyInv == ASSUME ServiceInv, NEW c \in Connections, Reply(c) PROVE ServiceInv'
<1>1. /\ ServiceTypes /\ LinkStands(c) /\ Asked(c) /\ LockHeld(c)
  BY OfConnection
<1>2. /\ ServiceTypes' /\ \A d \in Connections \ {c} : Same(d)
      /\ UNCHANGED <<files, tmp, lock, replaced, client, req, got, served, link>>
      /\ handler[c] = "reply" /\ handler'[c] = "read" /\ Sent(c)' = <<>>
      /\ link[c] # "up" => Got(c)' = <<>>
      /\ link[c] = "up" => Got(c)' = Frame(Response(Body(c), served[c]))
  BY ReplyEffect
<1>3. /\ Body(c) \in Requests /\ CanFrame(Body(c), served[c])
      /\ Response(Body(c), served[c]) \in Message
      /\ client[c] \in {"waiting", "gone"}
      /\ client[c] = "waiting" => req[c] = Body(c)
  BY <1>2, AnswersRequest
<1>4. LinkStands(c)'
  BY <1>1, <1>2, <1>3 DEF LinkStands
<1>5. Asked(c)'
  <2>1. client[c] = "waiting" => req[c] \in Requests /\ Begins(<<>>, req[c])
    BY <1>3, RequestFields, NothingBegins
  <2> QED
    BY <1>2, <2>1 DEF Asked
<1>6. Served(c)' /\ Progress(c)'
  BY <1>2 DEF Served, Progress, Working
<1>7. Answered(c)'
  <2> SUFFICES ASSUME link[c] = "up"
               PROVE  /\ client'[c] = "waiting" /\ CanFrame(req'[c], served'[c])
                      /\ BodyLen(Response(req'[c], served'[c])) <= MaxBody
                      /\ Begins(Got(c)', Response(req'[c], served'[c]))
    BY <1>2 DEF Answered
  <2>1. client[c] = "waiting" /\ req[c] = Body(c)
    BY <1>1, <1>3 DEF LinkStands
  <2>2. BodyLen(Response(Body(c), served[c])) \in Nat
    BY <1>3 DEF CanFrame
  <2>3. BodyLen(Response(Body(c), served[c])) <= MaxBody
    BY <2>2, ServiceAssumption DEF Reply, TooLong
  <2>4. Begins(Frame(Response(Body(c), served[c])), Response(Body(c), served[c]))
    BY <1>3, <2>2, FrameBegins
  <2> QED
    BY <1>2, <1>3, <2>1, <2>3, <2>4
<1>8. LockHeld(c)'
  BY <1>1, <1>2 DEF LockHeld, Working
<1> QED
  BY <1>2, <1>4, <1>5, <1>6, <1>7, <1>8, StepKeeps DEF Conversation

\* The handler has ended, and has kept nothing.
Ended(c) ==
  /\ \A d \in Connections \ {c} : Same(d)
  /\ handler'[c] = "off"
  /\ UNCHANGED <<files, replaced, client, req, got, served>>

\* A handler that ends closes its connection (broker_server.py:73-92).
LEMMA HandlerEndsInv ==
  ASSUME ServiceInv, NEW c \in Connections, handler[c] \in {"read", "reply"},
         handler' = [handler EXCEPT ![c] = "off"], Close("server", c),
         link' = [link EXCEPT ![c] = IF link[c] = "up" THEN "down" ELSE link[c]],
         UNCHANGED <<files, tmp, lock, replaced, client, req, got, served, calls>>
  PROVE  ServiceInv' /\ Ended(c)
<1>1. /\ ServiceTypes /\ LinkStands(c) /\ Asked(c) /\ Answered(c) /\ LockHeld(c)
  BY OfConnection
<1>2. /\ buf' \in [Ends -> [Connections -> Stream]]
      /\ buf'.server[c] = <<>> /\ buf'.client = buf.client
      /\ \A d \in Connections \ {c} : buf'.server[d] = buf.server[d]
  BY <1>1, NoUnits DEF ServiceTypes, Ends, Close
<1>3. /\ inbox' \in [Ends -> [Connections -> Stream]]
      /\ inbox'.server[c] = <<>> /\ inbox'.client = inbox.client
      /\ \A d \in Connections \ {c} : inbox'.server[d] = inbox.server[d]
  BY <1>1, NoUnits DEF ServiceTypes, Ends, Close
<1>4. ServiceTypes'
  BY <1>1, <1>2, <1>3 DEF ServiceTypes
<1>5. \A d \in Connections \ {c} : Same(d)
  BY <1>1, <1>2, <1>3 DEF ServiceTypes, Same
<1>6. handler'[c] = "off" /\ link'[c] # "up" /\ Got(c)' = Got(c)
  BY <1>1, <1>2, <1>3 DEF ServiceTypes, Got
<1>7. Sent(c)' = <<>>
  <2>1. Sent(c)' = buf'.server[c] \o inbox'.server[c] /\ <<>> \o <<>> = <<>>
    BY DEF Sent
  <2> QED
    BY <1>2, <1>3, <2>1
<1>8. LinkStands(c)'
  BY <1>6 DEF LinkStands
<1>9. Asked(c)'
  <2>1. client[c] = "waiting" => req[c] \in Requests /\ Begins(<<>>, req[c])
    BY <1>1, RequestFields, NothingBegins DEF Asked
  <2> QED
    BY <1>7, <2>1 DEF Asked
<1>10. Served(c)' /\ Progress(c)'
  BY <1>6, <1>7 DEF Served, Progress, Working
<1>11. Answered(c)'
  BY <1>1, <1>6, <1>7 DEF Answered
<1>12. LockHeld(c)'
  BY <1>1, <1>6 DEF LockHeld, Working
<1>13. Ended(c)
  BY <1>5, <1>6 DEF Ended
<1>14. ServiceInv'
  BY <1>4, <1>5, <1>8, <1>9, <1>10, <1>11, <1>12, StepKeeps DEF Conversation
<1> QED
  BY <1>13, <1>14

\* The next frame does not come, or the answer is too long.
LEMMA HandlerGoneInv ==
  ASSUME ServiceInv, NEW c \in Connections
  PROVE  HandlerEnds(c) \/ ReplyTooLong(c) => ServiceInv' /\ Ended(c)
<1>1. ASSUME HandlerEnds(c) PROVE ServiceInv' /\ Ended(c)
  <2>1. CannotRead(c, "server")
    BY <1>1 DEF HandlerEnds
  <2>2. link[c] # "up"
    BY <2>1, ReadsUntilTheEnd
  <2>3. link' = [link EXCEPT ![c] = IF link[c] = "up" THEN "down" ELSE link[c]]
    BY <1>1, <2>2 DEF HandlerEnds
  <2> QED
    BY <1>1, <2>3, HandlerEndsInv DEF HandlerEnds
<1>2. ASSUME ReplyTooLong(c) PROVE ServiceInv' /\ Ended(c)
  BY <1>2, HandlerEndsInv DEF ReplyTooLong
<1> QED
  BY <1>1, <1>2

-----------------------------------------------------------------------------
(* Faults.                                                                 *)

\* What a lost connection leaves on its way, in both directions.
LEMMA CutEffect ==
  ASSUME ServiceInv, NEW c \in Connections, Cut(c)
  PROVE  /\ ServiceTypes' /\ \A d \in Connections \ {c} : Same(d)
         /\ UNCHANGED <<files, tmp, lock, replaced, handler, client, req, got, served, buf>>
         /\ link'[c] # "up" /\ client[c] # "new"
         /\ \A m : BodyLen(m) \in Nat /\ Begins(Sent(c), m) => Begins(Sent(c)', m)
         /\ \A m : BodyLen(m) \in Nat /\ Begins(Got(c), m) => Begins(Got(c)', m)
         /\ Sent(c) = <<>> => Sent(c)' = <<>>
         /\ Got(c) = <<>> => Got(c)' = <<>>
<1>1. ServiceTypes /\ LinkStands(c)
  BY OfConnection
<1>2. /\ link[c] = "up" /\ link' = [link EXCEPT ![c] = "down"]
      /\ UNCHANGED <<files, tmp, lock, replaced, handler, client, req, got, served, buf, calls>>
  BY DEF Cut
<1>3. PICK s \in Prefixes(inbox.server[c]), t \in Prefixes(inbox.client[c]) :
         inbox' = [inbox EXCEPT !.server[c] = s, !.client[c] = t]
  BY DEF Cut
<1> DEFINE b == buf.server[c]
           x == inbox.server[c]
           d == buf.client[c]
           y == inbox.client[c]
<1>4. /\ b \in Seq(Unit) /\ x \in Seq(Unit) /\ d \in Seq(Unit) /\ y \in Seq(Unit)
      /\ Sent(c) = b \o x /\ Got(c) = d \o y
      /\ s \in Prefixes(x) /\ t \in Prefixes(y)
  BY <1>1, Streams DEF Sent, Got
<1>5. b = buf.server[c] /\ d = buf.client[c]
  OBVIOUS
<1> HIDE DEF b, x, d, y
<1>6. /\ s \in Seq(Unit)
      /\ \A m : BodyLen(m) \in Nat /\ Begins(b \o x, m) => Begins(b \o s, m)
      /\ b \o x = <<>> => b \o s = <<>>
  <2>1. b \in Seq(Unit) /\ x \in Seq(Unit) /\ s \in Prefixes(x)
    BY <1>4
  <2> QED
    BY <2>1, CutLeaves
<1>7. /\ t \in Seq(Unit)
      /\ \A m : BodyLen(m) \in Nat /\ Begins(d \o y, m) => Begins(d \o t, m)
      /\ d \o y = <<>> => d \o t = <<>>
  <2>1. d \in Seq(Unit) /\ y \in Seq(Unit) /\ t \in Prefixes(y)
    BY <1>4
  <2> QED
    BY <2>1, CutLeaves
<1>8. s \in Stream /\ t \in Stream
  BY <1>6, <1>7 DEF Stream
<1>9. /\ inbox' \in [Ends -> [Connections -> Stream]]
      /\ inbox'.server[c] = s /\ inbox'.client[c] = t
      /\ \A e \in Connections \ {c} :
           inbox'.server[e] = inbox.server[e] /\ inbox'.client[e] = inbox.client[e]
  BY <1>1, <1>3, <1>8 DEF ServiceTypes, Ends
<1>10. ServiceTypes'
  BY <1>1, <1>2, <1>9 DEF ServiceTypes
<1>11. \A e \in Connections \ {c} : Same(e)
  BY <1>1, <1>2, <1>9 DEF ServiceTypes, Same
<1>12. Sent(c)' = b \o s /\ Got(c)' = d \o t
  <2>1. /\ Sent(c)' = buf'.server[c] \o inbox'.server[c]
        /\ Got(c)' = buf'.client[c] \o inbox'.client[c]
    BY DEF Sent, Got
  <2> QED
    BY <1>2, <1>5, <1>9, <2>1
<1>13. link'[c] # "up" /\ client[c] # "new"
  BY <1>1, <1>2 DEF ServiceTypes, LinkStands
<1> QED
  BY <1>2, <1>4, <1>6, <1>7, <1>10, <1>11, <1>12, <1>13, Zenon

\* The connection is lost.
LEMMA CutInv == ASSUME ServiceInv, NEW c \in Connections, Cut(c) PROVE ServiceInv'
<1>1. /\ ServiceTypes /\ LinkStands(c) /\ Asked(c) /\ Served(c) /\ Answered(c)
      /\ LockHeld(c) /\ Progress(c)
  BY OfConnection
<1>2. /\ ServiceTypes' /\ \A d \in Connections \ {c} : Same(d)
      /\ UNCHANGED <<files, tmp, lock, replaced, handler, client, req, got, served, buf>>
      /\ link'[c] # "up" /\ client[c] # "new"
      /\ \A m : BodyLen(m) \in Nat /\ Begins(Sent(c), m) => Begins(Sent(c)', m)
      /\ \A m : BodyLen(m) \in Nat /\ Begins(Got(c), m) => Begins(Got(c)', m)
      /\ Sent(c) = <<>> => Sent(c)' = <<>>
      /\ Got(c) = <<>> => Got(c)' = <<>>
  BY CutEffect
<1>3. LinkStands(c)' /\ LockHeld(c)'
  BY <1>1, <1>2 DEF LinkStands, LockHeld
<1>4. Asked(c)'
  <2>1. client[c] = "waiting" => req[c] \in Requests /\ Begins(Sent(c)', req[c])
    BY <1>1, <1>2, RequestFields DEF Asked
  <2>2. client[c] = "gone" /\ Sent(c)' # <<>> => \E r \in Requests : Begins(Sent(c)', r)
    BY <1>1, <1>2, RequestFields DEF Asked
  <2> QED
    BY <1>1, <1>2, <2>1, <2>2 DEF Asked
<1>5. Body(c)' = Body(c)
  BY <1>2 DEF Body
<1>6. Served(c)' /\ Progress(c)'
  BY <1>1, <1>2, <1>5 DEF Served, Progress
<1>7. Answered(c)'
  <2> SUFFICES ASSUME Got(c)' # <<>>
               PROVE  /\ client[c] = "waiting" /\ Sent(c)' = <<>>
                      /\ handler[c] \in {"off", "read"}
                      /\ CanFrame(req[c], served[c])
                      /\ BodyLen(Response(req[c], served[c])) <= MaxBody
                      /\ Begins(Got(c)', Response(req[c], served[c]))
    BY <1>2 DEF Answered
  <2>1. Got(c) # <<>>
    BY <1>2
  <2> QED
    BY <1>1, <1>2, <2>1 DEF Answered, CanFrame
<1> QED
  BY <1>2, <1>3, <1>4, <1>6, <1>7, StepKeeps DEF Conversation

\* The broker is killed: the threads and the locks are gone, the files stay.
LEMMA KilledInv == ASSUME ServiceInv, Killed PROVE ServiceInv'
<1>1. ServiceTypes
  BY DEF ServiceInv
<1>2. /\ handler' = [c \in Connections |-> "off"] /\ lock' = Absent /\ replaced' = Absent
      /\ link' = [c \in Connections |-> IF link[c] = "up" THEN "down" ELSE link[c]]
      /\ inbox' = [inbox EXCEPT !.server = [c \in Connections |-> <<>>]]
      /\ buf' = [buf EXCEPT !.server = [c \in Connections |-> <<>>]]
      /\ UNCHANGED <<files, tmp, client, req, got, served, calls>>
  BY DEF Killed
<1>3. /\ inbox' \in [Ends -> [Connections -> Stream]] /\ inbox'.client = inbox.client
      /\ \A c \in Connections : inbox'.server[c] = <<>>
  BY <1>1, <1>2, NoUnits DEF ServiceTypes, Ends
<1>4. /\ buf' \in [Ends -> [Connections -> Stream]] /\ buf'.client = buf.client
      /\ \A c \in Connections : buf'.server[c] = <<>>
  BY <1>1, <1>2, NoUnits DEF ServiceTypes, Ends
<1>5. ServiceTypes'
  <2>1. /\ handler' \in [Connections -> {"off", "read", "reply"} \cup Working]
        /\ link' \in [Connections -> {"none", "up", "down"}]
    BY <1>1, <1>2 DEF ServiceTypes
  <2> QED
    BY <1>1, <1>2, <1>3, <1>4, <2>1 DEF ServiceTypes
<1>6. ASSUME NEW c \in Connections
      PROVE  Conversation(c)' /\ LockHeld(c)' /\ Progress(c)'
  <2>1. Asked(c) /\ Answered(c)
    BY OfConnection
  <2>2. /\ handler'[c] = "off" /\ link'[c] # "up" /\ lock' # c
        /\ UNCHANGED <<client, req, served>>
    BY <1>1, <1>2, ServiceAssumption DEF ServiceTypes
  <2>3. Sent(c)' = <<>> /\ Got(c)' = Got(c)
    <3>1. Sent(c)' = buf'.server[c] \o inbox'.server[c] /\ <<>> \o <<>> = <<>>
      BY DEF Sent
    <3> QED
      BY <1>3, <1>4, <3>1 DEF Got
  <2>4. Asked(c)'
    <3>1. client[c] = "waiting" => req[c] \in Requests /\ Begins(<<>>, req[c])
      BY <2>1, RequestFields, NothingBegins DEF Asked
    <3> QED
      BY <2>2, <2>3, <3>1 DEF Asked
  <2>5. LinkStands(c)' /\ Served(c)' /\ Answered(c)' /\ LockHeld(c)' /\ Progress(c)'
    BY <2>1, <2>2, <2>3 DEF LinkStands, Served, Answered, LockHeld, Progress, Working
  <2> QED
    BY <2>4, <2>5 DEF Conversation
<1> QED
  BY <1>5, <1>6 DEF ServiceInv

-----------------------------------------------------------------------------
(* The invariant holds.                                                    *)

\* No connection carries anything, and the lock is free.
LEMMA InitInv == ASSUME Init PROVE ServiceInv
<1>1. ServiceTypes
  <2>1. /\ files \in Files /\ tmp \in PartFiles
    BY ServiceAssumption DEF Init, PartFiles
  <2>2. /\ inbox \in [Ends -> [Connections -> Stream]]
        /\ buf \in [Ends -> [Connections -> Stream]]
    BY NoUnits DEF Init
  <2>3. calls \in 0..MaxCalls
    BY ServiceAssumption DEF Init
  <2> QED
    BY <2>1, <2>2, <2>3 DEF Init, ServiceTypes
<1>2. ASSUME NEW c \in Connections PROVE Conversation(c) /\ LockHeld(c) /\ Progress(c)
  <2>1. /\ handler[c] = "off" /\ client[c] = "new" /\ link[c] = "none" /\ lock # c
    BY ServiceAssumption DEF Init
  <2>2. Sent(c) = <<>> /\ Got(c) = <<>>
    <3>1. <<>> \o <<>> = <<>>
      OBVIOUS
    <3> QED
      BY <3>1 DEF Init, Ends, Sent, Got
  <2> QED
    BY <2>1, <2>2
    DEF Conversation, LinkStands, Asked, Served, Answered, LockHeld, Progress, Working
<1> QED
  BY <1>1, <1>2 DEF ServiceInv

\* The invariant only speaks of the variables.
LEMMA StutterInv == ASSUME ServiceInv, UNCHANGED vars PROVE ServiceInv'
<1>1. ServiceTypes'
  BY DEF ServiceInv, ServiceTypes, vars, ends
<1>2. ASSUME NEW c \in Connections PROVE Conversation(c)' /\ LockHeld(c)' /\ Progress(c)'
  <2>1. Same(c) /\ UNCHANGED <<files, tmp, lock, handler, buf>>
    BY DEF Same, vars, ends
  <2>2. Conversation(c) /\ LockHeld(c) /\ Progress(c)
    BY DEF ServiceInv
  <2>3. Conversation(c)' /\ Body(c)' = Body(c)
    BY <2>1, <2>2, SameConversation
  <2> QED
    BY <2>1, <2>2, <2>3 DEF LockHeld, Progress
<1> QED
  BY <1>1, <1>2 DEF ServiceInv

\* Every step preserves the invariant.
LEMMA StepInv == ASSUME ServiceInv, [Next]_vars PROVE ServiceInv'
<1>1. ASSUME NEW c \in Connections, ClientStep(c) PROVE ServiceInv'
  <2>1. CASE Recv(c, "client")
    BY <2>1, RecvInv DEF Ends
  <2> QED
    BY <1>1, <2>1, ReturnInv, CallFailsInv DEF ClientStep
<1>2. ASSUME NEW c \in Connections, HandlerStep(c) PROVE ServiceInv'
  <2>1. CASE Recv(c, "server")
    BY <2>1, RecvInv DEF Ends
  <2>2. CASE Look(c) \/ Acquire(c) \/ Write(c) \/ WriteFails(c)
    BY <2>2, LookInv, AcquireInv, WriteInv, WriteFailsInv
  <2>3. CASE RenameChunk(c) \/ RenameManifest(c) \/ RenameSignature(c) \/ RenameFails(c)
    BY <2>3, RenameChunkInv, RenameManifestInv, RenameSignatureInv, RenameFailsInv
  <2>4. CASE Reply(c) \/ ReplyTooLong(c) \/ HandlerEnds(c)
    BY <2>4, ReplyInv, HandlerGoneInv
  <2> QED
    BY <1>2, <2>1, <2>2, <2>3, <2>4 DEF HandlerStep
<1>3. ASSUME NEW c \in Connections, Connect(c) \/ Send(c) \/ Leave(c) \/ Cut(c) \/ GiveUp(c)
      PROVE  ServiceInv'
  BY <1>3, ConnectInv, SendInv, LeaveInv, CutInv, GiveUpInv
<1>4. CASE Killed
  BY <1>4, KilledInv
<1>5. CASE UNCHANGED vars
  BY <1>5, StutterInv
<1> QED
  BY <1>1, <1>2, <1>3, <1>4, <1>5 DEF Next

\* Every connection is served in order, whatever becomes of it: there is one
\* frame on its way, whole or cut off, and one handler in the lock.
THEOREM ServiceInvariant == Spec => []ServiceInv
BY InitInv, StepInv, PTL DEF Spec

\* What is read of a frame is never longer than the longest frame.
LEMMA BufferFits ==
  ASSUME ServiceInv, NEW c \in Connections, NEW e \in Ends
  PROVE  Len(buf[e][c]) <= HeaderLen + MaxBody
<1>1. ServiceTypes /\ Asked(c) /\ Answered(c)
  BY OfConnection
<1>2. /\ buf.server[c] \in Seq(Unit) /\ inbox.server[c] \in Seq(Unit)
      /\ buf.client[c] \in Seq(Unit) /\ inbox.client[c] \in Seq(Unit)
      /\ Sent(c) = buf.server[c] \o inbox.server[c]
      /\ Got(c) = buf.client[c] \o inbox.client[c]
  BY <1>1, Streams DEF Sent, Got
<1>3. HeaderLen \in Nat /\ MaxBody \in Nat
  BY ServiceAssumption
<1>4. Len(<<>>) <= HeaderLen + MaxBody
  BY <1>3
<1>5. Len(buf.server[c]) <= HeaderLen + MaxBody
  <2>1. CASE Sent(c) = <<>>
    BY <1>1, <1>4, <2>1, ReadIsGot
  <2>2. CASE Sent(c) # <<>>
    <3>1. PICK r \in Requests : /\ r \in Message /\ BodyLen(r) \in Nat
                                /\ BodyLen(r) <= MaxBody /\ Begins(Sent(c), r)
      BY <1>1, <2>2, OnTheWay
    <3>2. Begins(buf.server[c], r)
      BY <1>2, <3>1, ReadBegins
    <3> QED
      BY <1>2, <1>3, <3>1, <3>2 DEF Begins
  <2> QED
    BY <2>1, <2>2
<1>6. Len(buf.client[c]) <= HeaderLen + MaxBody
  <2>1. CASE Got(c) = <<>>
    BY <1>1, <1>4, <2>1, ReadIsGot
  <2>2. CASE Got(c) # <<>>
    <3> DEFINE m == Response(req[c], served[c])
    <3>1. /\ m \in Message /\ BodyLen(m) \in Nat
          /\ BodyLen(m) <= MaxBody /\ Begins(Got(c), m)
      BY <1>1, <2>2 DEF Answered, Asked, CanFrame, Message
    <3> HIDE DEF m
    <3>2. Begins(buf.client[c], m)
      BY <1>2, <3>1, ReadBegins
    <3> QED
      BY <1>2, <1>3, <3>1, <3>2 DEF Begins
  <2> QED
    BY <2>1, <2>2
<1> QED
  BY <1>5, <1>6 DEF Ends

\* The types; the lock of the session is held by the handler that has entered
\* it and by no other, and nothing longer than a frame is ever buffered.
THEOREM TypeCorrect == Spec => []TypeOK
<1>1. ASSUME ServiceInv PROVE TypeOK
  <2>1. ServiceTypes
    BY <1>1 DEF ServiceInv
  <2>2. DOMAIN tmp = DOMAIN files
    BY <2>1 DEF ServiceTypes, Files, PartFiles
  <2>3. ASSUME NEW c \in Connections
        PROVE  /\ handler[c] \in {"off", "read", "write", "renameChunk",
                                  "renameManifest", "renameSignature", "reply"}
               /\ (lock = c) = (handler[c] \in {"write", "renameChunk",
                                                "renameManifest", "renameSignature"})
               /\ client[c] \in {"new", "idle", "waiting", "gone"}
               /\ req[c] \in Requests \cup {Absent}
               /\ link[c] \in {"none", "up", "down", "broken"}
               /\ \A e \in Ends : Len(buf[e][c]) <= HeaderLen + MaxBody
    <3>1. lock = c <=> handler[c] \in Working
      BY <1>1, OfConnection DEF LockHeld
    <3>2. \A e \in Ends : Len(buf[e][c]) <= HeaderLen + MaxBody
      BY <1>1, BufferFits
    <3>3. /\ handler[c] \in {"off", "read", "reply"} \cup Working
          /\ client[c] \in {"new", "idle", "waiting", "gone"}
          /\ req[c] \in Requests \cup {Absent}
          /\ link[c] \in {"none", "up", "down"}
      BY <2>1 DEF ServiceTypes
    <3> QED
      BY <3>1, <3>2, <3>3 DEF Working
  <2> QED
    BY <2>1, <2>2, <2>3 DEF TypeOK, ServiceTypes
<1> QED
  BY <1>1, ServiceInvariant, PTL

\* However the streams hand their units over, a call fails, and a handler
\* ends, only for a reason (broker_protocol.py:38-58).
THEOREM NoBrokenConnection == Spec => []FailsForAReason
<1>1. ASSUME ServiceInv PROVE FailsForAReason
  <2>1. \A c \in Connections : link[c] \in {"none", "up", "down"}
    BY <1>1 DEF ServiceInv, ServiceTypes
  <2> QED
    BY <2>1 DEF FailsForAReason
<1> QED
  BY <1>1, ServiceInvariant, PTL

-----------------------------------------------------------------------------
(* The service implements SessionStore.  A step of one connection changes  *)
(* that one's call, and the files it has carried out a request on.         *)

\* The store serves the same requests.
LEMMA SameRequests ==
  /\ Store!Request = Request /\ Store!Files = Files
  /\ \A r : Store!Writes(r) = Writes(r)
  /\ \A s, r : Store!After(s, r) = After(s, r) /\ Store!Answer(s, r) = Answer(s, r)
  /\ \A p, r, a : Store!Call(p, r, a) = Call(p, r, a)
<1>1. Store!Request = Request /\ Store!Files = Files
  BY DEF Store!Request, Request, Store!Files, Files
<1>2. \A r : Store!Writes(r) = Writes(r)
  BY DEF Store!Writes, Writes
<1>3. \A s : Store!Listed(s) = Listed(s)
  BY DEF Store!Listed, Listed
<1>4. \A s, r : Store!After(s, r) = After(s, r)
  BY DEF Store!After, After
<1>5. \A s, r : Store!Answer(s, r) = Answer(s, r)
  BY <1>2, <1>3 DEF Store!Answer, Answer
<1>6. \A p, r, a : Store!Call(p, r, a) = Call(p, r, a)
  BY DEF Store!Call, Call
<1> QED
  BY <1>1, <1>2, <1>4, <1>5, <1>6

\* The call of a connection, by where its client is.
LEMMA CallIs ==
  ASSUME NEW c \in Connections
  PROVE  /\ client[c] \in {"new", "idle"} => AbstractCall(c) = Call("idle", req[c], got[c])
         /\ client[c] = "waiting" /\ served[c] = Absent =>
              AbstractCall(c) = Call("waiting", req[c], Absent)
         /\ client[c] = "waiting" /\ served[c] # Absent =>
              AbstractCall(c) = Call("answered", req[c], served[c])
         /\ client[c] = "gone" /\ CanBeServed(c) =>
              AbstractCall(c) = Call("stray", Sent(c)[1].msg, Absent)
         /\ client[c] = "gone" /\ ~CanBeServed(c) =>
              AbstractCall(c) = Call("gone", Absent, Absent)
BY DEF AbstractCall

\* So is its call after a step.
LEMMA CallBecomes ==
  ASSUME NEW c \in Connections
  PROVE  /\ client'[c] \in {"new", "idle"} =>
              AbstractCall(c)' = Call("idle", req'[c], got'[c])
         /\ client'[c] = "waiting" /\ served'[c] = Absent =>
              AbstractCall(c)' = Call("waiting", req'[c], Absent)
         /\ client'[c] = "waiting" /\ served'[c] # Absent =>
              AbstractCall(c)' = Call("answered", req'[c], served'[c])
         /\ client'[c] = "gone" /\ CanBeServed(c)' =>
              AbstractCall(c)' = Call("stray", Sent(c)'[1].msg, Absent)
         /\ client'[c] = "gone" /\ ~CanBeServed(c)' =>
              AbstractCall(c)' = Call("gone", Absent, Absent)
BY DEF AbstractCall

\* A connection that stays as it is keeps its call.
LEMMA SameCall ==
  ASSUME NEW d \in Connections, Same(d)
  PROVE  AbstractCall(d)' = AbstractCall(d) /\ CanBeServed(d)' = CanBeServed(d)
<1>1. Sent(d)' = Sent(d)
  BY SameConversation
<1>2. CanBeServed(d)' = CanBeServed(d)
  BY <1>1 DEF Same, CanBeServed
<1> QED
  BY <1>1, <1>2 DEF Same, AbstractCall

\* A step of one connection changes its call only.
LEMMA OneCall ==
  ASSUME NEW c \in Connections, \A d \in Connections \ {c} : Same(d)
  PROVE  /\ AbstractCalls' = [AbstractCalls EXCEPT ![c] = AbstractCall(c)']
         /\ AbstractCalls[c] = AbstractCall(c)
         /\ AbstractCall(c)' = AbstractCall(c) => AbstractCalls' = AbstractCalls
<1>1. \A d \in Connections \ {c} : AbstractCall(d)' = AbstractCall(d)
  BY SameCall
<1>2. AbstractCalls' = [d \in Connections |-> AbstractCall(d)']
  BY DEF AbstractCalls
<1>3. AbstractCalls = [d \in Connections |-> AbstractCall(d)]
  BY DEF AbstractCalls
<1> QED
  BY <1>1, <1>2, <1>3

\* The store's files are the broker's, but for a manifest that is being replaced.
LEMMA FilesAre ==
  ASSUME ServiceInv
  PROVE  /\ \A c \in Connections :
              handler[c] = "renameSignature" =>
                AbstractFiles = [files EXCEPT !.manifest = replaced]
         /\ \A c \in Connections :
              lock \in {c, Absent} /\ handler[c] # "renameSignature" => AbstractFiles = files
         /\ AbstractFiles \in Files
<1>1. ServiceTypes
  BY DEF ServiceInv
<1>2. ASSUME NEW c \in Connections, lock \in {c, Absent}, handler[c] # "renameSignature",
             NEW d \in Connections
      PROVE  handler[d] # "renameSignature"
  <2>1. lock = d <=> handler[d] \in Working
    BY OfConnection DEF LockHeld
  <2>2. d # Absent
    BY ServiceAssumption
  <2> QED
    BY <1>2, <2>1, <2>2 DEF Working
<1>3. AbstractFiles \in Files
  BY <1>1 DEF AbstractFiles, ServiceTypes, Files
<1> QED
  BY <1>2, <1>3, Zenon DEF AbstractFiles

\* A step that neither changes the files nor moves a handler to or from its
\* last rename leaves the store's files alone.
LEMMA SameFiles ==
  ASSUME UNCHANGED <<files, replaced>>,
         \A c \in Connections :
           handler'[c] = "renameSignature" <=> handler[c] = "renameSignature"
  PROVE  AbstractFiles' = AbstractFiles
BY DEF AbstractFiles

\* A request that is on its way to the broker, and not yet carried out.
LEMMA CallOfRequest ==
  ASSUME ServiceInv, NEW c \in Connections, handler[c] = "read" \/ handler[c] \in Working,
         FrameRead(buf.server[c])
  PROVE  /\ client[c] \in {"waiting", "gone"}
         /\ client[c] = "waiting" => AbstractCall(c) = Call("waiting", Body(c), Absent)
         /\ client[c] = "gone" => AbstractCall(c) = Call("stray", Body(c), Absent)
<1>1. ServiceTypes /\ Asked(c) /\ Served(c)
  BY OfConnection
<1>2. /\ client[c] \in {"waiting", "gone"} /\ Sent(c) = buf.server[c] /\ Sent(c) # <<>>
      /\ Sent(c)[1].msg = Body(c) /\ Intact(buf.server[c])
      /\ client[c] = "waiting" => req[c] = Body(c)
  BY <1>1, WholeRequest
<1>3. client[c] = "waiting" => served[c] = Absent
  BY <1>1, <1>2 DEF Served, Working
<1>4. CanBeServed(c)
  BY <1>2 DEF CanBeServed, Working
<1> QED
  BY <1>2, <1>3, <1>4, CallIs

\* A request is carried out: of a client that waits, or of one that has gone.
LEMMA DoneRefines ==
  ASSUME ServiceInv, NEW c \in Connections, handler[c] = "read" \/ handler[c] \in Working,
         FrameRead(buf.server[c]), NEW a, a # Absent, Done(c, a)
  PROVE  /\ \A d \in Connections \ {c} : Same(d)
         /\ client[c] = "waiting" =>
              /\ AbstractCalls[c] = Call("waiting", Body(c), Absent)
              /\ AbstractCalls' = [AbstractCalls EXCEPT ![c] = Call("answered", Body(c), a)]
         /\ client[c] = "gone" =>
              /\ AbstractCalls[c] = Call("stray", Body(c), Absent)
              /\ AbstractCalls' = [AbstractCalls EXCEPT ![c] = Call("gone", Absent, Absent)]
         /\ client[c] \in {"waiting", "gone"} /\ handler'[c] = "reply"
         /\ \A d \in Connections \ {c} : handler'[d] = handler[d]
<1>1. ServiceTypes /\ Asked(c)
  BY OfConnection
<1>2. /\ served' = [served EXCEPT ![c] = a] /\ handler' = [handler EXCEPT ![c] = "reply"]
      /\ UNCHANGED <<client, req, got, link, inbox, buf>>
  BY DEF Done, ends
<1>3. /\ served'[c] = a /\ handler'[c] = "reply"
      /\ \A d \in Connections \ {c} : served'[d] = served[d] /\ handler'[d] = handler[d]
  BY <1>1, <1>2 DEF ServiceTypes
<1>4. \A d \in Connections \ {c} : Same(d)
  BY <1>2, <1>3 DEF Same
<1>5. /\ client[c] \in {"waiting", "gone"}
      /\ client[c] = "waiting" => AbstractCall(c) = Call("waiting", Body(c), Absent)
      /\ client[c] = "gone" => AbstractCall(c) = Call("stray", Body(c), Absent)
  BY CallOfRequest
<1>6. client[c] = "waiting" => req[c] = Body(c)
  BY <1>1, WholeRequest
<1>7. ~CanBeServed(c)'
  BY <1>3 DEF CanBeServed
<1>8. /\ client[c] = "waiting" => AbstractCall(c)' = Call("answered", Body(c), a)
      /\ client[c] = "gone" => AbstractCall(c)' = Call("gone", Absent, Absent)
  BY <1>2, <1>3, <1>6, <1>7, CallBecomes
<1> QED
  BY <1>3, <1>4, <1>5, <1>8, OneCall

\* As SessionStore's.
LEMMA CarriedOut ==
  ASSUME ServiceInv, NEW c \in Connections, handler[c] = "read" \/ handler[c] \in Working,
         FrameRead(buf.server[c]), Done(c, Answer(AbstractFiles, Body(c))),
         Answer(AbstractFiles, Body(c)) # Absent,
         AbstractFiles' = After(AbstractFiles, Body(c))
  PROVE  Store!Next
<1> DEFINE a == Answer(AbstractFiles, Body(c))
<1>1. /\ client[c] = "waiting" =>
           /\ AbstractCalls[c] = Call("waiting", Body(c), Absent)
           /\ AbstractCalls' = [AbstractCalls EXCEPT ![c] = Call("answered", Body(c), a)]
      /\ client[c] = "gone" =>
           /\ AbstractCalls[c] = Call("stray", Body(c), Absent)
           /\ AbstractCalls' = [AbstractCalls EXCEPT ![c] = Call("gone", Absent, Absent)]
      /\ client[c] \in {"waiting", "gone"}
  BY DoneRefines
<1>2. CASE client[c] = "waiting"
  <2>1. AbstractCalls[c].at = "waiting" /\ AbstractCalls[c].req = Body(c)
    BY <1>1, <1>2 DEF Call
  <2>2. Store!Execute(c)
    BY <1>1, <1>2, <2>1, SameRequests DEF Store!Execute
  <2> QED
    BY <2>2 DEF Store!Next
<1>3. CASE client[c] = "gone"
  <2>1. AbstractCalls[c].at = "stray" /\ AbstractCalls[c].req = Body(c)
    BY <1>1, <1>3 DEF Call
  <2>2. Store!ExecuteStray(c)
    BY <1>1, <1>3, <2>1, SameRequests DEF Store!ExecuteStray, Store!Gone
  <2> QED
    BY <2>2 DEF Store!Next
<1> QED
  BY <1>1, <1>2, <1>3

\* Nothing that the store's programs see has changed.
LEMMA Stutters ==
  ASSUME NEW c \in Connections, \A d \in Connections \ {c} : Same(d),
         AbstractCall(c)' = AbstractCall(c), AbstractFiles' = AbstractFiles
  PROVE  UNCHANGED Store!vars
BY OneCall DEF Store!vars

\* What a recv reads, no program sees.
LEMMA RecvRefines ==
  ASSUME ServiceInv, NEW c \in Connections, NEW e \in Ends, Recv(c, e)
  PROVE  UNCHANGED Store!vars
<1>1. /\ \A d \in Connections \ {c} : Same(d)
      /\ UNCHANGED <<files, replaced, handler, client, req, got, served>>
      /\ Sent(c)' = Sent(c)
  BY OfConnection, RecvEffect
<1>2. CanBeServed(c)' = CanBeServed(c)
  BY <1>1 DEF CanBeServed
<1>3. AbstractCall(c)' = AbstractCall(c)
  BY <1>1, <1>2 DEF AbstractCall
<1>4. AbstractFiles' = AbstractFiles
  BY <1>1, SameFiles
<1> QED
  BY <1>1, <1>3, <1>4, Stutters

\* A connection is no call yet.
LEMMA ConnectRefines ==
  ASSUME ServiceInv, NEW c \in Connections, Connect(c)
  PROVE  UNCHANGED Store!vars
<1>1. ServiceTypes /\ LinkStands(c)
  BY OfConnection
<1>2. /\ client[c] = "new" /\ client' = [client EXCEPT ![c] = "idle"]
      /\ handler' = [handler EXCEPT ![c] = "read"] /\ link' = [link EXCEPT ![c] = "up"]
      /\ UNCHANGED <<files, tmp, lock, replaced, req, got, served, inbox, buf, calls>>
  BY DEF Connect, ends
<1>3. \A d \in Connections \ {c} : Same(d)
  BY <1>1, <1>2 DEF ServiceTypes, Same
<1>4. client'[c] = "idle" /\ handler'[c] = "read" /\ handler[c] = "off"
  BY <1>1, <1>2 DEF ServiceTypes, LinkStands
<1>5. AbstractCall(c)' = AbstractCall(c)
  BY <1>2, <1>4, CallIs, CallBecomes
<1>6. AbstractFiles' = AbstractFiles
  BY <1>2, <1>3, <1>4, SameFiles DEF Same
<1> QED
  BY <1>3, <1>5, <1>6, Stutters

\* The program calls.
LEMMA SendRefines ==
  ASSUME ServiceInv, NEW c \in Connections, Send(c)
  PROVE  Store!Next
<1>1. /\ \A d \in Connections \ {c} : Same(d)
      /\ client[c] = "idle" /\ UNCHANGED <<files, replaced, handler>>
      /\ client'[c] = "waiting" /\ served'[c] = Absent /\ req'[c] \in Requests
  BY SendEffect
<1>2. AbstractCall(c) = Call("idle", req[c], got[c])
  BY <1>1, CallIs
<1>3. AbstractCall(c)' = Call("waiting", req'[c], Absent)
  BY <1>1, CallBecomes
<1>4. AbstractFiles' = AbstractFiles
  BY <1>1, SameFiles
<1>5. AbstractCalls[c].at = "idle" /\ req'[c] \in Request
  BY <1>1, <1>2, OneCall, RequestFields DEF Call
<1>6. AbstractCalls' = [AbstractCalls EXCEPT ![c] = Call("waiting", req'[c], Absent)]
  BY <1>1, <1>3, OneCall
<1>7. Store!Ask(c)
  BY <1>4, <1>5, <1>6, SameRequests DEF Store!Ask
<1> QED
  BY <1>7 DEF Store!Next

\* The call returns the answer the request has been given.
LEMMA ReturnRefines ==
  ASSUME ServiceInv, NEW c \in Connections, Return(c)
  PROVE  Store!Next
<1>1. ServiceTypes
  BY OfConnection
<1>2. /\ client[c] = "waiting" /\ FrameRead(buf.client[c])
      /\ got' = [got EXCEPT ![c] = buf.client[c][1].msg.answer]
      /\ client' = [client EXCEPT ![c] = "idle"]
      /\ buf' = [buf EXCEPT !.client[c] = <<>>]
      /\ UNCHANGED <<files, tmp, lock, replaced, handler, req, served, link, inbox, calls>>
  BY DEF Return
<1>3. Got(c) # <<>>
  BY <1>1, <1>2, ReadIsGot
<1>4. buf.client[c][1].msg = Response(req[c], served[c]) /\ served[c] # Absent
  BY <1>2, <1>3, WholeAnswer
<1>5. got'[c] = served[c] /\ client'[c] = "idle"
  BY <1>1, <1>2, <1>4 DEF ServiceTypes, Response
<1>6. \A d \in Connections \ {c} : Same(d)
  <2>1. /\ buf'.server = buf.server
        /\ \A d \in Connections \ {c} : buf'.client[d] = buf.client[d]
    BY <1>1, <1>2, NoUnits DEF ServiceTypes, Ends
  <2> QED
    BY <1>1, <1>2, <2>1 DEF ServiceTypes, Same
<1>7. AbstractCall(c) = Call("answered", req[c], served[c])
  BY <1>2, <1>4, CallIs
<1>8. AbstractCall(c)' = Call("idle", req[c], served[c])
  BY <1>2, <1>5, CallBecomes
<1>9. AbstractFiles' = AbstractFiles
  BY <1>2, SameFiles
<1>10. AbstractCalls[c] = Call("answered", req[c], served[c])
  BY <1>6, <1>7, OneCall
<1>11. [AbstractCalls[c] EXCEPT !.at = "idle"] = Call("idle", req[c], served[c])
  BY <1>10 DEF Call
<1>12. AbstractCalls' = [AbstractCalls EXCEPT ![c] = [AbstractCalls[c] EXCEPT !.at = "idle"]]
  BY <1>6, <1>8, <1>11, OneCall
<1>13. AbstractCalls[c].at = "answered"
  BY <1>10 DEF Call
<1>14. Store!Return(c)
  BY <1>9, <1>12, <1>13 DEF Store!Return
<1> QED
  BY <1>14 DEF Store!Next

\* A client that leaves gives its call up; if the whole frame of the request
\* has been sent it may still be carried out.
LEMMA LeavesRefines ==
  ASSUME ServiceInv, NEW c \in Connections, client[c] \in {"idle", "waiting"},
         Left(c)
  PROVE  Store!Next
<1>1. ServiceTypes /\ Asked(c) /\ Served(c)
  BY OfConnection
<1>2. /\ \A d \in Connections \ {c} : Same(d)
      /\ UNCHANGED <<files, replaced, handler, served>> /\ client'[c] = "gone"
      /\ Sent(c) = <<>> => Sent(c)' = <<>>
      /\ \A m : BodyLen(m) \in Nat /\ Begins(Sent(c), m) => Begins(Sent(c)', m)
  BY DEF Left
<1>3. AbstractFiles' = AbstractFiles
  BY <1>2, SameFiles
<1>4. AbstractCalls[c] = AbstractCall(c)
  BY <1>2, OneCall
<1>5. AbstractCalls[c].at # "gone"
  BY <1>4, CallIs DEF Call
<1>6. CASE ~CanBeServed(c)'
  <2>1. AbstractCalls' = [AbstractCalls EXCEPT ![c] = Call("gone", Absent, Absent)]
    BY <1>2, <1>6, CallBecomes, OneCall
  <2>2. Store!GiveUp(c)
    BY <1>3, <1>5, <2>1, SameRequests DEF Store!GiveUp, Store!Gone
  <2> QED
    BY <2>2 DEF Store!Next
<1>7. CASE CanBeServed(c)'
  <2>1. Sent(c)' # <<>> /\ Sent(c) # <<>> /\ handler[c] \notin {"off", "reply"}
    BY <1>2, <1>7 DEF CanBeServed
  <2>2. client[c] = "waiting"
    BY <1>1, <2>1 DEF Asked
  <2>3. served[c] = Absent
    BY <1>1, <2>1, <2>2 DEF Served
  <2>4. /\ req[c] \in Requests /\ req[c] \in Message /\ BodyLen(req[c]) \in Nat
        /\ Begins(Sent(c)', req[c])
    BY <1>2, <1>1, <2>2, RequestFields DEF Asked, Message
  <2>5. Sent(c)'[1].msg = req[c]
    BY <2>1, <2>4, BeginningOfFrame
  <2>6. AbstractCalls[c] = Call("waiting", req[c], Absent)
    BY <1>4, <2>2, <2>3, CallIs
  <2>7. AbstractCall(c)' = Call("stray", req[c], Absent)
    BY <1>2, <1>7, <2>5, CallBecomes
  <2>8. [AbstractCalls[c] EXCEPT !.at = "stray"] = Call("stray", req[c], Absent)
    BY <2>6 DEF Call
  <2>9. AbstractCalls' = [AbstractCalls EXCEPT ![c] = [AbstractCalls[c] EXCEPT !.at = "stray"]]
    BY <1>2, <2>7, <2>8, OneCall
  <2>10. AbstractCalls[c].at = "waiting"
    BY <2>6 DEF Call
  <2>11. Store!GiveUp(c)
    BY <1>3, <2>9, <2>10 DEF Store!GiveUp
  <2> QED
    BY <2>11 DEF Store!Next
<1> QED
  BY <1>6, <1>7

\* A request that reads is carried out when the files are looked at.
LEMMA LookRefines ==
  ASSUME ServiceInv, NEW c \in Connections, Look(c)
  PROVE  Store!Next
<1>1. ServiceTypes /\ Asked(c)
  BY OfConnection
<1>2. /\ handler[c] = "read" /\ FrameRead(buf.server[c]) /\ UNCHANGED <<files, tmp, replaced>>
  BY DEF Look, CanServe
<1>3. Body(c) \in Requests /\ Intact(buf.server[c])
  BY <1>1, <1>2, WholeRequest
<1>4. /\ ~Writes(Body(c)) /\ Done(c, Answer(files, Body(c))) /\ lock = Absent
  BY <1>3 DEF Look, CanServe, LockFree
<1>5. AbstractFiles = files /\ files \in Files
  BY <1>1, <1>2, <1>4, FilesAre DEF ServiceTypes
<1>6. Answer(files, Body(c)) # Absent
  BY <1>3, <1>5, ServiceAssumption
<1>7. AbstractFiles' = AbstractFiles
  <2>1. /\ handler'[c] = "reply"
        /\ \A d \in Connections \ {c} : handler'[d] = handler[d]
    BY <1>2, <1>4, <1>6, DoneRefines
  <2> QED
    BY <1>2, <2>1, SameFiles
<1>8. After(files, Body(c)) = files
  BY <1>4 DEF After, Writes
<1> QED
  BY <1>2, <1>4, <1>5, <1>6, <1>7, <1>8, CarriedOut

\* A handler that goes on with its request, or with its answer.
LEMMA HandlerGoesOn ==
  ASSUME ServiceInv, NEW c \in Connections, NEW h, h \notin {"off", "reply"},
         handler[c] \notin {"off", "reply"}, handler' = [handler EXCEPT ![c] = h],
         UNCHANGED <<client, req, got, served, link, inbox, buf>>,
         AbstractFiles' = AbstractFiles
  PROVE  UNCHANGED Store!vars
<1>1. handler'[c] = h /\ \A d \in Connections \ {c} : handler'[d] = handler[d]
  BY OfConnection DEF ServiceTypes
<1>2. \A d \in Connections \ {c} : Same(d)
  BY <1>1 DEF Same
<1>3. Sent(c)' = Sent(c)
  BY DEF Sent
<1>4. CanBeServed(c)' = CanBeServed(c)
  BY <1>1, <1>3 DEF CanBeServed
<1>5. AbstractCall(c)' = AbstractCall(c)
  BY <1>3, <1>4 DEF AbstractCall
<1> QED
  BY <1>2, <1>5, Stutters

\* The lock is not visible to the programs.
LEMMA AcquireRefines ==
  ASSUME ServiceInv, NEW c \in Connections, Acquire(c) PROVE UNCHANGED Store!vars
<1>1. /\ handler[c] = "read" /\ handler' = [handler EXCEPT ![c] = "write"]
      /\ UNCHANGED <<files, replaced, client, req, got, served, link, inbox, buf>>
  BY DEF Acquire, CanServe, ends
<1>2. AbstractFiles' = AbstractFiles
  BY <1>1, OfConnection, SameFiles DEF ServiceTypes
<1> QED
  BY <1>1, <1>2, HandlerGoesOn

\* Nor is a .part file.
LEMMA WriteRefines ==
  ASSUME ServiceInv, NEW c \in Connections, Write(c) PROVE UNCHANGED Store!vars
<1> DEFINE h == IF Body(c).cmd = "PUT_CHUNK" THEN "renameChunk" ELSE "renameManifest"
<1>1. /\ handler[c] = "write" /\ handler' = [handler EXCEPT ![c] = h]
      /\ UNCHANGED <<files, replaced, client, req, got, served, link, inbox, buf>>
  BY DEF Write, ends
<1>2. h \notin {"off", "reply", "renameSignature"}
  OBVIOUS
<1> HIDE DEF h
<1>3. AbstractFiles' = AbstractFiles
  BY <1>1, <1>2, OfConnection, SameFiles DEF ServiceTypes
<1> QED
  BY <1>1, <1>2, <1>3, HandlerGoesOn

\* A PUT that fails is refused.
LEMMA WriteFailsRefines ==
  ASSUME ServiceInv, NEW c \in Connections, WriteFails(c)
  PROVE  Store!Next
<1>1. /\ DiskMayFail /\ handler[c] \in Working /\ handler[c] = "write" /\ Done(c, Refused)
      /\ UNCHANGED <<files, replaced>>
  BY DEF WriteFails, Working
<1>2. FrameRead(buf.server[c]) /\ Writes(Body(c))
  BY <1>1, WritesRequest
<1>3. Refused # Absent
  BY ServiceAssumption
<1>4. /\ client[c] = "waiting" =>
           /\ AbstractCalls[c] = Call("waiting", Body(c), Absent)
           /\ AbstractCalls' = [AbstractCalls EXCEPT ![c] = Call("answered", Body(c), Refused)]
      /\ client[c] = "gone" =>
           /\ AbstractCalls[c] = Call("stray", Body(c), Absent)
           /\ AbstractCalls' = [AbstractCalls EXCEPT ![c] = Call("gone", Absent, Absent)]
      /\ client[c] \in {"waiting", "gone"} /\ handler'[c] = "reply"
      /\ \A d \in Connections \ {c} : handler'[d] = handler[d]
  BY <1>1, <1>2, <1>3, DoneRefines
<1>5. AbstractFiles' = AbstractFiles
  BY <1>1, <1>4, SameFiles
<1>6. CASE client[c] = "waiting"
  <2>1. AbstractCalls[c].at = "waiting" /\ AbstractCalls[c].req = Body(c)
    BY <1>4, <1>6 DEF Call
  <2>2. Store!Refuse(c)
    BY <1>1, <1>2, <1>4, <1>5, <1>6, <2>1, SameRequests DEF Store!Refuse
  <2> QED
    BY <2>2 DEF Store!Next
<1>7. CASE client[c] = "gone"
  <2>1. AbstractCalls[c].at # "gone"
    BY <1>4, <1>7 DEF Call
  <2>2. Store!GiveUp(c)
    BY <1>4, <1>5, <1>7, <2>1, SameRequests DEF Store!GiveUp, Store!Gone
  <2> QED
    BY <2>2 DEF Store!Next
<1> QED
  BY <1>4, <1>6, <1>7

\* A PUT_CHUNK is carried out when its .part file is renamed.
LEMMA RenameChunkRefines ==
  ASSUME ServiceInv, NEW c \in Connections, RenameChunk(c)
  PROVE  Store!Next
<1>1. /\ handler[c] = "renameChunk" /\ handler[c] \in Working
  BY DEF RenameChunk, Working
<1>2. ServiceInv' /\ files' = After(files, Body(c)) /\ Done(c, <<>>)
  BY RenameChunkInv
<1>3. /\ FrameRead(buf.server[c]) /\ Writes(Body(c)) /\ lock = c /\ CanFrame(Body(c), <<>>)
      /\ Body(c) \in Requests
  BY <1>1, WritesRequest
<1>4. AbstractFiles = files
  BY <1>1, <1>3, FilesAre
<1>5. AbstractFiles' = files'
  <2>1. \A d \in Connections : handler[d] # "renameSignature"
    <3> SUFFICES ASSUME NEW d \in Connections, handler[d] = "renameSignature" PROVE FALSE
      OBVIOUS
    <3>1. lock = d
      BY OfConnection DEF LockHeld, Working
    <3> QED
      BY <1>1, <1>3, <3>1
  <2>2. /\ handler'[c] = "reply" /\ \A d \in Connections \ {c} : handler'[d] = handler[d]
    BY <1>1, <1>2, <1>3, DoneRefines DEF CanFrame
  <2> QED
    BY <2>1, <2>2 DEF AbstractFiles
<1>6. Answer(files, Body(c)) = <<>> /\ <<>> # Absent
  BY <1>3, OfConnection, AnswerFits DEF ServiceTypes, CanFrame
<1> QED
  BY <1>1, <1>2, <1>3, <1>4, <1>5, <1>6, CarriedOut

\* A new manifest waits for its signature: the store still has the old one.
LEMMA RenameManifestRefines ==
  ASSUME ServiceInv, NEW c \in Connections, RenameManifest(c) PROVE UNCHANGED Store!vars
<1>1. /\ handler[c] = "renameManifest" /\ handler[c] \in Working
      /\ files' = [files EXCEPT !.manifest = tmp.manifest] /\ replaced' = files.manifest
      /\ handler' = [handler EXCEPT ![c] = "renameSignature"]
      /\ UNCHANGED <<client, req, got, served, link, inbox, buf>>
  BY DEF RenameManifest, Working, ends
<1>2. ServiceTypes
  BY OfConnection
<1>3. AbstractFiles = files
  BY <1>1, WritesRequest, FilesAre
<1>4. [files' EXCEPT !.manifest = replaced'] = files
  BY <1>1, <1>2 DEF ServiceTypes, Files
<1>5. handler'[c] = "renameSignature"
  BY <1>1, <1>2 DEF ServiceTypes
<1>6. AbstractFiles' = [files' EXCEPT !.manifest = replaced']
  BY <1>5 DEF AbstractFiles
<1> QED
  BY <1>1, <1>3, <1>4, <1>6, HandlerGoesOn

\* Between the renames the files on the disk are a PUT_MANIFEST that is half done.
LEMMA BetweenRenames ==
  ASSUME ServiceInv, NEW c \in Connections, handler[c] = "renameSignature"
  PROVE  /\ AbstractCalls[c].at \in {"waiting", "stray"}
         /\ AbstractCalls[c].req = Body(c) /\ Body(c).cmd = "PUT_MANIFEST"
         /\ files = [AbstractFiles EXCEPT !.manifest = AbstractCalls[c].req.data]
<1>1. handler[c] \in Working
  BY DEF Working
<1>2. FrameRead(buf.server[c])
  BY <1>1, WritesRequest
<1>3. ServiceTypes /\ Body(c).cmd = "PUT_MANIFEST" /\ files.manifest = Body(c).data
  BY OfConnection DEF Progress
<1>4. AbstractFiles = [files EXCEPT !.manifest = replaced]
  BY FilesAre
<1>5. files = [AbstractFiles EXCEPT !.manifest = Body(c).data]
  BY <1>3, <1>4 DEF ServiceTypes, Files
<1>6. AbstractCalls[c].at \in {"waiting", "stray"} /\ AbstractCalls[c].req = Body(c)
  BY <1>1, <1>2, CallOfRequest DEF AbstractCalls, Call
<1> QED
  BY <1>3, <1>5, <1>6

\* A PUT_MANIFEST whose second rename fails is refused, and half done.
LEMMA RenameFailsRefines ==
  ASSUME ServiceInv, NEW c \in Connections, RenameFails(c)
  PROVE  Store!Next
<1>1. /\ DiskMayFail /\ handler[c] = "renameSignature" /\ handler[c] \in Working
      /\ Done(c, Refused) /\ UNCHANGED files
  BY DEF RenameFails, Working
<1>2. FrameRead(buf.server[c]) /\ Writes(Body(c)) /\ lock = c
  BY <1>1, WritesRequest
<1>3. Refused # Absent
  BY ServiceAssumption
<1>4. /\ client[c] = "waiting" =>
           /\ AbstractCalls[c] = Call("waiting", Body(c), Absent)
           /\ AbstractCalls' = [AbstractCalls EXCEPT ![c] = Call("answered", Body(c), Refused)]
      /\ client[c] = "gone" =>
           /\ AbstractCalls[c] = Call("stray", Body(c), Absent)
           /\ AbstractCalls' = [AbstractCalls EXCEPT ![c] = Call("gone", Absent, Absent)]
      /\ client[c] \in {"waiting", "gone"} /\ handler'[c] = "reply"
      /\ \A d \in Connections \ {c} : handler'[d] = handler[d]
  BY <1>1, <1>2, <1>3, DoneRefines
<1>5. AbstractFiles' = files
  <2>1. \A d \in Connections \ {c} : handler[d] # "renameSignature"
    BY <1>2, OfConnection DEF LockHeld, Working
  <2> QED
    BY <1>1, <1>4, <2>1 DEF AbstractFiles
<1>6. Store!HalfDone(c)
  BY <1>1, <1>5, BetweenRenames DEF Store!HalfDone
<1>7. CASE client[c] = "waiting"
  <2>1. AbstractCalls[c].at = "waiting" /\ AbstractCalls[c].req = Body(c)
    BY <1>4, <1>7 DEF Call
  <2>2. Store!Refuse(c)
    BY <1>1, <1>2, <1>4, <1>6, <1>7, <2>1, SameRequests DEF Store!Refuse
  <2> QED
    BY <2>2 DEF Store!Next
<1>8. CASE client[c] = "gone"
  <2>1. AbstractCalls[c].at = "stray"
    BY <1>4, <1>8 DEF Call
  <2>2. Store!RefuseStray(c)
    BY <1>1, <1>4, <1>6, <1>8, <2>1, SameRequests DEF Store!RefuseStray, Store!Gone
  <2> QED
    BY <2>2 DEF Store!Next
<1> QED
  BY <1>4, <1>7, <1>8

\* A PUT_MANIFEST is carried out when the signature takes its name too.
LEMMA RenameSignatureRefines ==
  ASSUME ServiceInv, NEW c \in Connections, RenameSignature(c)
  PROVE  Store!Next
<1>1. /\ handler[c] = "renameSignature" /\ handler[c] \in Working
  BY DEF RenameSignature, Working
<1>2. /\ Done(c, <<>>)
      /\ files' = After([files EXCEPT !.manifest = replaced], Body(c))
  BY RenameSignatureInv
<1>3. /\ FrameRead(buf.server[c]) /\ Writes(Body(c)) /\ lock = c /\ CanFrame(Body(c), <<>>)
      /\ Body(c) \in Requests
  BY <1>1, WritesRequest
<1>4. AbstractFiles = [files EXCEPT !.manifest = replaced] /\ AbstractFiles \in Files
  BY <1>1, FilesAre
<1>5. AbstractFiles' = files'
  <2>1. \A d \in Connections \ {c} : handler[d] # "renameSignature"
    <3> SUFFICES ASSUME NEW d \in Connections \ {c}, handler[d] = "renameSignature" PROVE FALSE
      OBVIOUS
    <3>1. lock = d
      BY OfConnection DEF LockHeld, Working
    <3> QED
      BY <1>3, <3>1
  <2>2. /\ handler'[c] = "reply" /\ \A d \in Connections \ {c} : handler'[d] = handler[d]
    BY <1>1, <1>2, <1>3, DoneRefines DEF CanFrame
  <2> QED
    BY <2>1, <2>2 DEF AbstractFiles
<1>6. Answer(AbstractFiles, Body(c)) = <<>> /\ <<>> # Absent
  BY <1>3, <1>4, AnswerFits DEF CanFrame
<1> QED
  BY <1>1, <1>2, <1>3, <1>4, <1>5, <1>6, CarriedOut

\* An answer that is sent has been given before.
LEMMA ReplyRefines ==
  ASSUME ServiceInv, NEW c \in Connections, Reply(c) PROVE UNCHANGED Store!vars
<1>1. /\ \A d \in Connections \ {c} : Same(d)
      /\ UNCHANGED <<files, replaced, client, req, got, served>>
      /\ handler[c] = "reply" /\ handler'[c] = "read" /\ Sent(c)' = <<>>
  BY ReplyEffect
<1>2. ~CanBeServed(c) /\ ~CanBeServed(c)'
  BY <1>1 DEF CanBeServed
<1>3. AbstractCall(c)' = AbstractCall(c)
  BY <1>1, <1>2, OfConnection, CallIs, CallBecomes DEF ServiceTypes
<1>4. AbstractFiles' = AbstractFiles
  BY <1>1, SameFiles DEF Same
<1> QED
  BY <1>1, <1>3, <1>4, Stutters

\* No handler ends with a whole frame before it that it has not served.
LEMMA HandlerGoneRefines ==
  ASSUME ServiceInv, NEW c \in Connections, HandlerEnds(c) \/ ReplyTooLong(c)
  PROVE  UNCHANGED Store!vars
<1>1. /\ \A d \in Connections \ {c} : Same(d)
      /\ handler'[c] = "off" /\ UNCHANGED <<files, replaced, client, req, got, served>>
  BY HandlerGoneInv DEF Ended
<1>2. ServiceTypes /\ Asked(c)
  BY OfConnection
<1>3. handler[c] \in {"read", "reply"}
  BY DEF HandlerEnds, ReplyTooLong
<1>4. ~CanBeServed(c)
  <2> SUFFICES ASSUME CanBeServed(c) PROVE FALSE
    OBVIOUS
  <2>1. Sent(c) # <<>> /\ Intact(Sent(c)) /\ handler[c] # "reply"
    BY DEF CanBeServed
  <2>2. CannotRead(c, "server") /\ link[c] # "up"
    BY <2>1, ReadsUntilTheEnd DEF HandlerEnds, ReplyTooLong
  <2>3. PICK r \in Requests : r \in Message /\ BodyLen(r) \in Nat /\ Begins(Sent(c), r)
    BY <1>2, <2>1, OnTheWay
  <2>4. FrameRead(Sent(c))
    BY <2>1, <2>3, BeginningOfFrame
  <2>5. /\ buf.server[c] \in Seq(Unit) /\ inbox.server[c] \in Seq(Unit)
        /\ Sent(c) = buf.server[c] \o inbox.server[c]
    BY <1>2, Streams DEF Sent
  <2>6. Begins(buf.server[c], r)
    BY <2>3, <2>5, ReadBegins
  <2>7. HeaderRead(buf.server[c]) => Magic(buf.server[c])
    BY <2>3, <2>6, BeginningOfFrame
  <2>8. inbox.server[c] = <<>> /\ ~FrameRead(buf.server[c])
    BY <2>2, <2>7 DEF CannotRead
  <2>9. Sent(c) = buf.server[c]
    BY <2>5, <2>8
  <2> QED
    BY <2>4, <2>8, <2>9
<1>5. ~CanBeServed(c)'
  BY <1>1 DEF CanBeServed
<1>6. AbstractCall(c)' = AbstractCall(c)
  BY <1>1, <1>2, <1>4, <1>5, CallIs, CallBecomes DEF ServiceTypes
<1>7. AbstractFiles' = AbstractFiles
  BY <1>1, <1>3, SameFiles DEF Same
<1> QED
  BY <1>1, <1>6, <1>7, Stutters

\* A lost connection is only noticed by the reads that fail.
LEMMA CutRefines ==
  ASSUME ServiceInv, NEW c \in Connections, Cut(c) PROVE UNCHANGED Store!vars
<1>1. /\ \A d \in Connections \ {c} : Same(d)
      /\ UNCHANGED <<files, replaced, handler, client, req, got, served>>
  BY CutEffect
<1>2. client[c] \in {"idle", "waiting"}
  BY OfConnection DEF Cut, LinkStands
<1>3. AbstractCall(c)' = AbstractCall(c)
  BY <1>1, <1>2, CallIs, CallBecomes
<1>4. AbstractFiles' = AbstractFiles
  BY <1>1, SameFiles
<1> QED
  BY <1>1, <1>3, <1>4, Stutters

\* A broker that is killed leaves a manifest without its signature if a handler
\* was between the two renames; no other request is carried out in part.
LEMMA KilledRefines == ASSUME ServiceInv, Killed PROVE Store!Next
<1>1. ServiceTypes
  BY DEF ServiceInv
<1>2. /\ handler' = [c \in Connections |-> "off"]
      /\ UNCHANGED <<files, client, req, got, served>>
  BY DEF Killed
<1>3. ASSUME NEW c \in Connections
      PROVE  AbstractCall(c)' = IF AbstractCall(c).at = "stray" THEN Call("gone", Absent, Absent)
                                ELSE AbstractCall(c)
  <2>1. ~CanBeServed(c)'
    BY <1>2 DEF CanBeServed
  <2>2. client[c] \in {"new", "idle", "waiting", "gone"}
    BY <1>1 DEF ServiceTypes
  <2>3. CASE client[c] = "gone"
    BY <1>2, <2>1, <2>3, CallIs, CallBecomes DEF Call
  <2>4. CASE client[c] # "gone"
    <3>1. AbstractCall(c)' = AbstractCall(c)
      BY <1>2, <2>2, <2>4, CallIs, CallBecomes
    <3>2. AbstractCall(c).at # "stray"
      BY <2>2, <2>4, CallIs DEF Call
    <3> QED
      BY <3>1, <3>2
  <2> QED
    BY <2>3, <2>4
<1>4. AbstractCalls' = [c \in Connections |->
                          IF AbstractCalls[c].at = "stray" THEN Call("gone", Absent, Absent)
                          ELSE AbstractCalls[c]]
  BY <1>3 DEF AbstractCalls
<1>5. AbstractFiles' = files
  BY <1>2 DEF AbstractFiles
<1>6. CASE \A c \in Connections : handler[c] # "renameSignature"
  <2>1. AbstractFiles = files
    BY <1>6 DEF AbstractFiles
  <2>2. Store!Killed
    BY <1>4, <1>5, <2>1, SameRequests DEF Store!Killed, Store!Gone
  <2> QED
    BY <2>2 DEF Store!Next
<1>7. CASE \E c \in Connections : handler[c] = "renameSignature"
  <2>1. PICK c \in Connections : handler[c] = "renameSignature"
    BY <1>7
  <2>2. Store!HalfDone(c)
    BY <1>5, <2>1, BetweenRenames DEF Store!HalfDone
  <2>3. Store!Killed
    BY <1>4, <2>2, SameRequests DEF Store!Killed, Store!Gone
  <2> QED
    BY <2>3 DEF Store!Next
<1> QED
  BY <1>6, <1>7

\* Every step of the service is one of the store, or no step of it.
LEMMA StepRefines == ASSUME ServiceInv, [Next]_vars PROVE [Store!Next]_Store!vars
<1>1. ASSUME NEW c \in Connections, ClientStep(c) PROVE [Store!Next]_Store!vars
  <2>1. CASE Recv(c, "client")
    BY <2>1, RecvRefines DEF Ends
  <2>2. CASE CallFails(c)
    <3>1. client[c] \in {"idle", "waiting"} /\ Left(c)
      BY <2>2, CallFailsInv DEF CallFails
    <3> QED
      BY <3>1, LeavesRefines
  <2> QED
    BY <1>1, <2>1, <2>2, ReturnRefines DEF ClientStep
<1>2. ASSUME NEW c \in Connections, HandlerStep(c) PROVE [Store!Next]_Store!vars
  <2>1. CASE Recv(c, "server")
    BY <2>1, RecvRefines DEF Ends
  <2>2. CASE Look(c) \/ Acquire(c) \/ Write(c) \/ WriteFails(c)
    BY <2>2, LookRefines, AcquireRefines, WriteRefines, WriteFailsRefines
  <2>3. CASE RenameChunk(c) \/ RenameManifest(c) \/ RenameSignature(c) \/ RenameFails(c)
    BY <2>3, RenameChunkRefines, RenameManifestRefines, RenameSignatureRefines,
       RenameFailsRefines
  <2>4. CASE Reply(c) \/ ReplyTooLong(c) \/ HandlerEnds(c)
    BY <2>4, ReplyRefines, HandlerGoneRefines
  <2> QED
    BY <1>2, <2>1, <2>2, <2>3, <2>4 DEF HandlerStep
<1>3. ASSUME NEW c \in Connections, Leave(c) \/ GiveUp(c) PROVE [Store!Next]_Store!vars
  <2>1. client[c] \in {"idle", "waiting"} /\ Left(c)
    BY <1>3, LeaveInv, GiveUpInv DEF Leave, GiveUp
  <2> QED
    BY <2>1, LeavesRefines
<1>4. ASSUME NEW c \in Connections, Connect(c) \/ Send(c) \/ Cut(c)
      PROVE  [Store!Next]_Store!vars
  BY <1>4, ConnectRefines, SendRefines, CutRefines
<1>5. CASE Killed
  BY <1>5, KilledRefines
<1>6. CASE UNCHANGED vars
  <2>1. \A c \in Connections : Same(c)
    BY <1>6 DEF Same, vars, ends
  <2>2. AbstractCalls' = AbstractCalls
    BY <2>1, SameCall DEF AbstractCalls
  <2>3. AbstractFiles' = AbstractFiles
    BY <1>6, SameFiles DEF vars
  <2> QED
    BY <2>2, <2>3 DEF Store!vars
<1> QED
  BY <1>1, <1>2, <1>3, <1>4, <1>5, <1>6 DEF Next

\* Both start with no file and no call.
LEMMA InitRefines == ASSUME Init PROVE Store!Init
<1>1. /\ files \in Files /\ \A c \in Connections :
           /\ handler[c] = "off" /\ client[c] = "new"
           /\ req[c] = Absent /\ got[c] = Absent
  BY ServiceAssumption DEF Init
<1>2. AbstractFiles = files
  BY <1>1 DEF AbstractFiles
<1>3. AbstractCalls = [c \in Connections |-> Call("idle", Absent, Absent)]
  BY <1>1, CallIs DEF AbstractCalls
<1> QED
  BY <1>1, <1>2, <1>3, SameRequests DEF Store!Init

\* For the programs that call it the broker is the store: every request is
\* carried out at most once and as a whole, and answered as of that instant,
\* however the threads are interleaved, the frames cut into pieces and the
\* connections lost (broker_server.py:69-157, broker_protocol.py:38-66).
THEOREM ServiceImplementsStore == Spec => ImplementsStore
BY InitInv, StepInv, InitRefines, StepRefines, PTL DEF Spec, ImplementsStore, Store!Spec

-----------------------------------------------------------------------------
(* The size limits.                                                        *)

\* The limit, and half of it, in figures.
LEMMA Figures == MaxBodyLen = 67109120 /\ MaxBodyLen \div 2 = 33554560
BY SMT DEF MaxBodyLen

(***************************************************************************)
(* No chunk that --chunk-size allows is refused for its length, on its way *)
(* to the broker or back (sender_encrypt_upload.py:118,                    *)
(* broker_protocol.py:99, 232).                                            *)
(***************************************************************************)
THEOREM ChunksFit ==
  ASSUME NEW size \in Nat, ChunkSizeAllowed(size)
  PROVE  /\ PutChunkAccepted(Ciphertext(size))
         /\ Fits(PutChunkBody(Ciphertext(size)))
         /\ Fits(GetChunkAnswer(Ciphertext(size)))
BY Figures, SMT DEF ChunkSizeAllowed, Ciphertext, PutChunkAccepted, PutChunkBody,
                    GetChunkAnswer, Fits, SessionIdLen, TagLen, Length

(***************************************************************************)
(* A manifest that can be published can be fetched: half of MAX_BODY_LEN   *)
(* leaves room for the signature and both lengths (broker_protocol.py:165, *)
(* 223).                                                                   *)
(***************************************************************************)
THEOREM PublishedIsFetchable ==
  ASSUME NEW json \in Nat, NEW sig \in Nat, PutManifestAccepted(json, sig)
  PROVE  Fits(PutManifestBody(json, sig)) /\ Fits(GetManifestAnswer(json, sig))
BY Figures, SMT DEF PutManifestAccepted, PutManifestBody, GetManifestAnswer, Fits,
                    SessionIdLen, Length

(***************************************************************************)
(* The answer to LIST, on which every resumed upload begins, is only too   *)
(* long for an upload of so many chunks that its manifest could never be   *)
(* published (broker_protocol.py:155, 165).                                *)
(***************************************************************************)
THEOREM PublishedIsListable ==
  ASSUME NEW n \in Nat, NEW json \in Nat, NEW sig \in Nat,
         EntryLen * n <= json, PutManifestAccepted(json, sig)
  PROVE  Fits(ListAnswer(n))
BY Figures, SMT DEF PutManifestAccepted, Fits, ListAnswer, Length, EntryLen
=============================================================================
