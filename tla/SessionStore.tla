---------------------------- MODULE SessionStore ----------------------------
(***************************************************************************)
(* What the broker promises the programs that use it, for one session: a   *)
(* request is carried out at most once, as a whole, at one instant between *)
(* the call and the answer, and the answer is the one of that instant.  A  *)
(* request whose client has given up may be carried out at any later time, *)
(* or never.  A broker that is killed, or refuses it for a failing disk,   *)
(* may leave the manifest of one request with the signature of an earlier  *)
(* one.                                                                    *)
(*                                                                         *)
(* Broker.tla takes this for granted; BrokerService shows that the code    *)
(* keeps it.                                                               *)
(***************************************************************************)
EXTENDS SessionRequests

VARIABLES
  stored,   \* the files of the session
  call      \* per connection, its last call

vars == <<stored, call>>

Gone == Call("gone", Absent, Absent)

Init ==
  /\ stored \in Files
  /\ call = [c \in Connections |-> Call("idle", Absent, Absent)]

Ask(c) ==
  /\ call[c].at = "idle"
  /\ \E r \in Request : call' = [call EXCEPT ![c] = Call("waiting", r, Absent)]
  /\ UNCHANGED stored

Execute(c) ==
  LET r == call[c].req
  IN /\ call[c].at = "waiting"
     /\ stored' = After(stored, r)
     /\ call' = [call EXCEPT ![c] = Call("answered", r, Answer(stored, r))]

\* A request whose client has given up.
ExecuteStray(c) ==
  /\ call[c].at = "stray"
  /\ stored' = After(stored, call[c].req)
  /\ call' = [call EXCEPT ![c] = Gone]

\* A PUT_MANIFEST that is begun, but not finished.
HalfDone(c) ==
  /\ call[c].at \in {"waiting", "stray"} /\ call[c].req.cmd = "PUT_MANIFEST"
  /\ stored' = [stored EXCEPT !.manifest = call[c].req.data]

\* The disk fails.
Refuse(c) ==
  /\ DiskMayFail
  /\ call[c].at = "waiting" /\ Writes(call[c].req)
  /\ call' = [call EXCEPT ![c] = Call("answered", call[c].req, Refused)]
  /\ UNCHANGED stored \/ HalfDone(c)

RefuseStray(c) ==
  /\ DiskMayFail
  /\ call[c].at = "stray"
  /\ call' = [call EXCEPT ![c] = Gone]
  /\ HalfDone(c)

Return(c) ==
  /\ call[c].at = "answered"
  /\ call' = [call EXCEPT ![c].at = "idle"]
  /\ UNCHANGED stored

GiveUp(c) ==
  /\ call[c].at # "gone"
  /\ \/ call' = [call EXCEPT ![c] = Gone]
     \/ /\ call[c].at = "waiting"
        /\ call' = [call EXCEPT ![c].at = "stray"]
  /\ UNCHANGED stored

Killed ==
  /\ \/ UNCHANGED stored
     \/ \E c \in Connections : HalfDone(c)
  /\ call' = [c \in Connections |-> IF call[c].at = "stray" THEN Gone ELSE call[c]]

Next ==
  \/ Killed
  \/ \E c \in Connections :
       \/ Ask(c) \/ Execute(c) \/ ExecuteStray(c) \/ Refuse(c)
       \/ RefuseStray(c)
       \/ Return(c) \/ GiveUp(c)

Spec == Init /\ [][Next]_vars
=============================================================================
