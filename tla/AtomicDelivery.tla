--------------------------- MODULE AtomicDelivery ---------------------------
(***************************************************************************)
(* What a file transfer of this repository promises, whatever the          *)
(* transport.  A sender offers complete file contents; the destination     *)
(* name only ever shows a content that was offered in full, it changes in  *)
(* one step, an existing destination is replaced only with --overwrite,    *)
(* and success (exit code 0 of the sender of the mTLS stream, of the       *)
(* receiver of the envelopes) is reported only for what was delivered.     *)
(*                                                                         *)
(* Both transports (mTLS stream, envelope + broker) are meant to implement *)
(* this module: the refinement mappings are in MtlsStream and in           *)
(* EnvelopeTransfer.                                                       *)
(***************************************************************************)
CONSTANTS
  Contents,    \* the possible contents of a file
  Nothing,     \* no file, no report: not one of Contents
  Overwrite    \* TRUE iff an existing destination may be replaced

VARIABLES
  offered,     \* contents some run of the sender has committed to
  delivered,   \* contents the destination has shown so far
  out,         \* what the destination shows now
  reported     \* the content whose delivery is now reported

vars == <<offered, delivered, out, reported>>

TypeOK ==
  /\ offered \subseteq Contents
  /\ delivered \subseteq offered
  /\ out \in Contents \cup {Nothing}
  /\ reported \in Contents \cup {Nothing}

Init ==
  /\ offered = {}
  /\ delivered = {}
  /\ out = Nothing
  /\ reported = Nothing

\* The sender has put a whole content, and its digest, on the way.
Offer(c) ==
  /\ offered' = offered \cup {c}
  /\ UNCHANGED <<delivered, out, reported>>

\* The destination shows c from one step to the next, never a part of it.
Deliver(c) ==
  /\ c \in offered
  /\ Overwrite \/ out = Nothing
  /\ out' = c
  /\ delivered' = delivered \cup {c}
  /\ UNCHANGED <<offered, reported>>

\* The user takes the delivered file away.
Take ==
  /\ out # Nothing
  /\ out' = Nothing
  /\ UNCHANGED <<offered, delivered, reported>>

\* A program ends with exit code 0.
Report(c) ==
  /\ c \in delivered
  /\ reported' = c
  /\ UNCHANGED <<offered, delivered, out>>

\* The user starts another run of that program.
Rerun ==
  /\ reported' = Nothing
  /\ UNCHANGED <<offered, delivered, out>>

Next ==
  \/ \E c \in Contents : Offer(c) \/ Deliver(c) \/ Report(c)
  \/ Take
  \/ Rerun

Spec == Init /\ [][Next]_vars
=============================================================================
