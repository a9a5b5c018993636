------------------------ MODULE MCConcurrentUploads -------------------------
(* A small instance of ConcurrentUploads for TLC. *)
EXTENDS ConcurrentUploads, TLC

\* Two versions of one length, two chunks each, and a shorter one.
MCInputs == {<<1, 0>>, <<1, 1>>, <<0>>}

\* Data keys are only compared with each other.
Symmetric == Permutations(Deks)
=============================================================================
