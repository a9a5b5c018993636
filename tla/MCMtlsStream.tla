---------------------------- MODULE MCMtlsStream ----------------------------
(* Small instances of MtlsStream for TLC. *)
EXTENDS MtlsStream, TLC

\* Two versions of one length, and the empty file.
MCInputs == {<<1, 0>>, <<1, 1>>, <<>>}

\* Longer than a chunk, and not a multiple of it; edits keep the length.
MCLongInputs == {<<1, 0, 1>>, <<1, 1, 1>>}

\* A file nobody edits.
MCOneInput == {<<1, 0, 1>>}

\* Edits that keep the length.
MCSameLength == {<<1, 0>>, <<1, 1>>}

\* Sessions are only compared with each other.
Symmetric == Permutations(Sessions)
=============================================================================
