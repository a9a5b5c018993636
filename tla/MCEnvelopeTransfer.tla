------------------------- MODULE MCEnvelopeTransfer -------------------------
(* Small instances of EnvelopeTransfer for TLC. *)
EXTENDS EnvelopeTransfer, TLC

\* Two chunks of one unit each, or a single other one.  Edits during an upload
\* also produce every mix of the two.
MCInputs == {<<1, 0>>, <<0>>}

\* A file nobody edits: two chunks, the last one shorter.
MCOneInput == {<<1, 0, 1>>}

\* Data keys are only compared with each other.
Symmetric == Permutations(Deks)
=============================================================================
