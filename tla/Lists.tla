-------------------------------- MODULE Lists --------------------------------
(* A node linked in before, and the node unlinked at, position i of a list, *)
(* as SequencesExt has them.  They stand alone because the prover carries   *)
(* every definition a module can see into each of its obligations.          *)
EXTENDS Integers, Sequences

InsertAt(s, i, e) == SubSeq(s, 1, i - 1) \o <<e>> \o SubSeq(s, i, Len(s))
RemoveAt(s, i) == SubSeq(s, 1, i - 1) \o SubSeq(s, i + 1, Len(s))
=============================================================================
