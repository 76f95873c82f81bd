----------------------------- MODULE MCPosting -----------------------------
(* Posting for TLC.                                                        *)
EXTENDS Posting, TLC

Symmetry == Permutations(Sessions) \cup Permutations(Tossers)
=============================================================================
