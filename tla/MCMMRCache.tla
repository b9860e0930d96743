----------------------------- MODULE MCMMRCache -----------------------------
(* Instances of MMRCache with two lookups of the same player.              *)
EXTENDS MMRCache, TLC

CONSTANTS l1, l2

TwoLookups == {l1, l2}
Symmetric == Permutations(TwoLookups)
=============================================================================
