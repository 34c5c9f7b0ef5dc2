--------------------------- MODULE MCPoolRegistry ---------------------------
(* Instances of PoolRegistry for TLC: as many threads as there are slots   *)
(* and one more, and a mapping for each of them.                           *)
EXTENDS PoolRegistry, TLC

CONSTANTS t1, t2, t3

MCThreads   == {t1, t2, t3}
SameThreads == Permutations(MCThreads)
=============================================================================
