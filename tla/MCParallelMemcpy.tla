-------------------------- MODULE MCParallelMemcpy --------------------------
(* Instance of ParallelMemcpy for TLC: blocks of less than a page, of one  *)
(* page, and of more pages than there are threads, with and without a tail *)
(* longer than the chunks.                                                 *)
EXTENDS ParallelMemcpy

CONSTANTS w1, w2

MCWorkers == {w1, w2}
MCSizes   == {0, 1, 3, 5, 8}
=============================================================================
