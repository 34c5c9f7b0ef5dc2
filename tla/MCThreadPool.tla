---------------------------- MODULE MCThreadPool ----------------------------
(* Instance of ThreadPool for TLC.  No symmetry: liveness is checked.      *)
EXTENDS ThreadPool

CONSTANTS w1, w2, w3, c1, c2, main, a, b, d

MCWorkers == {w1, w2, w3}
MCClients == {c1, c2}
MCTasks   == {a, b, d}
=============================================================================
