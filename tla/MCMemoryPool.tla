---------------------------- MODULE MCMemoryPool ----------------------------
(* Instances of MemoryPool for TLC: threads that exhaust a small pool, the *)
(* guard of which has room for exactly one object of each of them.         *)
EXTENDS MemoryPool

CONSTANTS t1, t2

MCThreads == {t1, t2}
MCKinds   == {"synchronized", "lock_free"}
=============================================================================
