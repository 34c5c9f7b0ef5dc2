---------------------------- MODULE MCSafeRead -----------------------------
(* Two threads, and an address of each kind but two that are not mapped, so *)
(* that a thread can fault beside the address that another one reads.       *)
EXTENDS SafeRead

CONSTANTS A, B, a, b, c, d, x
MCCallers == {A, B}
=============================================================================
