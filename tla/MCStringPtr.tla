---------------------------- MODULE MCStringPtr ----------------------------
(* An instance of StringPtr for TLC: four objects, of which one may be a   *)
(* temporary of the others, and addresses that are used again once freed.  *)
EXTENDS StringPtr, TLC

CONSTANTS x, y, z, w, a, b, c, d, Text

MCObjects   == {x, y, z, w}
MCAddresses == {a, b, c, d}
MCStrings   == {Empty, Text}

(* Objects and addresses differ in nothing but their names.                *)
SameNames == Permutations(MCObjects) \union Permutations(MCAddresses)
=============================================================================
