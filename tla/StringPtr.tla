----------------------------- MODULE StringPtr -----------------------------
(***************************************************************************)
(* Assignment08/src/string_ptr.{h,cpp}: strings that are shared without a  *)
(* count of references.  The lowest bit of repr_ says that the object is   *)
(* the only one that refers to its string; a copy clears it in both, for   *)
(* good, and only an object that has it frees its string.                  *)
(*                                                                         *)
(* One thread; an action is one call.  What the caller does with several   *)
(* calls (std::swap, an assignment of a literal, a vector that grows) is a *)
(* sequence of actions on objects of which some are temporary.             *)
(***************************************************************************)
CONSTANTS
  Objects,        (* where string_ptr objects may be                       *)
  Addresses,      (* what new char[] may return                            *)
  Strings,        (* the contents of strings                               *)
  Empty,          (* "", which is also the view of an object without one   *)
  Nullptr, Absent, Freed

to_repr(ptr, unique) == [ptr |-> ptr, unique |-> unique]

ASSUME StringAssumption ==
  /\ Empty \in Strings /\ Absent \notin Strings /\ Freed \notin Strings
  /\ Nullptr \notin Addresses
  /\ \A a \in Addresses \union {Nullptr}, u \in BOOLEAN : Absent # to_repr(a, u)

VARIABLES
  repr,           (* repr_ of each object, or Absent                       *)
  memory,         (* the string at each address, or Freed                  *)
  shared          (* the addresses two objects have referred to at a time  *)

vars == <<repr, memory, shared>>

Exists(x) == repr[x] # Absent
unique(x) == repr[x].unique
data(x)   == repr[x].ptr

(* operator std::string_view                                               *)
View(x) == IF data(x) = Nullptr THEN Empty ELSE memory[data(x)]

Refers(x, a) == Exists(x) /\ data(x) = a

(* No part of the program: what an outside observer remembers.             *)
Observe ==
  shared' = shared \union {a \in Addresses :
                             \E x, y \in Objects : x # y /\ Refers(x, a)' /\ Refers(y, a)'}

(* The destructor of an object with representation r.                      *)
Destroyed(r) == [a \in Addresses |-> IF r.unique /\ a = r.ptr THEN Freed ELSE memory[a]]

-----------------------------------------------------------------------------

(* string_ptr(), and string_ptr(nullptr).                                  *)
Default(x) ==
  /\ ~Exists(x)
  /\ repr' = [repr EXCEPT ![x] = to_repr(Nullptr, FALSE)]
  /\ UNCHANGED memory
  /\ Observe

FromString(x, s) ==
  /\ ~Exists(x)
  /\ \E a \in Addresses :
       /\ memory[a] = Freed
       /\ memory' = [memory EXCEPT ![a] = s]
       /\ repr' = [repr EXCEPT ![x] = to_repr(a, TRUE)]
  /\ Observe

(* Mutant of Copy: the bit of the source is not cleared.                   *)
CopyLeavingOwner(x, y) ==
  /\ ~Exists(x) /\ Exists(y)
  /\ repr' = [repr EXCEPT ![x] = to_repr(data(y), FALSE)]
  /\ UNCHANGED memory
  /\ Observe

Copy(x, y) ==
  /\ ~Exists(x) /\ Exists(y)
  /\ repr' = [repr EXCEPT ![x] = to_repr(data(y), FALSE), ![y] = to_repr(data(y), FALSE)]
  /\ UNCHANGED memory
  /\ Observe

Move(x, y) ==
  /\ ~Exists(x) /\ Exists(y)
  /\ repr' = [repr EXCEPT ![x] = repr[y], ![y] = to_repr(Nullptr, FALSE)]
  /\ UNCHANGED memory
  /\ Observe

(* Mutant of CopyAssign: an assignment to itself is not told apart.        *)
CopyAssignToSelf(x, y) ==
  /\ Exists(x) /\ Exists(y)
  /\ repr' = [repr EXCEPT ![x] = to_repr(data(y), FALSE), ![y] = to_repr(data(y), FALSE)]
  /\ memory' = IF x = y THEN memory ELSE Destroyed(repr[x])
  /\ Observe

(* A temporary is a copy of y, is swapped with x and destroyed.            *)
CopyAssign(x, y) ==
  /\ Exists(x) /\ Exists(y)
  /\ IF x = y THEN UNCHANGED <<repr, memory>>
     ELSE /\ repr' = [repr EXCEPT ![x] = to_repr(data(y), FALSE),
                                  ![y] = to_repr(data(y), FALSE)]
          /\ memory' = Destroyed(repr[x])
  /\ Observe

MoveAssign(x, y) ==
  /\ Exists(x) /\ Exists(y)
  /\ IF x = y THEN UNCHANGED <<repr, memory>>
     ELSE /\ repr' = [repr EXCEPT ![x] = repr[y], ![y] = to_repr(Nullptr, FALSE)]
          /\ memory' = Destroyed(repr[x])
  /\ Observe

swap(x, y) ==
  /\ Exists(x) /\ Exists(y)
  /\ repr' = [repr EXCEPT ![x] = repr[y], ![y] = repr[x]]
  /\ UNCHANGED memory
  /\ Observe

Destroy(x) ==
  /\ Exists(x)
  /\ memory' = Destroyed(repr[x])
  /\ repr' = [repr EXCEPT ![x] = Absent]
  /\ Observe

-----------------------------------------------------------------------------

Init ==
  /\ repr = [x \in Objects |-> Absent]
  /\ memory = [a \in Addresses |-> Freed]
  /\ shared = {}

Next ==
  \/ \E x \in Objects :
       Default(x) \/ Destroy(x) \/ \E s \in Strings : FromString(x, s)
  \/ \E x, y \in Objects :
       \/ Copy(x, y) \/ Move(x, y) \/ CopyAssign(x, y) \/ MoveAssign(x, y)
       \/ swap(x, y)

Spec == Init /\ [][Next]_vars

-----------------------------------------------------------------------------
(* Type invariant.  The bit is never set without a string.                 *)
TypeOK ==
  /\ repr \in [Objects -> {Absent} \union {to_repr(Nullptr, FALSE)}
                            \union [ptr : Addresses, unique : BOOLEAN]]
  /\ memory \in [Addresses -> Strings \union {Freed}]
  /\ shared \subseteq Addresses

(* However objects are copied, moved, swapped and assigned, the one that   *)
(* will free a string is the only one that refers to it: nothing is freed  *)
(* twice (~string_ptr, string_ptr(const string_ptr&)).                     *)
OwnerIsAlone ==
  \A x \in Objects : Exists(x) /\ unique(x) =>
    \A y \in Objects \ {x} : ~Refers(y, data(x))

(* A string that has ever been shared is never freed, since no copy knows  *)
(* that it has become the last one; any other string has an owner, so that *)
(* it is freed in the end.  This is all that the class can leak.           *)
OnlySharedStringsLeak ==
  /\ \A a \in shared : memory[a] # Freed
  /\ \A a \in Addresses \ shared :
       memory[a] # Freed => \E x \in Objects : Refers(x, a) /\ unique(x)

(* operator std::string_view never reads freed memory: each object has a   *)
(* string value of its own, as if nothing were shared, moved or freed.     *)
Values == [x \in Objects |-> IF Exists(x) THEN View(x) ELSE Absent]

Abstract == INSTANCE StringValues WITH value <- Values

ImplementsStringValues == Abstract!Spec

=============================================================================
