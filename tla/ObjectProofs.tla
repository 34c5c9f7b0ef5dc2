---------------------------- MODULE ObjectProofs ----------------------------
(***************************************************************************)
(* Proofs about StringPtr and DequeObjects: what the objects of a program  *)
(* refer to and hold, whatever is copied, moved or swapped, for any        *)
(* objects, addresses, strings, items and capacities.                      *)
(***************************************************************************)
EXTENDS StringPtr, DequeObjects, BoundedDequeProofs

(***************************************************************************)
(* StringPtr                                                               *)
(***************************************************************************)

Owns(x, a) == Refers(x, a) /\ unique(x)

(* What an object refers to has not been freed.                            *)
NoDangling == \A x \in Objects, a \in Addresses : Refers(x, a) => memory[a] # Freed

(* The observer has seen whatever two objects refer to, and none of it has *)
(* an owner.                                                               *)
SharedIsSeen ==
  /\ \A x, y \in Objects, a \in Addresses :
       x # y /\ Refers(x, a) /\ Refers(y, a) => a \in shared
  /\ \A x \in Objects, a \in Addresses : Owns(x, a) => a \notin shared

Inv == TypeOK /\ NoDangling /\ SharedIsSeen /\ OnlySharedStringsLeak

-----------------------------------------------------------------------------

(* The values that repr_ may have.                                         *)
Reprs == {Absent} \union {to_repr(Nullptr, FALSE)} \union [ptr : Addresses, unique : BOOLEAN]

LEMMA ReprFields ==
  ASSUME NEW r \in Reprs, r # Absent
  PROVE  /\ r.ptr \in Addresses \union {Nullptr}
         /\ r.unique \in BOOLEAN
         /\ r.unique => r.ptr \in Addresses
<1>1. CASE r = to_repr(Nullptr, FALSE)
  BY <1>1 DEF to_repr
<1>2. CASE r \in [ptr : Addresses, unique : BOOLEAN]
  BY <1>2
<1> QED BY <1>1, <1>2 DEF Reprs

(* What the constructors make.                                             *)
LEMMA ReprOf ==
  ASSUME NEW p \in Addresses \union {Nullptr}, NEW u \in BOOLEAN, u => p \in Addresses
  PROVE  /\ to_repr(p, u) \in Reprs /\ to_repr(p, u) # Absent
         /\ to_repr(p, u).ptr = p /\ to_repr(p, u).unique = u
BY StringAssumption DEF Reprs, to_repr

LEMMA InitInv == Init => Inv
BY DEF Init, Inv, TypeOK, NoDangling, SharedIsSeen, OnlySharedStringsLeak, Owns, Exists, Refers

(* The owner of a string is the only one that refers to it, because what   *)
(* is shared has no owner.                                                 *)
LEMMA InvImpliesAlone == Inv => OwnerIsAlone
BY ReprFields DEF Inv, TypeOK, Reprs, SharedIsSeen, OwnerIsAlone, Owns, Refers, Exists, data, unique

-----------------------------------------------------------------------------
(* The steps.  First what the calls that change two objects have in common *)

Freeing(x) == [a \in Addresses |-> IF Owns(x, a) THEN Freed ELSE memory[a]]

(* A destructor frees what the object owns.                                *)
LEMMA DestroyedFrees ==
  ASSUME TypeOK, NEW x \in Objects, Exists(x)
  PROVE  Destroyed(repr[x]) = Freeing(x)
<1> DEFINE r == repr[x]
<1>1. r \in Reprs /\ r # Absent
  BY DEF TypeOK, Reprs, Exists
<1>2. r.unique \in BOOLEAN
  BY <1>1, ReprFields
<1>3. ASSUME NEW a \in Addresses
      PROVE  (r.unique /\ a = r.ptr) <=> Owns(x, a)
  BY <1>2 DEF Owns, Refers, data, unique
<1> QED BY <1>3 DEF Destroyed, Freeing

(* Two objects come to share what y had, and x loses its own string.       *)
LEMMA ShareStep ==
  ASSUME Inv, NEW x \in Objects, NEW y \in Objects, x # y, Exists(y),
         repr' = [repr EXCEPT ![x] = to_repr(data(y), FALSE), ![y] = to_repr(data(y), FALSE)],
         memory' = Freeing(x), Observe
  PROVE  Inv'
<1>1. data(y) \in Addresses \union {Nullptr}
  BY ReprFields DEF Inv, TypeOK, Reprs, Exists, data
<1>2. TypeOK'
  BY <1>1, ReprOf DEF Inv, TypeOK, Reprs, Freeing, Observe
<1>3. \A z \in Objects, a \in Addresses :
        /\ Refers(z, a)' <=> IF z = x THEN Refers(y, a) ELSE Refers(z, a)
        /\ Owns(z, a)' <=> z # x /\ z # y /\ Owns(z, a)
  BY <1>1, ReprOf DEF Inv, TypeOK, Owns, Refers, Exists, data, unique
<1>4. \A a \in Addresses : memory'[a] = IF Owns(x, a) THEN Freed ELSE memory[a]
  BY DEF Freeing
<1>5. \A a \in Addresses : a \in shared' <=>
        a \in shared \/ \E z, w \in Objects : z # w /\ Refers(z, a)' /\ Refers(w, a)'
  BY DEF Observe
<1>6. NoDangling'
  BY <1>3, <1>4 DEF Inv, NoDangling, SharedIsSeen, Owns
<1>7. SharedIsSeen'
  BY <1>3, <1>5 DEF Inv, SharedIsSeen, Owns
<1>8. OnlySharedStringsLeak'
  <2>1. ASSUME NEW a \in Addresses, a \in shared' PROVE memory'[a] # Freed
    BY <2>1, <1>3, <1>4, <1>5 DEF Inv, TypeOK, NoDangling, SharedIsSeen, OnlySharedStringsLeak, Owns
  <2>2. ASSUME NEW a \in Addresses, a \notin shared', memory'[a] # Freed
        PROVE  \E z \in Objects : Owns(z, a)'
    BY <2>2, <1>3, <1>4, <1>5 DEF Inv, OnlySharedStringsLeak, Owns
  <2> QED BY <1>2, <2>1, <2>2 DEF TypeOK, OnlySharedStringsLeak, Owns
<1> QED BY <1>2, <1>6, <1>7, <1>8 DEF Inv

(* What y had passes to x, and x loses its own string.                     *)
LEMMA TakeStep ==
  ASSUME Inv, NEW x \in Objects, NEW y \in Objects, x # y, Exists(y),
         repr' = [repr EXCEPT ![x] = repr[y], ![y] = to_repr(Nullptr, FALSE)],
         memory' = Freeing(x), Observe
  PROVE  Inv'
<1>1. TypeOK'
  BY ReprOf DEF Inv, TypeOK, Reprs, Freeing, Observe
<1>2. \A z \in Objects, a \in Addresses :
        /\ Refers(z, a)' <=> IF z = x THEN Refers(y, a) ELSE z # y /\ Refers(z, a)
        /\ Owns(z, a)' <=> IF z = x THEN Owns(y, a) ELSE z # y /\ Owns(z, a)
  <2>1. /\ repr'[x] = repr[y] /\ repr'[y] = to_repr(Nullptr, FALSE)
        /\ \A z \in Objects : z # x /\ z # y => repr'[z] = repr[z]
    BY DEF Inv, TypeOK
  <2>2. to_repr(Nullptr, FALSE).ptr = Nullptr /\ to_repr(Nullptr, FALSE).unique = FALSE
    BY ReprOf
  <2> QED BY <2>1, <2>2, StringAssumption DEF Owns, Refers, Exists, data, unique
<1>3. \A a \in Addresses : memory'[a] = IF Owns(x, a) THEN Freed ELSE memory[a]
  BY DEF Freeing
<1>4. \A a \in Addresses : a \in shared' <=>
        a \in shared \/ \E z, w \in Objects : z # w /\ Refers(z, a)' /\ Refers(w, a)'
  BY DEF Observe
<1>5. shared' = shared
  <2>1. \A a \in Addresses : a \in shared' <=> a \in shared
    BY <1>2, <1>4 DEF Inv, SharedIsSeen
  <2> QED BY <2>1, <1>1 DEF Inv, TypeOK
<1>6. NoDangling'
  BY <1>2, <1>3 DEF Inv, NoDangling, SharedIsSeen, Owns
<1>7. SharedIsSeen'
  BY <1>2, <1>4, <1>5 DEF Inv, SharedIsSeen, Owns
<1>8. OnlySharedStringsLeak'
  <2>1. ASSUME NEW a \in shared PROVE memory'[a] # Freed
    BY <2>1, <1>3 DEF Inv, TypeOK, SharedIsSeen, OnlySharedStringsLeak
  <2>2. ASSUME NEW a \in Addresses, a \notin shared, memory'[a] # Freed
        PROVE  \E z \in Objects : Owns(z, a)'
    BY <2>2, <1>2, <1>3 DEF Inv, OnlySharedStringsLeak, Owns
  <2> QED BY <1>5, <2>1, <2>2 DEF OnlySharedStringsLeak, Owns
<1> QED BY <1>1, <1>6, <1>7, <1>8 DEF Inv

(* Nothing that the invariant is about changes.                            *)
LEMMA QuietStep ==
  ASSUME Inv, repr' \in [Objects -> Reprs], memory' = memory,
         \A z \in Objects, a \in Addresses :
           (Refers(z, a)' <=> Refers(z, a)) /\ (Owns(z, a)' <=> Owns(z, a)),
         Observe
  PROVE  Inv'
<1>1. \A a \in Addresses : a \in shared' <=> a \in shared
  BY DEF Observe, Inv, SharedIsSeen
<1>2. shared' = shared
  BY <1>1 DEF Observe, Inv, TypeOK
<1>3. TypeOK'
  BY <1>2 DEF Inv, TypeOK, Reprs
<1> QED BY <1>2, <1>3 DEF Inv, NoDangling, SharedIsSeen, OnlySharedStringsLeak, Owns

LEMMA DefaultStep ==
  ASSUME Inv, NEW x \in Objects, Default(x)
  PROVE  Inv'
<1>1. /\ to_repr(Nullptr, FALSE) \in Reprs
      /\ to_repr(Nullptr, FALSE).ptr = Nullptr
  BY ReprOf
<1>2. /\ repr'[x] = to_repr(Nullptr, FALSE) /\ ~Exists(x)
      /\ \A z \in Objects \ {x} : repr'[z] = repr[z]
      /\ repr' \in [Objects -> Reprs]
  BY <1>1 DEF Default, Inv, TypeOK, Reprs
<1>3. ASSUME NEW z \in Objects, NEW a \in Addresses
      PROVE  (Refers(z, a)' <=> Refers(z, a)) /\ (Owns(z, a)' <=> Owns(z, a))
  BY <1>1, <1>2, StringAssumption DEF Owns, Refers, Exists, data, unique
<1> QED BY <1>2, <1>3, QuietStep DEF Default

LEMMA FromStringStep ==
  ASSUME Inv, NEW x \in Objects, NEW s \in Strings, FromString(x, s)
  PROVE  Inv'
<1>1. PICK b \in Addresses : /\ memory[b] = Freed
                             /\ memory' = [memory EXCEPT ![b] = s]
                             /\ repr' = [repr EXCEPT ![x] = to_repr(b, TRUE)]
  BY DEF FromString
<1>2. /\ to_repr(b, TRUE) \in Reprs /\ to_repr(b, TRUE) # Absent
      /\ to_repr(b, TRUE).ptr = b /\ to_repr(b, TRUE).unique = TRUE
  BY ReprOf
<1>3. TypeOK'
  BY <1>1, <1>2 DEF Inv, TypeOK, Reprs, FromString, Observe
<1>4. /\ repr'[x] = to_repr(b, TRUE) /\ ~Exists(x)
      /\ \A z \in Objects \ {x} : repr'[z] = repr[z]
  BY <1>1 DEF FromString, Inv, TypeOK
<1>5. \A z \in Objects, a \in Addresses :
        /\ Refers(z, a)' <=> IF z = x THEN a = b ELSE Refers(z, a)
        /\ Owns(z, a)' <=> IF z = x THEN a = b ELSE Owns(z, a)
  BY <1>2, <1>4 DEF Owns, Refers, Exists, data, unique
<1>6. /\ s # Freed
      /\ \A a \in Addresses : memory'[a] = IF a = b THEN s ELSE memory[a]
      /\ \A z \in Objects : ~Refers(z, b)
      /\ \A a \in Addresses : ~Refers(x, a)
      /\ b \notin shared
  BY <1>1, <1>4, StringAssumption
     DEF Inv, TypeOK, NoDangling, OnlySharedStringsLeak, Refers
<1>7. \A a \in Addresses : a \in shared' <=>
        a \in shared \/ \E z, w \in Objects : z # w /\ Refers(z, a)' /\ Refers(w, a)'
  BY DEF FromString, Observe
<1>8. \A a \in Addresses : a \in shared' <=> a \in shared
  BY <1>5, <1>6, <1>7 DEF Inv, SharedIsSeen
<1>9. NoDangling'
  BY <1>5, <1>6 DEF Inv, NoDangling
<1>10. SharedIsSeen'
  BY <1>5, <1>6, <1>7, <1>8 DEF Inv, SharedIsSeen
<1>11. OnlySharedStringsLeak'
  BY <1>3, <1>5, <1>6, <1>8 DEF Inv, TypeOK, OnlySharedStringsLeak, Owns
<1> QED BY <1>3, <1>9, <1>10, <1>11 DEF Inv

LEMMA SwapStep ==
  ASSUME Inv, NEW x \in Objects, NEW y \in Objects, swap(x, y)
  PROVE  Inv'
<1>1. TypeOK'
  BY DEF swap, Inv, TypeOK, Observe
<1>2. /\ repr'[x] = repr[y] /\ repr'[y] = repr[x]
      /\ \A z \in Objects \ {x, y} : repr'[z] = repr[z]
  BY DEF swap, Inv, TypeOK
<1> DEFINE other(z) == IF z = x THEN y ELSE IF z = y THEN x ELSE z
<1>3. \A z \in Objects, a \in Addresses :
        /\ Refers(z, a)' <=> Refers(other(z), a)
        /\ Owns(z, a)' <=> Owns(other(z), a)
  BY <1>2 DEF Owns, Refers, Exists, data, unique
<1>4. \A z, w \in Objects : /\ other(z) \in Objects /\ other(other(z)) = z
                            /\ z # w => other(z) # other(w)
  OBVIOUS
<1> HIDE DEF other
<1>5. \A a \in Addresses : a \in shared' <=>
        a \in shared \/ \E z, w \in Objects : z # w /\ Refers(z, a)' /\ Refers(w, a)'
  BY DEF swap, Observe
<1>6. \A a \in Addresses : a \in shared' <=> a \in shared
  BY <1>3, <1>4, <1>5 DEF Inv, SharedIsSeen
<1>7. memory' = memory
  BY DEF swap
<1>8. NoDangling' /\ SharedIsSeen'
  BY <1>3, <1>4, <1>6, <1>7 DEF Inv, NoDangling, SharedIsSeen
<1>9. OnlySharedStringsLeak'
  <2>1. ASSUME NEW a \in Addresses, NEW z \in Objects, Owns(z, a)
        PROVE  \E w \in Objects : Owns(w, a)'
    BY <2>1, <1>3, <1>4
  <2> QED BY <1>1, <1>6, <1>7, <2>1 DEF Inv, TypeOK, OnlySharedStringsLeak, Owns
<1> QED BY <1>1, <1>8, <1>9 DEF Inv

LEMMA DestroyStep ==
  ASSUME Inv, NEW x \in Objects, Destroy(x)
  PROVE  Inv'
<1>1. memory' = Freeing(x)
  BY DestroyedFrees DEF Destroy, Inv
<1>2. TypeOK'
  BY <1>1 DEF Destroy, Inv, TypeOK, Freeing, Observe
<1>3. repr'[x] = Absent /\ \A z \in Objects \ {x} : repr'[z] = repr[z]
  BY DEF Destroy, Inv, TypeOK
<1>4. \A z \in Objects, a \in Addresses :
        /\ Refers(z, a)' <=> z # x /\ Refers(z, a)
        /\ Owns(z, a)' <=> z # x /\ Owns(z, a)
  BY <1>3 DEF Owns, Refers, Exists, data, unique
<1>5. \A a \in Addresses : memory'[a] = IF Owns(x, a) THEN Freed ELSE memory[a]
  BY <1>1 DEF Freeing
<1>6. \A a \in Addresses : a \in shared' <=>
        a \in shared \/ \E z, w \in Objects : z # w /\ Refers(z, a)' /\ Refers(w, a)'
  BY DEF Destroy, Observe
<1>7. \A a \in Addresses : a \in shared' <=> a \in shared
  BY <1>4, <1>6 DEF Inv, SharedIsSeen
<1>8. NoDangling'
  BY <1>4, <1>5 DEF Inv, NoDangling, SharedIsSeen, Owns
<1>9. SharedIsSeen'
  BY <1>4, <1>7 DEF Inv, SharedIsSeen
<1>10. OnlySharedStringsLeak'
  BY <1>2, <1>4, <1>5, <1>7 DEF Inv, TypeOK, SharedIsSeen, OnlySharedStringsLeak, Owns
<1> QED BY <1>2, <1>8, <1>9, <1>10 DEF Inv

(* An object that does not exist owns nothing.                             *)
LEMMA AbsentFrees ==
  ASSUME TypeOK, NEW x \in Objects, ~Exists(x)
  PROVE  memory = Freeing(x)
BY DEF TypeOK, Freeing, Owns, Refers

LEMMA StepInv == Inv /\ [Next]_vars => Inv'
<1> SUFFICES ASSUME Inv, [Next]_vars PROVE Inv'
  OBVIOUS
<1>1. CASE UNCHANGED vars
  BY <1>1 DEF vars, Inv, TypeOK, NoDangling, SharedIsSeen, OnlySharedStringsLeak,
              Owns, Refers, Exists, data, unique
<1>2. ASSUME NEW x \in Objects, Default(x) \/ Destroy(x) \/ \E s \in Strings : FromString(x, s)
      PROVE  Inv'
  BY <1>2, DefaultStep, DestroyStep, FromStringStep
<1>3. ASSUME NEW x \in Objects, NEW y \in Objects, Copy(x, y) PROVE Inv'
  <2>1. x # y /\ Exists(y) /\ memory' = Freeing(x)
    BY <1>3, AbsentFrees DEF Copy, Inv
  <2> QED BY <1>3, <2>1, ShareStep DEF Copy
<1>4. ASSUME NEW x \in Objects, NEW y \in Objects, Move(x, y) PROVE Inv'
  <2>1. x # y /\ Exists(y) /\ memory' = Freeing(x)
    BY <1>4, AbsentFrees DEF Move, Inv
  <2> QED BY <1>4, <2>1, TakeStep DEF Move
<1>5. ASSUME NEW x \in Objects, NEW y \in Objects, CopyAssign(x, y) \/ MoveAssign(x, y)
      PROVE  Inv'
  <2>1. CASE x = y
    <3>1. repr' = repr /\ memory' = memory /\ Observe
      BY <1>5, <2>1 DEF CopyAssign, MoveAssign
    <3>2. \A z \in Objects, a \in Addresses :
            (Refers(z, a)' <=> Refers(z, a)) /\ (Owns(z, a)' <=> Owns(z, a))
      BY <3>1 DEF Owns, Refers, Exists, data, unique
    <3>3. repr' \in [Objects -> Reprs]
      BY <3>1 DEF Inv, TypeOK, Reprs
    <3> QED BY <3>1, <3>2, <3>3, QuietStep
  <2>2. CASE x # y /\ CopyAssign(x, y)
    <3>1. Exists(y) /\ memory' = Freeing(x)
      BY <2>2, DestroyedFrees DEF CopyAssign, Inv
    <3> QED BY <2>2, <3>1, ShareStep DEF CopyAssign
  <2>3. CASE x # y /\ MoveAssign(x, y)
    <3>1. Exists(y) /\ memory' = Freeing(x)
      BY <2>3, DestroyedFrees DEF MoveAssign, Inv
    <3> QED BY <2>3, <3>1, TakeStep DEF MoveAssign
  <2> QED BY <1>5, <2>1, <2>2, <2>3
<1>6. ASSUME NEW x \in Objects, NEW y \in Objects, swap(x, y) PROVE Inv'
  BY <1>6, SwapStep
<1> QED BY <1>1, <1>2, <1>3, <1>4, <1>5, <1>6 DEF Next

LEMMA InvAlways == Spec => []Inv
<1>1. Init => Inv
  BY InitInv
<1>2. Inv /\ [Next]_vars => Inv'
  BY StepInv
<1> QED BY <1>1, <1>2, PTL DEF Spec

-----------------------------------------------------------------------------

(* repr_ and the memory keep their types; the bit is never set in an       *)
(* object without a string, which the destructor relies on.                *)
THEOREM StringTypeCorrect == Spec => []TypeOK
BY InvAlways, PTL DEF Inv

(* No string is freed twice or under another object's hands, by any        *)
(* sequence of copies, moves, swaps, assignments and destructions.         *)
THEOREM NobodyElsesString == Spec => []OwnerIsAlone
BY InvAlways, InvImpliesAlone, PTL

(* What the class leaks is exactly what has been shared.                   *)
THEOREM LeaksOnlyShared == Spec => []OnlySharedStringsLeak
BY InvAlways, PTL DEF Inv

-----------------------------------------------------------------------------
(* string_ptr implements independent string values.                        *)

LEMMA ValueOf ==
  ASSUME Inv, NEW x \in Objects
  PROVE  /\ Values[x] = IF Exists(x) THEN View(x) ELSE Absent
         /\ Exists(x) => View(x) \in Strings /\ Values[x] # Absent
<1>1. ASSUME Exists(x) PROVE View(x) \in Strings
  <2>1. data(x) \in Addresses \union {Nullptr}
    BY <1>1, ReprFields DEF Inv, TypeOK, Reprs, Exists, data
  <2> QED BY <1>1, <2>1, StringAssumption DEF Inv, TypeOK, NoDangling, Refers, View
<1> QED BY <1>1, StringAssumption DEF Values

(* When x frees what it owns, no other object sees it.                     *)
LEMMA ViewKept ==
  ASSUME Inv, NEW x \in Objects, NEW z \in Objects, z # x, Exists(z), memory' = Freeing(x)
  PROVE  data(z) = Nullptr \/ memory'[data(z)] = memory[data(z)]
<1>1. data(z) \in Addresses \union {Nullptr}
  BY ReprFields DEF Inv, TypeOK, Reprs, Exists, data
<1> QED BY <1>1 DEF Inv, SharedIsSeen, Owns, Refers, Freeing

(* Sharing gives x the value of y, and taking leaves none for y.           *)
LEMMA ShareMaps ==
  ASSUME Inv, NEW x \in Objects, NEW y \in Objects, x # y, Exists(y),
         repr' = [repr EXCEPT ![x] = to_repr(data(y), FALSE), ![y] = to_repr(data(y), FALSE)],
         memory' = Freeing(x)
  PROVE  Abstract!Assign(x, y)
<1>1. data(y) \in Addresses \union {Nullptr}
  BY ReprFields DEF Inv, TypeOK, Reprs, Exists, data
<1>2. to_repr(data(y), FALSE) # Absent /\ to_repr(data(y), FALSE).ptr = data(y)
  BY <1>1, ReprOf
<1>3. /\ repr'[x] = to_repr(data(y), FALSE) /\ repr'[y] = to_repr(data(y), FALSE)
      /\ \A z \in Objects \ {x, y} : repr'[z] = repr[z]
  BY DEF Inv, TypeOK
<1>4. Exists(x)' /\ View(x)' = View(y)
  <2>1. data(y) = Nullptr \/ memory'[data(y)] = memory[data(y)]
    BY ViewKept
  <2>2. repr'[x] # Absent /\ repr'[x].ptr = data(y)
    BY <1>2, <1>3
  <2> QED BY <2>1, <2>2 DEF Exists, View, data
<1>5. ASSUME NEW z \in Objects, z # x, Exists(z) PROVE Exists(z)' /\ View(z)' = View(z)
  <2>1. data(z) = Nullptr \/ memory'[data(z)] = memory[data(z)]
    BY <1>5, ViewKept
  <2>2. repr'[z] # Absent /\ repr'[z].ptr = data(z)
    BY <1>2, <1>3, <1>5 DEF Exists, data
  <2> QED BY <2>1, <2>2 DEF Exists, View, data
<1>6. ASSUME NEW z \in Objects, z # x, ~Exists(z) PROVE ~Exists(z)'
  BY <1>3, <1>6 DEF Exists
<1>7. Values[y] = View(y) /\ Values[y] # Absent
  BY ValueOf
<1>8. Values' = [Values EXCEPT ![x] = Values[y]]
  BY <1>4, <1>5, <1>6, <1>7 DEF Values
<1> QED BY <1>7, <1>8 DEF Abstract!Assign, Abstract!Exists

LEMMA TakeMaps ==
  ASSUME Inv, NEW x \in Objects, NEW y \in Objects, x # y, Exists(y),
         repr' = [repr EXCEPT ![x] = repr[y], ![y] = to_repr(Nullptr, FALSE)],
         memory' = Freeing(x)
  PROVE  Abstract!Take(x, y)
<1>1. to_repr(Nullptr, FALSE) # Absent /\ to_repr(Nullptr, FALSE).ptr = Nullptr
  BY ReprOf
<1>2. /\ repr'[x] = repr[y] /\ repr'[y] = to_repr(Nullptr, FALSE)
      /\ \A z \in Objects \ {x, y} : repr'[z] = repr[z]
  BY DEF Inv, TypeOK
<1>3. Exists(x)' /\ View(x)' = View(y)
  BY <1>2, ViewKept DEF Exists, View, data
<1>4. Exists(y)' /\ View(y)' = Empty
  BY <1>1, <1>2 DEF Exists, View, data
<1>5. ASSUME NEW z \in Objects \ {x, y}, Exists(z) PROVE Exists(z)' /\ View(z)' = View(z)
  BY <1>2, <1>5, ViewKept DEF Exists, View, data
<1>6. ASSUME NEW z \in Objects \ {x, y}, ~Exists(z) PROVE ~Exists(z)'
  BY <1>2, <1>6 DEF Exists
<1>7. Values[y] = View(y) /\ Values[y] # Absent
  BY ValueOf
<1>8. Values' = [Values EXCEPT ![x] = Values[y], ![y] = Empty]
  BY <1>3, <1>4, <1>5, <1>6, <1>7 DEF Values
<1> QED BY <1>7, <1>8 DEF Abstract!Take, Abstract!Exists

LEMMA StepMaps == Inv /\ [Next]_vars => [Abstract!Next]_Values
<1> SUFFICES ASSUME Inv, [Next]_vars PROVE [Abstract!Next]_Values
  OBVIOUS
<1>1. CASE UNCHANGED vars
  BY <1>1 DEF vars, Values, View, Exists, data
<1>2. ASSUME NEW x \in Objects, Default(x) PROVE Abstract!Construct(x, Empty)
  <2>1. to_repr(Nullptr, FALSE) # Absent /\ to_repr(Nullptr, FALSE).ptr = Nullptr
    BY ReprOf
  <2>2. /\ repr'[x] = to_repr(Nullptr, FALSE) /\ ~Exists(x) /\ memory' = memory
        /\ \A z \in Objects \ {x} : repr'[z] = repr[z]
    BY <1>2 DEF Default, Inv, TypeOK
  <2>3. Values' = [Values EXCEPT ![x] = Empty]
    BY <2>1, <2>2 DEF Values, View, Exists, data
  <2> QED BY <2>2, <2>3, ValueOf DEF Abstract!Construct, Abstract!Exists
<1>3. ASSUME NEW x \in Objects, NEW s \in Strings, FromString(x, s)
      PROVE  Abstract!Construct(x, s)
  <2>1. PICK b \in Addresses : /\ memory[b] = Freed
                               /\ memory' = [memory EXCEPT ![b] = s]
                               /\ repr' = [repr EXCEPT ![x] = to_repr(b, TRUE)]
    BY <1>3 DEF FromString
  <2>2. to_repr(b, TRUE) # Absent /\ to_repr(b, TRUE).ptr = b /\ b # Nullptr
    BY ReprOf, StringAssumption
  <2>3. /\ repr'[x] = to_repr(b, TRUE) /\ ~Exists(x) /\ memory'[b] = s
        /\ \A z \in Objects \ {x} : repr'[z] = repr[z]
    BY <1>3, <2>1 DEF FromString, Inv, TypeOK
  <2>4. ASSUME NEW z \in Objects \ {x}, Exists(z) PROVE View(z)' = View(z)
    <3>1. data(z) \in Addresses \union {Nullptr} /\ data(z) # b
      BY <2>1, <2>4, ReprFields DEF Inv, TypeOK, Reprs, Exists, data, NoDangling, Refers
    <3> QED BY <2>1, <2>3, <3>1 DEF Inv, TypeOK, View, data
  <2>5. Values' = [Values EXCEPT ![x] = s]
    <3>1. Exists(x)' /\ View(x)' = s
      BY <2>2, <2>3 DEF Exists, View, data
    <3>2. \A z \in Objects \ {x} : Exists(z)' <=> Exists(z)
      BY <2>3 DEF Exists
    <3> QED BY <2>4, <3>1, <3>2 DEF Values
  <2> QED BY <2>3, <2>5, ValueOf DEF Abstract!Construct, Abstract!Exists
<1>4. ASSUME NEW x \in Objects, NEW y \in Objects, Copy(x, y)
      PROVE  x # y /\ Abstract!Assign(x, y)
  BY <1>4, AbsentFrees, ShareMaps DEF Copy, Inv
<1>5. ASSUME NEW x \in Objects, NEW y \in Objects, Move(x, y)
      PROVE  x # y /\ Abstract!Take(x, y)
  BY <1>5, AbsentFrees, TakeMaps DEF Move, Inv
<1>6. ASSUME NEW x \in Objects, NEW y \in Objects, CopyAssign(x, y)
      PROVE  UNCHANGED Values \/ (x # y /\ Abstract!Assign(x, y))
  <2>1. CASE x = y
    BY <1>6, <2>1 DEF CopyAssign, Values, View, Exists, data
  <2>2. CASE x # y
    BY <1>6, <2>2, DestroyedFrees, ShareMaps DEF CopyAssign, Inv
  <2> QED BY <2>1, <2>2
<1>7. ASSUME NEW x \in Objects, NEW y \in Objects, MoveAssign(x, y)
      PROVE  UNCHANGED Values \/ (x # y /\ Abstract!Take(x, y))
  <2>1. CASE x = y
    BY <1>7, <2>1 DEF MoveAssign, Values, View, Exists, data
  <2>2. CASE x # y
    BY <1>7, <2>2, DestroyedFrees, TakeMaps DEF MoveAssign, Inv
  <2> QED BY <2>1, <2>2
<1>8. ASSUME NEW x \in Objects, NEW y \in Objects, swap(x, y)
      PROVE  UNCHANGED Values \/ (x # y /\ Abstract!Exchange(x, y))
  <2>1. /\ repr'[x] = repr[y] /\ repr'[y] = repr[x] /\ memory' = memory
        /\ \A z \in Objects \ {x, y} : repr'[z] = repr[z]
    BY <1>8 DEF swap, Inv, TypeOK
  <2>2. Values' = [Values EXCEPT ![x] = Values[y], ![y] = Values[x]]
    BY <2>1, ZenonT(60) DEF Values, View, Exists, data
  <2>3. Values[x] # Absent /\ Values[y] # Absent
    BY <1>8, ValueOf DEF swap
  <2>4. CASE x = y
    BY <2>1, <2>4 DEF Values, View, Exists, data
  <2> QED BY <2>2, <2>3, <2>4 DEF Abstract!Exchange, Abstract!Exists
<1>9. ASSUME NEW x \in Objects, Destroy(x) PROVE Abstract!Destroy(x)
  <2>1. memory' = Freeing(x)
    BY <1>9, DestroyedFrees DEF Destroy, Inv
  <2>2. repr'[x] = Absent /\ \A z \in Objects \ {x} : repr'[z] = repr[z]
    BY <1>9 DEF Destroy, Inv, TypeOK
  <2>3. ASSUME NEW z \in Objects \ {x}, Exists(z) PROVE View(z)' = View(z)
    <3>1. data(z) = Nullptr \/ memory'[data(z)] = memory[data(z)]
      BY <2>1, <2>3, ViewKept
    <3> QED BY <2>2, <3>1 DEF View, data
  <2>4. Values' = [Values EXCEPT ![x] = Absent]
    BY <2>2, <2>3 DEF Values, Exists
  <2> QED BY <1>9, <2>4, ValueOf DEF Destroy, Abstract!Destroy, Abstract!Exists
<1> QED
  BY <1>1, <1>2, <1>3, <1>4, <1>5, <1>6, <1>7, <1>8, <1>9, StringAssumption
     DEF Next, Abstract!Next

(* A user sees independent string values: no object's string is ever       *)
(* changed or freed by an operation on another, although they share it.    *)
THEOREM IndependentValues == Spec => ImplementsStringValues
<1>1. Init => Abstract!Init
  BY DEF Init, Abstract!Init, Values, Exists
<1> QED BY <1>1, InvAlways, StepMaps, PTL DEF Spec, ImplementsStringValues, Abstract!Spec

(***************************************************************************)
(* DequeObjects: each object is a bounded sequence                         *)
(***************************************************************************)

Rings == {d \in RingsOf(Items) : CapacityOf(d) \in Capacities}

IInv == /\ deque \in [Deques -> Rings]
        /\ live \subseteq Deques
        /\ \A o \in live : Filled(Items, deque[o])
-----------------------------------------------------------------------------
(* The lemmas about rings, for the objects of the program.                 *)

LEMMA ObjectType ==
  ASSUME NEW d \in Rings
  PROVE  /\ d \in RingsOf(Items)
         /\ CapacityOf(d) \in Nat \ {0} /\ CapacityOf(d) \in Capacities
         /\ d.container \in Seq(Items \union {NoItem})
         /\ d.front_pos \in 0..CapacityOf(d)-1 /\ d.back_pos \in 0..CapacityOf(d)-1
         /\ d.count \in 0..CapacityOf(d)
<1>1. d \in RingsOf(Items) /\ CapacityOf(d) \in Capacities
  BY DEF Rings
<1> QED BY <1>1, RingType DEF Contained

LEMMA ObjectContents ==
  ASSUME NEW d \in Rings, Filled(Items, d)
  PROVE  /\ Contents(d) \in Seq(Items) /\ Len(Contents(d)) = d.count
         /\ \A i \in 1..d.count :
              Contents(d)[i] = Slot(d, Place(d.front_pos, CapacityOf(d), i))
<1>1. d \in RingsOf(Items)
  BY DEF Rings
<1> QED BY <1>1, ContentsType

LEMMA PushBackObject ==
  ASSUME NEW d \in Rings, Filled(Items, d), d.count < CapacityOf(d), NEW item \in Items
  PROVE  /\ PushBack(d, item) \in Rings /\ Filled(Items, PushBack(d, item))
         /\ CapacityOf(PushBack(d, item)) = CapacityOf(d)
         /\ Contents(PushBack(d, item)) = Append(Contents(d), item)
<1>1. d \in RingsOf(Items) /\ CapacityOf(d) \in Capacities
  BY DEF Rings
<1>2. /\ PushBack(d, item) \in RingsOf(Items) /\ Filled(Items, PushBack(d, item))
      /\ CapacityOf(PushBack(d, item)) = CapacityOf(d)
      /\ Contents(PushBack(d, item)) = Append(Contents(d), item)
  BY <1>1, PushBackRing
<1> QED BY <1>1, <1>2 DEF Rings

LEMMA PushFrontObject ==
  ASSUME NEW d \in Rings, Filled(Items, d), d.count < CapacityOf(d), NEW item \in Items
  PROVE  /\ PushFront(d, item) \in Rings /\ Filled(Items, PushFront(d, item))
         /\ CapacityOf(PushFront(d, item)) = CapacityOf(d)
         /\ Contents(PushFront(d, item)) = <<item>> \o Contents(d)
<1>1. d \in RingsOf(Items) /\ CapacityOf(d) \in Capacities
  BY DEF Rings
<1>2. /\ PushFront(d, item) \in RingsOf(Items) /\ Filled(Items, PushFront(d, item))
      /\ CapacityOf(PushFront(d, item)) = CapacityOf(d)
      /\ Contents(PushFront(d, item)) = <<item>> \o Contents(d)
  BY <1>1, PushFrontRing
<1> QED BY <1>1, <1>2 DEF Rings

LEMMA PopFrontObject ==
  ASSUME NEW d \in Rings, Filled(Items, d), ~IsEmpty(d)
  PROVE  /\ PopFront(d) \in Rings /\ Filled(Items, PopFront(d))
         /\ CapacityOf(PopFront(d)) = CapacityOf(d)
         /\ Contents(PopFront(d)) = Tail(Contents(d))
<1>1. d \in RingsOf(Items) /\ CapacityOf(d) \in Capacities
  BY DEF Rings
<1>2. /\ PopFront(d) \in RingsOf(Items) /\ Filled(Items, PopFront(d))
      /\ CapacityOf(PopFront(d)) = CapacityOf(d)
      /\ Contents(PopFront(d)) = Tail(Contents(d))
  BY <1>1, PopFrontRing
<1> QED BY <1>1, <1>2 DEF Rings

LEMMA PopBackObject ==
  ASSUME NEW d \in Rings, Filled(Items, d), ~IsEmpty(d)
  PROVE  /\ PopBack(d) \in Rings /\ Filled(Items, PopBack(d))
         /\ CapacityOf(PopBack(d)) = CapacityOf(d)
         /\ Contents(PopBack(d)) = SubSeq(Contents(d), 1, Len(Contents(d)) - 1)
<1>1. d \in RingsOf(Items) /\ CapacityOf(d) \in Capacities
  BY DEF Rings
<1>2. /\ PopBack(d) \in RingsOf(Items) /\ Filled(Items, PopBack(d))
      /\ CapacityOf(PopBack(d)) = CapacityOf(d)
      /\ Contents(PopBack(d)) = SubSeq(Contents(d), 1, Len(Contents(d)) - 1)
  BY <1>1, PopBackRing
<1> QED BY <1>1, <1>2 DEF Rings

LEMMA NewObject ==
  ASSUME NEW m \in Capacities
  PROVE  /\ NewDeque(m) \in Rings /\ Filled(Items, NewDeque(m))
         /\ CapacityOf(NewDeque(m)) = m /\ Contents(NewDeque(m)) = <<>>
<1>1. m \in Nat \ {0}
  BY ObjectsAssumption
<1>2. /\ NewDeque(m) \in RingsOf(Items) /\ Filled(Items, NewDeque(m))
      /\ CapacityOf(NewDeque(m)) = m /\ Contents(NewDeque(m)) = <<>>
  BY <1>1, NewRing
<1> QED BY <1>2 DEF Rings

LEMMA MovedFromObject ==
  ASSUME NEW d \in Rings
  PROVE  MovedFrom(d) \in Rings /\ CapacityOf(MovedFrom(d)) = CapacityOf(d)
<1>1. d \in RingsOf(Items) /\ CapacityOf(d) \in Capacities
  BY DEF Rings
<1>2. MovedFrom(d) \in RingsOf(Items) /\ CapacityOf(MovedFrom(d)) = CapacityOf(d)
  BY <1>1, MovedFromRing
<1> QED BY <1>1, <1>2 DEF Rings
-----------------------------------------------------------------------------
(* The invariant.                                                          *)

LEMMA InitIInv == DequesInit => IInv
<1> SUFFICES ASSUME DequesInit PROVE IInv
  OBVIOUS
<1>1. PICK size \in [Deques -> Capacities] : deque = [o \in Deques |-> NewDeque(size[o])]
  BY DEF DequesInit
<1>2. \A o \in Deques : NewDeque(size[o]) \in Rings /\ Filled(Items, NewDeque(size[o]))
  BY NewObject
<1> QED BY <1>1, <1>2 DEF DequesInit, IInv

\* An operation on one object leaves a filled ring in it.
LEMMA UpdateIInv ==
  ASSUME IInv, NEW o \in live, NEW d \in Rings, Filled(Items, d), Update(o, d)
  PROVE  IInv'
BY DEF IInv, Update

LEMMA NextIInv == IInv /\ [DequesNext]_dequeVars => IInv'
<1> SUFFICES ASSUME IInv, [DequesNext]_dequeVars PROVE IInv'
  OBVIOUS
<1>1. ASSUME NEW o \in Deques, NEW item \in Items, CallPushBack(o, item) PROVE IInv'
  <2>1. o \in live /\ deque[o] \in Rings /\ Filled(Items, deque[o]) /\ deque[o].count < CapacityOf(deque[o])
    BY <1>1 DEF CallPushBack, HasRoom, IInv
  <2> QED BY <1>1, <2>1, PushBackObject, UpdateIInv DEF CallPushBack
<1>2. ASSUME NEW o \in Deques, NEW item \in Items, CallPushFront(o, item) PROVE IInv'
  <2>1. o \in live /\ deque[o] \in Rings /\ Filled(Items, deque[o]) /\ deque[o].count < CapacityOf(deque[o])
    BY <1>2 DEF CallPushFront, HasRoom, IInv
  <2> QED BY <1>2, <2>1, PushFrontObject, UpdateIInv DEF CallPushFront
<1>3. ASSUME NEW o \in Deques, CallPopFront(o) PROVE IInv'
  <2>1. o \in live /\ deque[o] \in Rings /\ Filled(Items, deque[o]) /\ ~IsEmpty(deque[o])
    BY <1>3 DEF CallPopFront, HasElement, IInv
  <2> QED BY <1>3, <2>1, PopFrontObject, UpdateIInv DEF CallPopFront
<1>4. ASSUME NEW o \in Deques, CallPopBack(o) PROVE IInv'
  <2>1. o \in live /\ deque[o] \in Rings /\ Filled(Items, deque[o]) /\ ~IsEmpty(deque[o])
    BY <1>4 DEF CallPopBack, HasElement, IInv
  <2> QED BY <1>4, <2>1, PopBackObject, UpdateIInv DEF CallPopBack
<1>5. ASSUME NEW o \in Deques, NEW p \in Deques, CallSwap(o, p) PROVE IInv'
  BY <1>5 DEF CallSwap, IInv
<1>6. ASSUME NEW o \in Deques, NEW p \in Deques, CallCopyAssign(o, p) PROVE IInv'
  BY <1>6 DEF CallCopyAssign, IInv
<1>7. ASSUME NEW o \in Deques, NEW p \in Deques, CallMoveAssign(o, p) PROVE IInv'
  <2>1. MovedFrom(deque[p]) \in Rings
    BY MovedFromObject DEF IInv
  <2> QED BY <1>7, <2>1 DEF CallMoveAssign, IInv
<1>8. CASE UNCHANGED dequeVars
  BY <1>8 DEF dequeVars, IInv
<1> QED BY <1>1, <1>2, <1>3, <1>4, <1>5, <1>6, <1>7, <1>8 DEF DequesNext

\* The cursors and counters of every object stay inside its ring.
THEOREM DequeInvariant == DequesSpec => []IInv
BY InitIInv, NextIInv, PTL DEF DequesSpec

LEMMA IInvTypeOK == IInv => DequesTypeOK
BY ObjectType DEF IInv, DequesTypeOK

\* Type correctness: the cursors of every object stay inside its ring, and
\* its counter inside its capacity (front_pos_, back_pos_, size_ of
\* bounded_deque.h).
THEOREM DequeTypeCorrect == DequesSpec => []DequesTypeOK
BY DequeInvariant, IInvTypeOK, PTL

LEMMA IInvEnds == IInv => EndsAreElements
<1> SUFFICES ASSUME IInv, NEW o \in live, ~IsEmpty(deque[o])
             PROVE  LET s == Contents(deque[o])
                    IN  /\ Front(deque[o]) = s[1]
                        /\ Back(deque[o]) = s[Len(s)]
                        /\ \A i \in DOMAIN s : s[i] \in Items
  BY DEF EndsAreElements
<1> DEFINE d == deque[o]
           n == CapacityOf(d)
           f == d.front_pos
           c == d.count
<1>1. d \in Rings /\ Filled(Items, d) /\ d.count # 0
  BY DEF IInv, IsEmpty
<1> HIDE DEF d
<1>2. n \in Nat \ {0} /\ f \in 0..n-1 /\ c \in 1..n
  BY <1>1, ObjectType
<1>3. /\ Contents(d) \in Seq(Items) /\ Len(Contents(d)) = c
      /\ \A i \in 1..c : Contents(d)[i] = Slot(d, Place(f, n, i))
  BY <1>1, ObjectContents
<1>4. Front(d) = Contents(d)[1]
  <2>1. Right(d, f) = Place(f, n, 1)
    BY DEF Right, Place
  <2> QED BY <2>1, <1>2, <1>3 DEF Front
<1>5. Back(d) = Contents(d)[c]
  <2>1. RingLaws(n, f)
    BY <1>2, RingPlaces
  <2>2. LeftOf(n, Place(f, n, c + 1)) = Place(f, n, c)
    <3>1. c \in 0..n
      BY <1>2
    <3> HIDE DEF f, n, c
    <3>2. \A i \in 0..n : LeftOf(n, Place(f, n, i + 1)) = Place(f, n, i)
      BY <2>1 DEF RingLaws
    <3> QED BY <3>1, <3>2
  <2>3. Left(d, d.back_pos) = Place(f, n, c)
    BY <2>2, <1>1 DEF Left, LeftOf, Filled
  <2> QED BY <2>3, <1>2, <1>3 DEF Back
<1> QED BY <1>3, <1>4, <1>5 DEF d

\* front() and back() return the first and the last element, and no
\* operation ever shows a slot that was not filled (front(), back()).
THEOREM EndsAreAlwaysElements == DequesSpec => []EndsAreElements
BY DequeInvariant, IInvEnds, PTL
-----------------------------------------------------------------------------
(* The objects implement Deque.                                            *)

SeqBar   == [o \in Deques |-> IF o \in live THEN Contents(deque[o]) ELSE <<>>]
BoundBar == [o \in Deques |-> CapacityOf(deque[o])]

LEMMA InitRefines == DequesInit => AbstractDeque!Init
<1> SUFFICES ASSUME DequesInit PROVE AbstractDeque!Init
  OBVIOUS
<1>1. PICK size \in [Deques -> Capacities] : deque = [o \in Deques |-> NewDeque(size[o])]
  BY DEF DequesInit
<1>2. \A o \in Deques : CapacityOf(NewDeque(size[o])) \in Nat /\ Contents(NewDeque(size[o])) = <<>>
  BY NewObject, ObjectsAssumption
<1>3. SeqBar = [o \in Deques |-> <<>>] /\ BoundBar \in [Deques -> Nat]
  BY <1>1, <1>2 DEF DequesInit, SeqBar, BoundBar
<1>4. live = Deques
  BY DEF DequesInit
<1> QED BY <1>3, <1>4 DEF AbstractDeque!Init, SeqBar, BoundBar

\* What the abstract state becomes when one object is updated.
LEMMA UpdateRefines ==
  ASSUME IInv, NEW o \in live, NEW d \in Rings, CapacityOf(d) = CapacityOf(deque[o]), Update(o, d)
  PROVE  /\ SeqBar' = [SeqBar EXCEPT ![o] = Contents(d)]
         /\ BoundBar' = BoundBar /\ live' = live
<1>1. /\ o \in Deques /\ live' = live /\ deque \in [Deques -> Rings]
      /\ deque' = [deque EXCEPT ![o] = d]
  BY DEF IInv, Update
<1>2. SeqBar' = [SeqBar EXCEPT ![o] = Contents(d)]
  BY <1>1 DEF SeqBar
<1>3. BoundBar' = BoundBar
  BY <1>1 DEF BoundBar
<1> QED BY <1>1, <1>2, <1>3

LEMMA NextRefines == IInv /\ [DequesNext]_dequeVars => [AbstractDeque!Next]_AbstractDeque!vars
<1> SUFFICES ASSUME IInv, [DequesNext]_dequeVars PROVE [AbstractDeque!Next]_AbstractDeque!vars
  OBVIOUS
<1>0. /\ deque \in [Deques -> Rings] /\ live \subseteq Deques
      /\ \A o \in live : /\ o \in Deques /\ deque[o] \in Rings /\ Filled(Items, deque[o])
                         /\ SeqBar[o] = Contents(deque[o])
                         /\ BoundBar[o] = CapacityOf(deque[o])
                         /\ Len(Contents(deque[o])) = deque[o].count
  BY ObjectContents DEF IInv, SeqBar, BoundBar
<1>1. ASSUME NEW o \in Deques, NEW item \in Items, CallPushBack(o, item)
      PROVE  AbstractDeque!PushBack(o, item)
  <2>1. o \in live /\ deque[o].count < CapacityOf(deque[o]) /\ Update(o, PushBack(deque[o], item))
    BY <1>1 DEF CallPushBack, HasRoom
  <2>2. /\ PushBack(deque[o], item) \in Rings
        /\ CapacityOf(PushBack(deque[o], item)) = CapacityOf(deque[o])
        /\ Contents(PushBack(deque[o], item)) = Append(Contents(deque[o]), item)
    BY <2>1, <1>0, PushBackObject
  <2>3. /\ SeqBar' = [SeqBar EXCEPT ![o] = Append(Contents(deque[o]), item)]
        /\ BoundBar' = BoundBar /\ live' = live
    BY <2>1, <2>2, UpdateRefines
  <2> QED BY <2>1, <2>3, <1>0 DEF AbstractDeque!PushBack, AbstractDeque!Room, AbstractDeque!Becomes, SeqBar, BoundBar
<1>2. ASSUME NEW o \in Deques, NEW item \in Items, CallPushFront(o, item)
      PROVE  AbstractDeque!PushFront(o, item)
  <2>1. o \in live /\ deque[o].count < CapacityOf(deque[o]) /\ Update(o, PushFront(deque[o], item))
    BY <1>2 DEF CallPushFront, HasRoom
  <2>2. /\ PushFront(deque[o], item) \in Rings
        /\ CapacityOf(PushFront(deque[o], item)) = CapacityOf(deque[o])
        /\ Contents(PushFront(deque[o], item)) = <<item>> \o Contents(deque[o])
    BY <2>1, <1>0, PushFrontObject
  <2>3. /\ SeqBar' = [SeqBar EXCEPT ![o] = <<item>> \o Contents(deque[o])]
        /\ BoundBar' = BoundBar /\ live' = live
    BY <2>1, <2>2, UpdateRefines
  <2> QED BY <2>1, <2>3, <1>0 DEF AbstractDeque!PushFront, AbstractDeque!Room, AbstractDeque!Becomes, SeqBar, BoundBar
<1>3. ASSUME NEW o \in Deques, CallPopFront(o)
      PROVE  AbstractDeque!PopFront(o)
  <2>1. /\ o \in live /\ ~IsEmpty(deque[o]) /\ Update(o, PopFront(deque[o]))
        /\ Contents(deque[o]) # <<>>
    BY <1>3, <1>0 DEF CallPopFront, HasElement, IsEmpty
  <2>2. /\ PopFront(deque[o]) \in Rings
        /\ CapacityOf(PopFront(deque[o])) = CapacityOf(deque[o])
        /\ Contents(PopFront(deque[o])) = Tail(Contents(deque[o]))
    BY <2>1, <1>0, PopFrontObject
  <2>3. /\ SeqBar' = [SeqBar EXCEPT ![o] = Tail(Contents(deque[o]))]
        /\ BoundBar' = BoundBar /\ live' = live
    BY <2>1, <2>2, UpdateRefines
  <2> QED BY <2>1, <2>3, <1>0 DEF AbstractDeque!PopFront, AbstractDeque!Some, AbstractDeque!Becomes, SeqBar, BoundBar
<1>4. ASSUME NEW o \in Deques, CallPopBack(o)
      PROVE  AbstractDeque!PopBack(o)
  <2>1. /\ o \in live /\ ~IsEmpty(deque[o]) /\ Update(o, PopBack(deque[o]))
        /\ Contents(deque[o]) # <<>>
    BY <1>4, <1>0 DEF CallPopBack, HasElement, IsEmpty
  <2>2. /\ PopBack(deque[o]) \in Rings
        /\ CapacityOf(PopBack(deque[o])) = CapacityOf(deque[o])
        /\ Contents(PopBack(deque[o])) = SubSeq(Contents(deque[o]), 1, Len(Contents(deque[o])) - 1)
    BY <2>1, <1>0, PopBackObject
  <2>3. /\ SeqBar' = [SeqBar EXCEPT ![o] = SubSeq(Contents(deque[o]), 1, Len(Contents(deque[o])) - 1)]
        /\ BoundBar' = BoundBar /\ live' = live
    BY <2>1, <2>2, UpdateRefines
  <2> QED BY <2>1, <2>3, <1>0 DEF AbstractDeque!PopBack, AbstractDeque!Some, AbstractDeque!Becomes, SeqBar, BoundBar
<1>5. ASSUME NEW o \in Deques, NEW p \in Deques, CallSwap(o, p)
      PROVE  AbstractDeque!Swap(o, p)
  <2>1. /\ o # p
        /\ deque' = [deque EXCEPT ![o] = deque[p], ![p] = deque[o]]
        /\ live' = {x \in Deques : (IF x = o THEN p ELSE IF x = p THEN o ELSE x) \in live}
    BY <1>5 DEF CallSwap
  <2>2. SeqBar' = [SeqBar EXCEPT ![o] = SeqBar[p], ![p] = SeqBar[o]]
    BY <2>1, <1>0 DEF SeqBar
  <2>3. BoundBar' = [BoundBar EXCEPT ![o] = BoundBar[p], ![p] = BoundBar[o]]
    BY <2>1, <1>0 DEF BoundBar
  <2> QED BY <2>1, <2>2, <2>3 DEF AbstractDeque!Swap, SeqBar, BoundBar
<1>6. ASSUME NEW o \in Deques, NEW p \in Deques, CallCopyAssign(o, p)
      PROVE  AbstractDeque!Copy(o, p)
  <2>1. p \in live /\ deque' = [deque EXCEPT ![o] = deque[p]] /\ live' = live \union {o}
    BY <1>6 DEF CallCopyAssign
  <2>2. SeqBar' = [SeqBar EXCEPT ![o] = SeqBar[p]]
    BY <2>1, <1>0 DEF SeqBar
  <2>3. BoundBar' = [BoundBar EXCEPT ![o] = BoundBar[p]]
    BY <2>1, <1>0 DEF BoundBar
  <2> QED BY <2>1, <2>2, <2>3 DEF AbstractDeque!Copy, SeqBar, BoundBar
<1>7. ASSUME NEW o \in Deques, NEW p \in Deques, CallMoveAssign(o, p)
      PROVE  AbstractDeque!Move(o, p)
  <2>1. /\ o # p /\ p \in live
        /\ deque' = [deque EXCEPT ![o] = deque[p], ![p] = MovedFrom(deque[p])]
        /\ live' = (live \union {o}) \ {p}
        /\ CapacityOf(MovedFrom(deque[p])) = CapacityOf(deque[p])
    BY <1>7, <1>0, MovedFromObject DEF CallMoveAssign
  <2>2. SeqBar' = [SeqBar EXCEPT ![o] = SeqBar[p], ![p] = <<>>]
    BY <2>1, <1>0 DEF SeqBar
  <2>3. BoundBar' = [BoundBar EXCEPT ![o] = BoundBar[p]]
    BY <2>1, <1>0 DEF BoundBar
  <2> QED BY <2>1, <2>2, <2>3 DEF AbstractDeque!Move, SeqBar, BoundBar
<1>8. ASSUME UNCHANGED dequeVars PROVE UNCHANGED AbstractDeque!vars
  BY <1>8 DEF dequeVars, AbstractDeque!vars
<1>9. CASE DequesNext
  BY <1>9, <1>1, <1>2, <1>3, <1>4, <1>5, <1>6, <1>7 DEF DequesNext, AbstractDeque!Next
<1> QED BY <1>8, <1>9

\* Slots and cursors implement bounded double-ended sequences, for any
\* number of objects, any capacities and any items (every operation of
\* bounded_deque.h).
THEOREM RingImplementsDeque == DequesSpec => ImplementsDeque
BY DequeInvariant, InitRefines, NextRefines, PTL DEF DequesSpec, ImplementsDeque, AbstractDeque!Spec

=============================================================================
