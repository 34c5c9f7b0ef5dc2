---------------------------- MODULE StringValues ----------------------------
(***************************************************************************)
(* What string_ptr promises its users: each object has a string value of   *)
(* its own, which nothing but an operation on this object changes.         *)
(***************************************************************************)
CONSTANTS Objects, Strings,
          Empty,         (* the value of an object without a string        *)
          Absent         (* the object does not exist                      *)

VARIABLE value

Exists(x) == value[x] # Absent

Init == value = [x \in Objects |-> Absent]

Construct(x, s) == ~Exists(x) /\ value' = [value EXCEPT ![x] = s]

Assign(x, y) == Exists(y) /\ value' = [value EXCEPT ![x] = value[y]]

Take(x, y) == Exists(y) /\ value' = [value EXCEPT ![x] = value[y], ![y] = Empty]

Exchange(x, y) ==
  Exists(x) /\ Exists(y) /\ value' = [value EXCEPT ![x] = value[y], ![y] = value[x]]

Destroy(x) == Exists(x) /\ value' = [value EXCEPT ![x] = Absent]

Next == \/ \E x \in Objects : Destroy(x) \/ \E s \in Strings : Construct(x, s)
        \/ \E x, y \in Objects : x # y /\ (Assign(x, y) \/ Take(x, y) \/ Exchange(x, y))

Spec == Init /\ [][Next]_value

=============================================================================
