-------------------------- MODULE StackDiscipline ---------------------------
(***************************************************************************)
(* What is meant by a well-formed program, independently of how Assignment04*)
(* verifies one: each instruction belongs to one function and is executed  *)
(* at one depth of the stack of that function, whichever way leads there.  *)
(* The compiler produces such programs; the messages of the verifier name  *)
(* the same conditions.                                                    *)
(***************************************************************************)
EXTENDS Bytecode

\* What an instruction really pops and adds (see Interpreter): as StackDelta says,
\* but that the captured values of a closure leave the stack.  Of STA it depends on
\* the values.
Net(i) == IF i.op = "CLOSURE" THEN 1 ELSE StackDelta(i)
Needs(i) ==
  CASE i.op \in Arithmetic \union {"LOW_EQ", "STI", "SWAP", "ELEM", "PATT_STR"} -> 2
    [] i.op \in {"SEXP", "CALL"} -> i.b
    [] i.op = "CALLC" -> i.a + 1
    [] i.op = "CALL_BARRAY" -> i.a
    [] i.op \in Loads \union References \union Begins
         \union {"CONST", "STRING", "CLOSURE", "JMP", "LINE", "CALL_LREAD", "STOP"} -> 0
    [] OTHER -> 1

\* Where control goes next within the function.
Terminal == {"END", "RET", "FAIL", "STOP"}
Successors(code, a) ==
  LET i == code[a] IN
  CASE i.op \in Terminal -> {}
    [] i.op = "JMP" -> {i.a}
    [] i.op \in CondJumps -> {a + 1, i.a}
    [] OTHER -> {a + 1}

\* At which depth of which function control reaches an address, by any way from a
\* BEGIN that passes through as many instructions as there are.
Reach(addr, fn, depth) == [addr |-> addr, fn |-> fn, depth |-> depth]
Starts(code) == {Reach(a, a, 0) : a \in {b \in DOMAIN code : code[b].op \in Begins}}
Onward(code, r) ==
  {Reach(s, r.fn, r.depth + Net(code[r.addr])) : s \in Successors(code, r.addr) \intersect DOMAIN code}
Reached(code) ==
  LET f[k \in 0..CodeSize(code)] ==
        IF k = 0
        THEN Starts(code)
        ELSE LET before == f[k - 1]
             IN before \union UNION {Onward(code, r) : r \in before}
  IN f[CodeSize(code)]

\* The function that an instruction belongs to, and the depth before it.
Unlabelled == Reach(-1, -1, 0)
Labels(code, reached) ==
  [a \in DOMAIN code |->
     IF \E r \in reached : r.addr = a THEN CHOOSE r \in reached : r.addr = a ELSE Unlabelled]

\* The addresses from which the function can come to its end.
Returning(code) ==
  LET f[k \in 0..CodeSize(code)] ==
        IF k = 0
        THEN {a \in DOMAIN code : code[a].op \in {"END", "RET", "FAIL"}}
        ELSE LET later == f[k - 1]
             IN later \union {a \in DOMAIN code : Successors(code, a) \intersect later # {}}
  IN f[CodeSize(code)]

\* The operands that only make sense within the function.
LocalOperands(code, fn, i) ==
  /\ i.op \in {"LD_LOCAL", "LDA_LOCAL", "ST_LOCAL"} => i.a \in 0..(code[fn].b - 1)
  /\ i.op \in {"LD_ARGUMENT", "LDA_ARGUMENT", "ST_ARGUMENT"} => i.a \in 0..(code[fn].a - 1)
  /\ \A c \in DOMAIN i.vars :
       /\ i.vars[c].kind = "LOCAL" => i.vars[c].pos \in 0..(code[fn].b - 1)
       /\ i.vars[c].kind = "ARGUMENT" => i.vars[c].pos \in 0..(code[fn].a - 1)

\* Calls name a function, with the number of its arguments.  A closure is not known
\* before it is called, so that every closure has to have the arguments of every CALLC.
CallsMatch(code, i) ==
  /\ i.op = "CALL" => i.a \in DOMAIN code /\ code[i.a].op = "BEGIN" /\ code[i.a].a = i.b
  /\ i.op = "CLOSURE" => /\ i.a \in DOMAIN code /\ code[i.a].op \in Begins
                         /\ \A a \in DOMAIN code : code[a].op = "CALLC" =>
                                                      code[a].a = code[i.a].a

\* What control reaches holds the beginnings of all functions and all that follows on
\* them.  A function is entered by calls only: a jump to its BEGIN, or a way that runs
\* into it, would make a frame that no call has prepared.
Complete(code, reached) ==
  /\ reached \subseteq [addr : DOMAIN code, fn : DOMAIN code, depth : Nat]
  /\ Starts(code) \subseteq reached
  /\ \A r \in reached : Onward(code, r) \subseteq reached
EntersByCall(code, a) == \A s \in Successors(code, a) : code[s].op \notin Begins

Disciplined(code, reached) ==
  /\ Complete(code, reached)
  /\ \A r \in reached :
       LET i == code[r.addr] IN
       /\ \A q \in reached : q.addr = r.addr => q = r
       /\ i.op \in Checkable /\ r.depth >= Needs(i)
       /\ i.op \in {"END", "RET"} => r.depth = 1
       /\ Successors(code, r.addr) \subseteq DOMAIN code
       /\ EntersByCall(code, r.addr)
       /\ LocalOperands(code, r.fn, i)
       /\ CallsMatch(code, i)
=============================================================================
