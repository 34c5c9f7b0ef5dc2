------------------------------ MODULE Bytecode ------------------------------
(***************************************************************************)
(* The instructions of the Lama virtual machine as the bytecode file of    *)
(* Assignment02 and Assignment04 holds them.  An address is the index of   *)
(* an instruction instead of the offset of a byte, so that the address     *)
(* after an instruction is the next index.  An instruction is a record of  *)
(* its opcode, up to two integer operands a and b, and the captured        *)
(* variables of CLOSURE.                                                   *)
(***************************************************************************)
EXTENDS Integers, Sequences, FiniteSets

\* bytecode: the opcodes, by what they do to the stack.
Arithmetic == {"LOW_ADD", "LOW_SUB", "LOW_MUL", "LOW_DIV", "LOW_MOD", "LOW_LT",
               "LOW_LE", "LOW_GT", "LOW_GE", "LOW_NE", "LOW_AND", "LOW_OR"}
Loads == {"LD_GLOBAL", "LD_LOCAL", "LD_ARGUMENT", "LD_CAPTURED"}
References == {"LDA_GLOBAL", "LDA_LOCAL", "LDA_ARGUMENT", "LDA_CAPTURED"}
Stores == {"ST_GLOBAL", "ST_LOCAL", "ST_ARGUMENT", "ST_CAPTURED"}
Captures == {"LD_CAPTURED", "LDA_CAPTURED", "ST_CAPTURED"}
CondJumps == {"CJMPZ", "CJMPNZ"}
Begins == {"BEGIN", "CBEGIN"}
Patterns == {"PATT_STRING", "PATT_ARRAY", "PATT_SEXP", "PATT_REF", "PATT_VAL", "PATT_FUN"}

Opcodes ==
  Arithmetic \union Loads \union References \union Stores \union CondJumps
    \union Begins \union Patterns
    \union {"LOW_EQ", "CONST", "STRING", "SEXP", "STI", "STA", "JMP", "END", "RET",
            "DROP", "DUP", "SWAP", "ELEM", "CLOSURE", "CALLC", "CALL", "TAG",
            "ARRAY", "FAIL", "LINE", "PATT_STR", "CALL_LREAD", "CALL_LWRITE",
            "CALL_LLENGTH", "CALL_LSTRING", "CALL_BARRAY", "STOP"}

\* Which variable a LD, LDA, ST or an entry of CLOSURE designates (varspec).
Kinds == {"GLOBAL", "LOCAL", "ARGUMENT", "CAPTURED"}
KindOf(op) ==
  CASE op \in {"LD_GLOBAL", "LDA_GLOBAL", "ST_GLOBAL"} -> "GLOBAL"
    [] op \in {"LD_LOCAL", "LDA_LOCAL", "ST_LOCAL"} -> "LOCAL"
    [] op \in {"LD_ARGUMENT", "LDA_ARGUMENT", "ST_ARGUMENT"} -> "ARGUMENT"
    [] op \in Captures -> "CAPTURED"

\* An instruction with two operands, with one, with none; a CLOSURE.
Instr2(op, a, b) == [op |-> op, a |-> a, b |-> b, vars |-> << >>]
Instr1(op, a) == Instr2(op, a, 0)
Instr(op) == Instr2(op, 0, 0)
Closure(a, vars) == [op |-> "CLOSURE", a |-> a, b |-> Len(vars), vars |-> vars]
Var(kind, pos) == [kind |-> kind, pos |-> pos]
Instructions == [op : Opcodes, a : Int, b : Int, vars : Seq([kind : Kinds, pos : Int])]

\* A program: its instructions from address 0 on.
CodeSize(code) == Cardinality(DOMAIN code)
IsCode(code) ==
  /\ IsFiniteSet(DOMAIN code)
  /\ DOMAIN code = 0..(CodeSize(code) - 1) /\ DOMAIN code # {}
  /\ code \in [DOMAIN code -> Instructions]

\* The operand of BEGIN for the locals is shared: the verifier puts the depth of
\* the stack that it has measured into the upper half of the word.
CONSTANT HalfWord
ASSUME HalfWordAssumption == HalfWord \in Nat \ {0}
Pack(depth, locals) == ((depth % HalfWord) * HalfWord) + (locals % HalfWord)
UpperHalf(word) == (word \div HalfWord) % HalfWord
LowerHalf(word) == word % HalfWord

\* get_stack_delta of the verifier: what an instruction adds to the depth of the
\* stack.  STA is not among the checkable instructions.
Consuming == Arithmetic \union CondJumps
  \union {"LOW_EQ", "STI", "DROP", "ELEM", "FAIL", "PATT_STR"}
Producing == Loads \union References
  \union {"CONST", "STRING", "DUP", "CALL_LREAD"}
Checkable == Opcodes \ {"STA"}
StackDelta(i) ==
  CASE i.op \in Consuming -> -1
    [] i.op \in Producing -> 1
    [] i.op \in {"SEXP", "CALL"} -> 1 - i.b
    [] i.op = "CLOSURE" -> i.b + 1
    [] i.op = "CALLC" -> -i.a
    [] i.op = "CALL_BARRAY" -> 1 - i.a
    [] OTHER -> 0
=============================================================================
