----------------------- MODULE MCVerifiedInterpreter ------------------------
(***************************************************************************)
(* Programs for VerifiedInterpreter: every body of main of a few           *)
(* instructions over a small alphabet, and programs that use the rest.     *)
(***************************************************************************)
EXTENDS VerifiedInterpreter

\* A sequence of instructions as a program.
Program(instrs) == [a \in 0..(Len(instrs) - 1) |-> instrs[a + 1]]

\* main at 0 with a body of four instructions, a function with one argument at 6.
Alphabet ==
  {Instr("CALL_LREAD"), Instr("DROP"), Instr1("JMP", 1), Instr1("CJMPZ", 4),
   Instr2("CALL", 6, 1), Instr1("LD_ARGUMENT", 1), Instr("END")}
Callee == <<Instr2("BEGIN", 1, 0), Instr1("LD_ARGUMENT", 0), Instr("END"), Instr("STOP")>>
Bodies == {Program(<<Instr2("BEGIN", 2, 1), w, x, y, z, Instr("END")>> \o Callee) :
             w, x, y, z \in Alphabet}

MCStringTable == <<<<1>>, <<2, 1>>>>

\* Globals, references and assignments through them, and a closure.
Variables == Program(
  <<Instr2("BEGIN", 2, 1), Instr1("CONST", 1), Instr1("ST_LOCAL", 0), Instr1("LDA_LOCAL", 0),
    Instr("STI"), Instr1("ST_GLOBAL", 0), Instr1("ST_ARGUMENT", 1), Instr("DROP"),
    Closure(16, <<Var("LOCAL", 0), Var("GLOBAL", 0), Var("ARGUMENT", 1)>>),
    Instr1("CONST", 3), Instr1("CALLC", 1), Instr("DUP"), Instr1("LDA_GLOBAL", 0), Instr("STI"),
    Instr("LOW_MUL"), Instr("END"),
    Instr2("CBEGIN", 1, 0), Instr1("LD_ARGUMENT", 0), Instr1("LD_CAPTURED", 1), Instr("LOW_ADD"),
    Instr1("LDA_CAPTURED", 0), Instr("STI"), Instr1("ST_CAPTURED", 2), Instr("RET"),
    Instr("STOP")>>)

\* Strings, S-expressions, arrays, and every test of pattern matching.
Test(op) == <<Instr("DUP"), Instr(op), Instr("DROP")>>
Aggregates == Program(
  <<Instr2("BEGIN", 2, 0), Instr1("STRING", 0), Instr("DUP"), Instr1("STRING", 1),
    Instr("PATT_STR"), Instr("DROP"), Instr("PATT_STRING"), Instr1("CONST", 2),
    Instr2("SEXP", 1, 2)>>
  \o <<Instr("DUP"), Instr2("TAG", 1, 2), Instr("DROP"), Instr("DUP"), Instr1("CONST", 0),
       Instr("ELEM"), Instr("DROP"), Instr("DUP"), Instr("CALL_LLENGTH"),
       Instr1("CALL_BARRAY", 2), Instr("DUP"), Instr1("ARRAY", 2), Instr("DROP")>>
  \o Test("PATT_ARRAY") \o Test("PATT_SEXP") \o Test("PATT_REF") \o Test("PATT_VAL")
  \o Test("PATT_FUN")
  \o <<Instr("CALL_LSTRING"), Instr1("CONST", 1), Instr("SWAP"), Instr("LOW_EQ"),
       Instr("CALL_LWRITE"), Instr1("LINE", 1), Instr2("FAIL", 1, 1), Instr("STOP")>>)

\* Recursion without end, which the number of frames limits; a STOP.
Recursion == Program(
  <<Instr2("BEGIN", 2, 0), Instr1("CONST", 1), Instr2("CALL", 4, 1), Instr("END"),
    Instr2("BEGIN", 1, 1), Instr1("LD_ARGUMENT", 0), Instr2("CALL", 4, 1), Instr("END"),
    Instr("STOP")>>)
Stopping == Program(
  <<Instr2("BEGIN", 2, 0), Instr("CALL_LREAD"), Instr("DUP"), Instr1("CJMPNZ", 5), Instr("END"),
    Instr1("JMP", 6), Instr("STOP"), Instr("END"), Instr("STOP")>>)

\* A call in one branch, an argument in the other.
Branches == Program(
  <<Instr2("BEGIN", 2, 0), Instr("CALL_LREAD"), Instr1("CJMPZ", 5), Instr2("CALL", 7, 0),
    Instr1("JMP", 6), Instr1("LD_ARGUMENT", 1), Instr("END"),
    Instr2("BEGIN", 0, 0), Instr1("CONST", 1), Instr("RET"), Instr("STOP")>>)

\* STA in both of its forms, and the body of a closure that ends with the code.
Assignments == Program(
  <<Instr2("BEGIN", 2, 1), Instr1("CONST", 1), Instr1("CALL_BARRAY", 1), Instr1("CONST", 0),
    Instr1("CONST", 2), Instr("STA"), Instr1("LDA_LOCAL", 0), Instr1("CONST", 3), Instr("STA"),
    Instr("LOW_ADD"), Instr("END"), Instr("STOP")>>)
Open == Program(
  <<Instr2("BEGIN", 2, 0), Closure(4, << >>), Instr1("CALLC", 0), Instr("END"),
    Instr2("CBEGIN", 0, 0), Instr1("LINE", 1)>>)

\* A function with a way back to its own BEGIN, which makes a second frame for one call.
Reentrant == Program(
  <<Instr2("BEGIN", 2, 0), Instr1("CONST", 1), Instr2("CALL", 4, 1), Instr("END"),
    Instr2("BEGIN", 1, 0), Instr("CALL_LREAD"), Instr1("CJMPZ", 4), Instr1("CONST", 1),
    Instr("END"), Instr("STOP")>>)

WellFormed == {Variables, Aggregates, Recursion, Stopping, Branches}
MCUnverified == WellFormed \union {Assignments, Open, Reentrant}
MCPrograms == Bodies \union MCUnverified
BranchPrograms == {Branches}

ASSUME WellFormedAssumption ==
  /\ \A p \in WellFormed : Disciplined(p, Reached(p))
  /\ ~Disciplined(Reentrant, Reached(Reentrant))
=============================================================================
