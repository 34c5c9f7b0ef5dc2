---------------------------- MODULE Disassembler ----------------------------
(***************************************************************************)
(* byterun/byterun.c: disassemble_instruction, as a function from a place  *)
(* in the code to the length of the instruction there.  The code is a      *)
(* sequence of bytes, an address is the offset of a byte, and an           *)
(* instruction is its opcode byte followed by its operands, words of W     *)
(* bytes.  The text that is printed is left out.                           *)
(***************************************************************************)
EXTENDS Integers, Sequences

CONSTANT W        (* sizeof(int), 4                                        *)
ASSUME WordAssumption == W \in Nat \ {0}

Bytes == 0..255
Byte(code, a) == code[a + 1]

\* The number that the digits to the base 256 continue, the highest one first.
Continued(first, digit) ==
  LET upTo[i \in 0..W] == IF i = 0 THEN first ELSE 256 * upTo[i - 1] + digit[i]
  IN  upTo[W]

\* An int of the machine: W bytes, the lowest first, and its signed reading.
Word(code, a) == Continued(0, [i \in 1..W |-> Byte(code, a + W - i)])
IntValues     == Continued(1, [i \in 1..W |-> 0])
Signed(w)     == IF 2 * w >= IntValues THEN w - IntValues ELSE w

JMP     == 21
END     == 22
RET     == 23
CJMPZ   == 80
CJMPNZ  == 81
CLOSURE == 84
CALLC   == 85
CALL    == 86
FAIL    == 89
STOP    == 240

\* The opcodes by the number of their operands.  BINOP and PATT look up a name by the
\* lower half of the byte, whatever it is: there are 13 names of operators, from 1
\* on, and 7 of patterns, from 0 on.
NoOperand  == (0..15) \union {19, 20} \union (22..27) \union (96..111) \union (112..115)
OneWord    == {16, 17, JMP} \union (32..35) \union (48..51) \union (64..67)
                \union {CJMPZ, CJMPNZ, CALLC, 88, 90, 116}
TwoWords   == {18, 82, 83, CALL, 87, FAIL}
EndMark    == 240..255
NoName     == {0, 14, 15} \union (103..111)

\* CLOSURE has an address, the number of captured variables, and a byte and a
\* word for each of them.
Captured(code, a) == Signed(Word(code, a + 1 + W))
CapturedAt(a, i)  == a + 1 + 2 * W + i * (1 + W)
Varspecs == 0..3

\* The bytes that say which variable is captured are looked at in order: the first
\* one that is wrong, or that is not there, is where the closure stops.
Inside(code, a)    == a + 1 <= Len(code)
IsVarspec(code, a) == Inside(code, a) /\ Byte(code, a) \in Varspecs
VarspecPlaces(code, a) ==
  {CapturedAt(a, i) : i \in {j \in 0..Len(code) : j < Captured(code, a)}}
StopsAt(code, a) ==
  {p \in VarspecPlaces(code, a) :
     ~IsVarspec(code, p) /\ \A q \in VarspecPlaces(code, a) : q < p => IsVarspec(code, q)}

\* Something is read beyond its end in a way that matters: a name that is not there,
\* or a byte behind the code that decides how far the instruction is read.
RunsOff(code, a) ==
  \/ Byte(code, a) \in NoName
  \/ /\ Byte(code, a) = CLOSURE
     /\ ~Inside(code, a + 2 * W) \/ \E p \in StopsAt(code, a) : ~Inside(code, p)

\* failure() is called, which ends the process.
IllFormed(code, a) ==
  \/ Byte(code, a) \notin NoOperand \union OneWord \union TwoWords
                            \union {CLOSURE} \union EndMark
  \/ /\ Byte(code, a) = CLOSURE
     /\ ~RunsOff(code, a)
     /\ StopsAt(code, a) # {}

\* What disassemble_instruction returns otherwise.
Length(code, a) ==
  LET op == Byte(code, a)
      n  == Captured(code, a)
  IN  CASE op \in NoOperand -> 1
        [] op \in OneWord   -> 1 + W
        [] op \in TwoWords  -> 1 + 2 * W
        [] op = CLOSURE     -> 1 + 2 * W + (IF n > 0 THEN n * (1 + W) ELSE 0)
        [] op \in EndMark   -> -1
=============================================================================
