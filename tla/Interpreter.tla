---------------------------- MODULE Interpreter -----------------------------
(***************************************************************************)
(* The iterative interpreters of Lama bytecode.  Those of Assignment02 and *)
(* Assignment04 are the same but for the conditions that they validate:    *)
(* Assignment02 (checking) looks at every operand and at every push and    *)
(* pop, Assignment04 only at what its verifier leaves to it.               *)
(*                                                                         *)
(* A validation that fails ends the process (status "failed").  Where the  *)
(* code reads or writes outside of the stack or follows a word that is no  *)
(* reference to an object, nothing is said of what comes then (status      *)
(* "undefined").  The collector is a matter of LamaGC: here an object stays*)
(* where it is.                                                            *)
(***************************************************************************)
EXTENDS Bytecode, SequencesExt

CONSTANTS MaxStack,      \* MAX_STACK_SIZE
          MaxFrames,     \* MAX_FRAMES_SIZE
          Globals,       \* the size of the global area
          StringTable,   \* the strings, sequences of characters, at positions from 0 on
          Inputs,        \* the integers that the input may hold
          IntBits,       \* the width of int32_t
          MaxObjects     \* bound: how many objects a behaviour may allocate

VARIABLES
  checking,        \* TRUE: Assignment02, FALSE: Assignment04
  code,
  ip,
  frames,
  stack,           \* stack_buf, all of it
  size,            \* how much of it is in use
  is_tmp_closure,
  heap,
  status           \* "running", "done", "failed" or "undefined"

ivars == <<checking, code, ip, frames, stack, size, is_tmp_closure, heap, status>>
-----------------------------------------------------------------------------
\* value: an integer, a reference to an object, to a cell of the stack or to a
\* captured value, or a word that is none of these.
Int32(n) == [kind |-> "int", at |-> n, field |-> 0]
Ref(o) == [kind |-> "ref", at |-> o, field |-> 0]
CellRef(c) == [kind |-> "cell", at |-> c, field |-> 0]
FieldRef(o, f) == [kind |-> "field", at |-> o, field |-> f]
Raw == [kind |-> "raw", at |-> 0, field |-> 0]

is_integer(v) == v.kind = "int"
is_object(v) == v.kind = "ref"
Readable(v) == v.kind \in {"int", "ref"}     \* its header may be looked at
Is(v, type) == is_object(v) /\ heap[v.at].type = type
is_aggregate(v) == is_object(v) /\ heap[v.at].type # "closure"
Elems(v) == heap[v.at].elems
Bool(b) == Int32(IF b THEN 1 ELSE 0)

\* An object; the tag of an S-expression is the position of its name in the string
\* table, the elements of a string are its characters, as wide as integers.
Object(type, tag, elems) == [type |-> type, tag |-> tag, elems |-> elems]
Text(chars) == Object("string", 0, [c \in DOMAIN chars |-> Int32(chars[c])])
New == Len(heap) + 1

\* The arithmetic of execute_binop_high: 64 bits wide, cut to the width of int32_t.
Wrap(n) == LET half == 2 ^ (IntBits - 1) IN ((n + half) % (2 * half)) - half
Abs(n) == IF n < 0 THEN -n ELSE n
Quotient(x, y) == (Abs(x) \div Abs(y)) * (IF (x < 0) = (y < 0) THEN 1 ELSE -1)
Binop(op, x, y) ==
  CASE op = "LOW_ADD" -> Int32(Wrap(x + y))
    [] op = "LOW_SUB" -> Int32(Wrap(x - y))
    [] op = "LOW_MUL" -> Int32(Wrap(x * y))
    [] op = "LOW_DIV" -> Int32(Wrap(Quotient(x, y)))
    [] op = "LOW_MOD" -> Int32(Wrap(x - y * Quotient(x, y)))
    [] op = "LOW_LT" -> Bool(x < y)
    [] op = "LOW_LE" -> Bool(x <= y)
    [] op = "LOW_GT" -> Bool(x > y)
    [] op = "LOW_GE" -> Bool(x >= y)
    [] op = "LOW_NE" -> Bool(x # y)
    [] op = "LOW_AND" -> Bool(x # 0 /\ y # 0)
    [] op = "LOW_OR" -> Bool(x # 0 \/ y # 0)
-----------------------------------------------------------------------------
Cells == 0..(MaxStack - 1)
I == code[ip]
Top(k) == stack[size - 1 - k]                     \* peek(k)
Under(n) == [k \in 1..n |-> stack[size - n + k - 1]]    \* the n words on top
Written(first, vals) ==
  [c \in Cells |-> IF c - first + 1 \in DOMAIN vals THEN vals[c - first + 1] ELSE stack[c]]

has_frame == frames # << >>
Frame == Last(frames)
LocalCell(pos) == Frame.base + pos
ArgCell(pos) == Frame.base - Frame.args + pos
ClosureCell == Frame.base - Frame.args - 1
FrameClosure == stack[ClosureCell]

\* In Assignment04 the verifier has had its work list in stack_buf: what it left there
\* is not looked into either, and taken for a word that is no value.
IInit ==
  /\ ip = 0
  /\ frames = << >>
  /\ stack = [c \in Cells |-> Raw]
  /\ size = Globals + 2
  /\ is_tmp_closure = FALSE
  /\ heap = << >>
  /\ status = "running"
-----------------------------------------------------------------------------
Fail == status' = "failed" /\ UNCHANGED <<code, ip, frames, stack, size, is_tmp_closure, heap>>
Undefined ==
  status' = "undefined" /\ UNCHANGED <<code, ip, frames, stack, size, is_tmp_closure, heap>>

\* pop and push: Assignment02 validates, Assignment04 does not.
Trap == IF checking THEN Fail ELSE Undefined

\* Whether the cell of a variable belongs to the stack.
CellOf(kind, pos) ==
  CASE kind = "GLOBAL" -> pos
    [] kind = "LOCAL" -> LocalCell(pos)
    [] kind = "ARGUMENT" -> ArgCell(pos)
HasCell(kind, pos) ==
  /\ kind = "GLOBAL" \/ has_frame
  /\ IF kind = "CAPTURED" THEN ClosureCell \in Cells /\ Is(FrameClosure, "closure")
                          ELSE CellOf(kind, pos) \in Cells

\* get_captured_vars_size, validated by both interpreters.
CaptureValid(pos) == pos \in 0..(Len(Elems(FrameClosure)) - 2)
ReadVar(kind, pos) ==
  IF kind = "CAPTURED" THEN Elems(FrameClosure)[pos + 2] ELSE stack[CellOf(kind, pos)]

\* What Assignment02 validates of a variable before it uses it.
InRange(kind, pos) ==
  CASE kind = "GLOBAL" -> pos \in 0..(Globals - 1)
    [] kind = "LOCAL" -> has_frame => pos \in 0..(Frame.locals - 1)
    [] kind = "ARGUMENT" -> has_frame => pos \in 0..(Frame.args - 1)
    [] kind = "CAPTURED" -> TRUE

\* What Assignment02 validates of the operands in the bytecode: the variables of LD,
\* LDA, ST and CLOSURE, positions in the string table, destinations, and counts.
VariablesChecked ==
  /\ I.op \in Loads \union References \union Stores => InRange(KindOf(I.op), I.a)
  /\ \A c \in DOMAIN I.vars : InRange(I.vars[c].kind, I.vars[c].pos)
StringsChecked == I.op \in {"STRING", "SEXP", "TAG"} => I.a \in 0..(Len(StringTable) - 1)
TargetsChecked == I.op \in {"JMP", "CALL", "CLOSURE"} \union CondJumps => I.a \in DOMAIN code
CountsChecked ==
  /\ I.op \in {"SEXP", "TAG", "CALL", "CLOSURE"} \union Begins => I.b >= 0
  /\ I.op \in {"CALLC", "ARRAY", "CALL_BARRAY"} \union Begins => I.a >= 0
OperandsChecked == VariablesChecked /\ StringsChecked /\ TargetsChecked /\ CountsChecked

\* The end of the code: pop_next_op and pop_next_int32 of Assignment02 validate it
\* always, those of Assignment04 for the captured variables.
EndChecked == checking \/ I.op \in Captures => ip + 1 \in DOMAIN code

Running(ops) == status = "running" /\ ip \in DOMAIN code /\ I.op \in ops

\* An instruction of ops that pops n words: where it is defined, where it is valid,
\* and what it does then.
Execute(ops, n, defined, valid, effect) ==
  /\ Running(ops)
  /\ UNCHANGED <<checking, code>>
  /\ IF ~EndChecked \/ (checking /\ ~OperandsChecked) THEN Fail
     ELSE IF size < n THEN Trap
     ELSE IF (n > 0 /\ size > MaxStack) \/ ~defined THEN Undefined
     ELSE IF ~valid THEN Fail
     ELSE effect

\* Push vals on the part of the stack below bottom, and go on at next with the
\* frames outer.
PushAt(bottom, vals, next, outer) ==
  IF bottom + Len(vals) > MaxStack THEN Trap
  ELSE /\ stack' = Written(bottom, vals)
       /\ size' = bottom + Len(vals)
       /\ ip' = next
       /\ frames' = outer
       /\ UNCHANGED <<is_tmp_closure, status>>

\* Pop n words, push vals, and go on with the next instruction.
Push(n, vals) == PushAt(size - n, vals, ip + 1, frames)
Replace(n, vals) == Push(n, vals) /\ UNCHANGED heap

\* Allocate an object and push a reference to it in place of n words.
Allocate(n, object) ==
  /\ Len(heap) < MaxObjects
  /\ IF size - n >= MaxStack THEN Trap
     ELSE heap' = Append(heap, object) /\ Push(n, <<Ref(New)>>)
-----------------------------------------------------------------------------
\* execute_binop_high and execute_low_eq.
ExecuteBinop ==
  Execute(Arithmetic, 2, TRUE,
          /\ is_integer(Top(1)) /\ is_integer(Top(0))
          /\ I.op \in {"LOW_DIV", "LOW_MOD"} => Top(0).at # 0,
          Replace(2, <<Binop(I.op, Top(1).at, Top(0).at)>>))

ExecuteLowEq ==
  Execute({"LOW_EQ"}, 2, TRUE, is_integer(Top(1)) \/ is_integer(Top(0)),
          Replace(2, <<Bool(is_integer(Top(1)) /\ Top(1) = Top(0))>>))

ExecuteConst == Execute({"CONST"}, 0, TRUE, TRUE, Replace(0, <<Int32(I.a)>>))

ExecuteString ==
  Execute({"STRING"}, 0, I.a \in 0..(Len(StringTable) - 1), TRUE,
          Allocate(0, Text(StringTable[I.a + 1])))

\* The elements are taken from the stack before they are popped.  to_s_expr stores the
\* hash of the tag in the word above them.
ExecuteSexp ==
  Execute({"SEXP"}, 0, I.b \in 0..size /\ size < MaxStack, TRUE,
          /\ Len(heap) < MaxObjects
          /\ heap' = Append(heap, Object("sexp", I.a, Under(I.b)))
          /\ stack' = [stack EXCEPT ![size] = Int32(I.a), ![size - I.b] = Ref(New)]
          /\ size' = size - I.b + 1
          /\ ip' = ip + 1
          /\ UNCHANGED <<frames, is_tmp_closure, status>>)

ExecuteBarray ==
  Execute({"CALL_BARRAY"}, 0, I.a \in 0..size /\ size <= MaxStack, TRUE,
          Allocate(I.a, Object("array", 0, Under(I.a))))

\* Store a value through a reference to a variable, which takes n words.
Assign(ref, val, n) ==
  \/ /\ ref.kind = "cell"
     /\ stack' = [Written(size - n, <<val>>) EXCEPT ![ref.at] = val]
     /\ UNCHANGED heap
  \/ /\ ref.kind = "field"
     /\ heap' = [heap EXCEPT ![ref.at].elems[ref.field] = val]
     /\ stack' = Written(size - n, <<val>>)
Assigned(ref, val, n) ==
  /\ Assign(ref, val, n)
  /\ size' = size - n + 1
  /\ ip' = ip + 1
  /\ UNCHANGED <<frames, is_tmp_closure, status>>
Assignable(ref) == ref.kind \in {"cell", "field"}

ExecuteSti ==
  Execute({"STI"}, 2, is_integer(Top(0)) \/ Assignable(Top(0)), ~is_integer(Top(0)),
          Assigned(Top(0), Top(1), 2))

\* STA through a reference, or into an element of an aggregate.
ExecuteStaReference ==
  /\ Running({"STA"}) /\ size \in 2..MaxStack /\ ~is_integer(Top(1))
  /\ Execute({"STA"}, 2, Assignable(Top(1)), TRUE, Assigned(Top(1), Top(0), 2))

ExecuteStaElement ==
  /\ Running({"STA"}) /\ (size \in 2..MaxStack => is_integer(Top(1)))
  /\ Execute({"STA"}, 3,
             Readable(Top(2)) /\ (Is(Top(2), "string") => is_integer(Top(0))),
             is_aggregate(Top(2)) /\ Top(1).at \in 0..(Len(Elems(Top(2))) - 1),
             /\ Push(3, <<Top(0)>>)
             /\ heap' = [heap EXCEPT ![Top(2).at].elems[Top(1).at + 1] = Top(0)])

ExecuteElem ==
  Execute({"ELEM"}, 2, is_integer(Top(0)) => Readable(Top(1)),
          /\ is_integer(Top(0)) /\ is_aggregate(Top(1))
          /\ Top(0).at \in 0..(Len(Elems(Top(1))) - 1),
          Replace(2, <<Elems(Top(1))[Top(0).at + 1]>>))

ExecuteLength ==
  Execute({"CALL_LLENGTH"}, 1, Readable(Top(0)), is_aggregate(Top(0)),
          Replace(1, <<Int32(Len(Elems(Top(0))))>>))

\* The text of a value is some string.
ExecuteToString ==
  Execute({"CALL_LSTRING"}, 1, TRUE, TRUE,
          \E s \in Range(StringTable) : Allocate(1, Text(s)))
-----------------------------------------------------------------------------
ExecuteDrop ==
  Execute({"DROP"}, 1, TRUE, TRUE, Replace(1, << >>))

\* peek validates nothing.
ExecuteDup == Execute({"DUP"}, 0, size \in 1..MaxStack, TRUE, Replace(0, <<Top(0)>>))

\* The word from below is pushed first.
ExecuteSwap == Execute({"SWAP"}, 2, TRUE, TRUE, Replace(2, <<Top(1), Top(0)>>))

ExecuteLoad ==
  Execute(Loads, 0, HasCell(KindOf(I.op), I.a), KindOf(I.op) = "CAPTURED" => CaptureValid(I.a),
          Replace(0, <<ReadVar(KindOf(I.op), I.a)>>))

ExecuteReference ==
  Execute(References, 0, HasCell(KindOf(I.op), I.a), I.op = "LDA_CAPTURED" => CaptureValid(I.a),
          Replace(0, <<IF I.op = "LDA_CAPTURED" THEN FieldRef(FrameClosure.at, I.a + 2)
                                                ELSE CellRef(CellOf(KindOf(I.op), I.a))>>))

\* ST pops the value, stores it and pushes it again.
ExecuteStore ==
  Execute(Stores, 1, HasCell(KindOf(I.op), I.a), I.op = "ST_CAPTURED" => CaptureValid(I.a),
          Assigned(IF I.op = "ST_CAPTURED" THEN FieldRef(FrameClosure.at, I.a + 2)
                                           ELSE CellRef(CellOf(KindOf(I.op), I.a)),
                   Top(0), 1))
-----------------------------------------------------------------------------
Goto(target) ==
  /\ ip' = target
  /\ UNCHANGED <<frames, stack, size, is_tmp_closure, heap, status>>

ExecuteJmp == Execute({"JMP"}, 0, TRUE, TRUE, Goto(I.a))

\* execute_cjmp compares the condition with the flag for CJMPNZ.
ExecuteCjmp ==
  Execute(CondJumps, 1, TRUE, is_integer(Top(0)),
          /\ size' = size - 1
          /\ ip' = IF Top(0).at = (IF I.op = "CJMPNZ" THEN 1 ELSE 0) THEN I.a ELSE ip + 1
          /\ UNCHANGED <<frames, stack, is_tmp_closure, heap, status>>)

\* Mutant of ExecuteBegin: the operand for the locals still holds the measured depth.
ExecuteBeginPacked ==
  LET locals == I.b
      room == IF checking THEN I.b ELSE UpperHalf(I.b)
  IN Execute(Begins, 0, TRUE, size + room <= MaxStack /\ Len(frames) < MaxFrames,
             /\ frames' = Append(frames,
                            [base |-> size, locals |-> locals, args |-> I.a,
                             closure |-> I.op = "CBEGIN" \/ is_tmp_closure, ret |-> -1])
             /\ is_tmp_closure' = IF I.op = "BEGIN" THEN FALSE ELSE is_tmp_closure
             /\ size' = size + locals
             /\ ip' = ip + 1
             /\ UNCHANGED <<stack, heap, status>>)

\* execute_begin and execute_cbegin.  Assignment02 asks for room for the locals,
\* Assignment04 for the depth that the verifier has measured.
ExecuteBegin ==
  LET locals == IF checking THEN I.b ELSE LowerHalf(I.b)
      room == IF checking THEN I.b ELSE UpperHalf(I.b)
  IN Execute(Begins, 0, TRUE, size + room <= MaxStack /\ Len(frames) < MaxFrames,
             /\ frames' = Append(frames,
                            [base |-> size, locals |-> locals, args |-> I.a,
                             closure |-> I.op = "CBEGIN" \/ is_tmp_closure, ret |-> -1])
             /\ is_tmp_closure' = IF I.op = "BEGIN" THEN FALSE ELSE is_tmp_closure
             /\ size' = size + locals
             /\ ip' = ip + 1
             /\ UNCHANGED <<stack, heap, status>>)

\* Mutant of ExecuteRet: the arguments stay.
ExecuteRetKeepingArguments ==
  LET bottom == Frame.base - (IF Frame.closure THEN 1 ELSE 0)
      outer == Front(frames)
  IN Execute({"END", "RET"}, 1, has_frame => bottom >= 0, has_frame,
             IF outer # << >>
             THEN PushAt(bottom, <<Top(0)>>, Last(outer).ret, outer) /\ UNCHANGED heap
             ELSE /\ status' = "done" /\ frames' = outer /\ size' = bottom
                  /\ UNCHANGED <<stack, ip, is_tmp_closure, heap>>)

\* execute_ret: drop the frame with its arguments (and the closure below them), and
\* push the result on the stack of the caller.
ExecuteRet ==
  LET bottom == Frame.base - Frame.args - (IF Frame.closure THEN 1 ELSE 0)
      outer == Front(frames)
  IN Execute({"END", "RET"}, 1, has_frame => bottom >= 0, has_frame,
             IF outer # << >>
             THEN PushAt(bottom, <<Top(0)>>, Last(outer).ret, outer) /\ UNCHANGED heap
             ELSE /\ status' = "done" /\ frames' = outer /\ size' = bottom
                  /\ UNCHANGED <<stack, ip, is_tmp_closure, heap>>)

\* The return address is kept in the frame of the caller.
Enter(target, by_closure) ==
  /\ frames' = [frames EXCEPT ![Len(frames)].ret = ip + 1]
  /\ ip' = target
  /\ is_tmp_closure' = by_closure
  /\ UNCHANGED <<stack, size, heap, status>>

ExecuteCall ==
  Execute({"CALL"}, 0, has_frame /\ I.a \in DOMAIN code, code[I.a].op = "BEGIN",
          Enter(I.a, FALSE))

ExecuteCallc ==
  LET callee == Top(I.a)
      target == Elems(callee)[1].at
  IN Execute({"CALLC"}, 0, has_frame /\ size - 1 - I.a \in Cells /\ Readable(callee),
             Is(callee, "closure") /\ target \in DOMAIN code /\ code[target].op \in Begins,
             Enter(target, TRUE))

\* execute_closure pushes the entry point and the captured values; to_closure takes
\* one word more than was pushed.
ExecuteClosure ==
  LET captured == [c \in DOMAIN I.vars |-> ReadVar(I.vars[c].kind, I.vars[c].pos)]
      words == <<Int32(I.a)>> \o captured
  IN Execute({"CLOSURE"}, 0,
             has_frame /\ \A c \in DOMAIN I.vars : HasCell(I.vars[c].kind, I.vars[c].pos),
             \A c \in DOMAIN I.vars : I.vars[c].kind = "CAPTURED" => CaptureValid(I.vars[c].pos),
             IF size + Len(words) > MaxStack THEN Trap
             ELSE IF size + Len(words) = MaxStack THEN Undefined
             ELSE /\ Len(heap) < MaxObjects
                  /\ heap' = Append(heap, Object("closure", 0,
                                                 Append(words, stack[size + Len(words)])))
                  /\ stack' = Written(size, <<Ref(New)>> \o captured)
                  /\ size' = size + 1
                  /\ ip' = ip + 1
                  /\ UNCHANGED <<frames, is_tmp_closure, status>>)
-----------------------------------------------------------------------------
\* The tests of pattern matching look at the header of what is not an integer.
ExecuteTag ==
  Execute({"TAG"}, 1, Readable(Top(0)), TRUE,
          Replace(1, <<Bool(/\ Is(Top(0), "sexp") /\ heap[Top(0).at].tag = I.a
                            /\ Len(Elems(Top(0))) = I.b)>>))

ExecuteArray ==
  Execute({"ARRAY"}, 1, Readable(Top(0)), TRUE,
          Replace(1, <<Bool(Is(Top(0), "array") /\ Len(Elems(Top(0))) = I.a)>>))

\* Bstring_patt insists on a string for a second argument that is a reference, and
\* does not look at it unless the first one is a string.
ExecutePattStr ==
  LET pattern == Top(0)
      subject == Top(1)
      valid == is_integer(pattern) \/ Is(pattern, "string")
  IN Execute({"PATT_STR"}, 2,
             /\ Readable(pattern)
             /\ valid => Readable(subject) /\ (Is(subject, "string") => Is(pattern, "string")),
             valid,
             Replace(2, <<Bool(Is(subject, "string") /\ Elems(subject) = Elems(pattern))>>))

Matches(op, v) ==
  CASE op = "PATT_STRING" -> Is(v, "string")
    [] op = "PATT_ARRAY" -> Is(v, "array")
    [] op = "PATT_SEXP" -> Is(v, "sexp")
    [] op = "PATT_FUN" -> Is(v, "closure")
    [] op = "PATT_REF" -> ~is_integer(v)
    [] op = "PATT_VAL" -> is_integer(v)

ExecutePattern ==
  Execute(Patterns, 1, I.op \in {"PATT_REF", "PATT_VAL"} \/ Readable(Top(0)), TRUE,
          Replace(1, <<Bool(Matches(I.op, Top(0)))>>))

\* Bmatch_failure ends the process.
ExecuteFail == Execute({"FAIL"}, 1, TRUE, TRUE, Fail)

ExecuteLine == Execute({"LINE"}, 0, TRUE, TRUE, Goto(ip + 1))

ExecuteRead ==
  Execute({"CALL_LREAD"}, 0, TRUE, TRUE, \E n \in Inputs : Replace(0, <<Int32(n)>>))

\* The result of a write is a word of zeros.
ExecuteWrite ==
  Execute({"CALL_LWRITE"}, 1, TRUE, is_integer(Top(0)), Replace(1, <<Raw>>))

ExecuteStop ==
  Execute({"STOP"}, 0, TRUE, TRUE,
          status' = "done" /\ UNCHANGED <<ip, frames, stack, size, is_tmp_closure, heap>>)

\* Past the end of the code: Assignment02 validates, Assignment04 reads on.
RunOff ==
  /\ status = "running" /\ ip \notin DOMAIN code
  /\ UNCHANGED checking
  /\ Trap

INext ==
  \/ ExecuteBinop \/ ExecuteLowEq \/ ExecuteConst \/ ExecuteString \/ ExecuteSexp
  \/ ExecuteBarray \/ ExecuteSti \/ ExecuteStaReference \/ ExecuteStaElement
  \/ ExecuteElem \/ ExecuteLength \/ ExecuteToString
  \/ ExecuteDrop \/ ExecuteDup \/ ExecuteSwap
  \/ ExecuteLoad \/ ExecuteReference \/ ExecuteStore
  \/ ExecuteJmp \/ ExecuteCjmp \/ ExecuteBegin \/ ExecuteRet
  \/ ExecuteCall \/ ExecuteCallc \/ ExecuteClosure
  \/ ExecuteTag \/ ExecuteArray \/ ExecutePattStr \/ ExecutePattern \/ ExecuteFail
  \/ ExecuteLine \/ ExecuteRead \/ ExecuteWrite \/ ExecuteStop
  \/ RunOff
=============================================================================
