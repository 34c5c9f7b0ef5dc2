------------------------------ MODULE Verifier ------------------------------
(***************************************************************************)
(* The verifier of Assignment04: it walks over the bytecode with a work    *)
(* list, records the depth of the stack at every instruction, checks the   *)
(* operands, and writes the depth that a function needs into the operand   *)
(* of its BEGIN.                                                           *)
(*                                                                         *)
(* An action is one turn of the loop of traverse_bytecode.  addr_ lives    *)
(* for one turn only: the instruction that the work list has on top.       *)
(***************************************************************************)
EXTENDS Bytecode, SequencesExt

CONSTANTS MaxStack,     \* MAX_STACK_SIZE
          Globals,      \* the size of the global area
          Strings,      \* the size of the string table
          Entry         \* the address of the public symbol main

ASSUME VerifierAssumption ==
  /\ MaxStack \in Nat \ {0}
  /\ Globals \in Nat /\ Strings \in Nat /\ Entry \in Nat

VARIABLES
  code,                       \* the bytecode file
  stack_sizes,                \* what is known of the depth at each address
  workset,                    \* addresses to visit and functions to return to
  frames_depth,
  current_frame_addr,         \* the BEGIN of the current function
  current_frame_stack_size,   \* the greatest depth in the current function
  current_stack_size,
  verdict                     \* "running", "accepted" or "rejected"

vvars == <<code, stack_sizes, workset, frames_depth, current_frame_addr,
           current_frame_stack_size, current_stack_size, verdict>>
frame_vars == <<frames_depth, current_frame_addr>>
-----------------------------------------------------------------------------
\* stack_size: no value, the depth before an instruction that is yet to be
\* visited, or the depth after one that has been, in one integer.
NoValue == -1
FromInitial(val) == -val - 2
FromProcessed(val) == val
HasValue(repr) == repr # NoValue
IsInitial(repr) == repr < NoValue
IsProcessed(repr) == repr > NoValue
GetValue(repr) == IF IsInitial(repr) THEN -repr - 2 ELSE repr

\* workset_entry.
FromInstruction(addr) == [frame |-> FALSE, val |-> addr]
FromFrame(val) == [frame |-> TRUE, val |-> val]

VInit ==
  /\ stack_sizes = [a \in DOMAIN code |-> NoValue]
  /\ workset = <<FromInstruction(Entry)>>
  /\ frames_depth = 0
  /\ current_frame_addr = Entry
  /\ current_frame_stack_size = 0
  /\ current_stack_size = 0
  /\ verdict = "running"
-----------------------------------------------------------------------------
\* The visited instruction, and the depth of the stack after it.
Addr == Last(workset).val
Rest == Front(workset)
Op == code[Addr].op
Size ==
  StackDelta(code[Addr])
    + (IF IsInitial(stack_sizes[Addr]) THEN GetValue(stack_sizes[Addr])
                                       ELSE current_stack_size)
Recorded == [stack_sizes EXCEPT ![Addr] = FromProcessed(Size)]

\* Mutant of Measured: the depth after the last instruction.
LastMeasured == Size
Measured == IF Size > current_frame_stack_size THEN Size ELSE current_frame_stack_size

Visiting == verdict = "running" /\ workset # << >> /\ ~Last(workset).frame
Again == IsProcessed(stack_sizes[Addr])

get_args_size == code[current_frame_addr].a
get_locals_size == code[current_frame_addr].b

\* Whether a variable is within the bounds that the current function gives.
InBounds(kind, pos) ==
  CASE kind = "GLOBAL" -> pos \in 0..(Globals - 1)
    [] kind = "LOCAL" -> pos \in 0..(get_locals_size - 1)
    [] kind = "ARGUMENT" -> pos \in 0..(get_args_size - 1)
    [] kind = "CAPTURED" -> TRUE

\* The conditions that the process_* functions validate.
OperandsValid(i) ==
  /\ i.op \in Loads \union References \union Stores => InBounds(KindOf(i.op), i.a)
  /\ i.op \in {"STRING", "SEXP", "TAG"} => i.a \in 0..(Strings - 1)
  /\ i.op \in {"JMP", "CALL", "CLOSURE"} \union CondJumps => i.a \in DOMAIN code
  /\ i.op \in {"SEXP", "TAG", "CALL", "CLOSURE"} \union Begins => i.b >= 0
  /\ i.op \in {"CALLC", "CALL_BARRAY"} \union Begins => i.a >= 0
  /\ \A c \in DOMAIN i.vars : InBounds(i.vars[c].kind, i.vars[c].pos)

\* process_jmp and process_cjmp compare, at an address with a value, the depth
\* recorded at the jump itself with the current one.
MergeValid(i) ==
  i.op \in {"JMP"} \union CondJumps /\ HasValue(Recorded[i.a])
    => GetValue(Recorded[Addr]) = Size

\* Mutant of DepthValid: underflow is not looked for.
OverflowValid == Op \in Checkable /\ Size < MaxStack
DepthValid == Op \in Checkable /\ Size >= 0 /\ Size < MaxStack

\* What the loop validates before and while it visits the instruction.
VisitValid ==
  /\ Addr + 1 \in DOMAIN code
  /\ Op \in Begins \/ frames_depth > 0
  /\ OperandsValid(code[Addr])
  /\ MergeValid(code[Addr])
-----------------------------------------------------------------------------
\* A function that was left: the one before becomes the current one again.
LeaveFrame ==
  /\ verdict = "running" /\ workset # << >> /\ Last(workset).frame
  /\ current_frame_addr' = Last(workset).val
  /\ current_frame_stack_size' = Last(Rest).val
  /\ workset' = Front(Rest)
  /\ frames_depth' = frames_depth - 1
  /\ UNCHANGED <<code, stack_sizes, current_stack_size, verdict>>

\* The next address of the work list is to be visited (again): the depth that is
\* known of it is the current one, and the one before it.
Resume(next, sizes) ==
  /\ current_stack_size' = GetValue(sizes[next])
  /\ stack_sizes' = IF IsProcessed(sizes[next])
                    THEN [sizes EXCEPT ![next] = FromInitial(GetValue(sizes[next]))]
                    ELSE sizes

\* An instruction that was visited before.
Revisit ==
  /\ Visiting /\ DepthValid /\ Again
  /\ workset' = Rest
  /\ IF Rest # << >> /\ ~Last(Rest).frame
     THEN HasValue(stack_sizes[Last(Rest).val]) /\ Resume(Last(Rest).val, stack_sizes)
     ELSE current_stack_size' = Size /\ UNCHANGED stack_sizes
  /\ UNCHANGED <<code, frame_vars, current_frame_stack_size, verdict>>

Visit(ops) ==
  /\ Visiting /\ DepthValid /\ ~Again /\ VisitValid /\ Op \in ops
  /\ current_frame_stack_size' = Measured
  /\ UNCHANGED verdict

\* Every instruction that only goes on to the next one.
Advance ==
  /\ Visit(Opcodes \ ({"JMP", "CALL", "END", "RET", "FAIL"} \union CondJumps \union Begins))
  /\ stack_sizes' = Recorded
  /\ current_stack_size' = Size
  /\ workset' = Append(Rest, FromInstruction(Addr + 1))
  /\ UNCHANGED <<code, frame_vars>>

\* Mutant of Jump: the destination is to be visited again, as that of a call is.
JumpReopening ==
  /\ Visit({"JMP"})
  /\ LET target == code[Addr].a IN
       /\ stack_sizes' = [Recorded EXCEPT ![target] = FromInitial(Size)]
       /\ workset' = Append(Rest, FromInstruction(target))
  /\ current_stack_size' = Size
  /\ UNCHANGED <<code, frame_vars>>
Jump ==
  /\ Visit({"JMP"})
  /\ LET target == code[Addr].a IN
       /\ stack_sizes' = IF HasValue(Recorded[target]) THEN Recorded
                         ELSE [Recorded EXCEPT ![target] = FromInitial(Size)]
       /\ workset' = Append(Rest, FromInstruction(target))
  /\ current_stack_size' = Size
  /\ UNCHANGED <<code, frame_vars>>

CondJump ==
  /\ Visit(CondJumps)
  /\ LET target == code[Addr].a
         known == HasValue(Recorded[target])
     IN /\ stack_sizes' = IF known THEN Recorded
                          ELSE [Recorded EXCEPT ![target] = FromInitial(Size)]
        /\ workset' = Rest \o (IF known THEN << >> ELSE <<FromInstruction(target)>>)
                           \o <<FromInstruction(Addr + 1)>>
  /\ current_stack_size' = Size
  /\ UNCHANGED <<code, frame_vars>>

\* Mutant of Call: the function is not put on the work list.
CallUnfollowed ==
  /\ Visit({"CALL"})
  /\ stack_sizes' = [Recorded EXCEPT ![code[Addr].a] = FromInitial(Size)]
  /\ workset' = Append(Rest, FromInstruction(Addr + 1))
  /\ current_stack_size' = Size
  /\ UNCHANGED <<code, frame_vars>>
Call ==
  /\ Visit({"CALL"})
  /\ LET target == code[Addr].a IN
       /\ stack_sizes' = [Recorded EXCEPT ![target] = FromInitial(Size)]
       /\ workset' = Rest \o <<FromInstruction(target), FromInstruction(Addr + 1)>>
  /\ current_stack_size' = Size
  /\ UNCHANGED <<code, frame_vars>>

EnterFrame ==
  /\ Visit(Begins)
  /\ workset' = Rest \o <<FromFrame(Measured), FromFrame(current_frame_addr),
                          FromInstruction(Addr + 1)>>
  /\ current_frame_addr' = Addr
  /\ frames_depth' = frames_depth + 1
  /\ stack_sizes' = Recorded
  /\ current_stack_size' = Size
  /\ UNCHANGED code

\* Mutant of Return: frames_depth stays.
ReturnKeepingDepth ==
  /\ Visit({"END", "RET", "FAIL"})
  /\ LET leaving == Rest # << >> /\ Last(Rest).frame
         left == IF leaving THEN Front(Front(Rest)) ELSE Rest
     IN /\ workset' = left
        /\ IF left # << >> THEN Resume(Last(left).val, Recorded)
           ELSE stack_sizes' = Recorded /\ current_stack_size' = Size
  /\ code' = [code EXCEPT ![current_frame_addr].b = Pack(Measured, get_locals_size)]
  /\ UNCHANGED frame_vars

\* process_ret and process_fail: the function that is on top is dropped, the
\* measured depth is stored, and the next address is prepared.
Return ==
  /\ Visit({"END", "RET", "FAIL"})
  /\ LET leaving == Rest # << >> /\ Last(Rest).frame
         left == IF leaving THEN Front(Front(Rest)) ELSE Rest
     IN /\ workset' = left
        /\ frames_depth' = IF leaving THEN frames_depth - 1 ELSE frames_depth
        /\ IF left # << >> THEN Resume(Last(left).val, Recorded)
           ELSE stack_sizes' = Recorded /\ current_stack_size' = Size
  /\ code' = [code EXCEPT ![current_frame_addr].b = Pack(Measured, get_locals_size)]
  /\ UNCHANGED current_frame_addr

\* A validation fails and ends the process.
Reject ==
  /\ Visiting
  /\ \/ ~DepthValid
     \/ DepthValid /\ Again /\ Rest # << >> /\ ~Last(Rest).frame
          /\ ~HasValue(stack_sizes[Last(Rest).val])
     \/ DepthValid /\ ~Again /\ ~VisitValid
  /\ verdict' = "rejected"
  /\ UNCHANGED <<code, stack_sizes, workset, frame_vars, current_frame_stack_size,
                 current_stack_size>>

Accept ==
  /\ verdict = "running" /\ workset = << >>
  /\ verdict' = "accepted"
  /\ UNCHANGED <<code, stack_sizes, workset, frame_vars, current_frame_stack_size,
                 current_stack_size>>

VNext == LeaveFrame \/ Revisit \/ Advance \/ Jump \/ CondJump \/ Call \/ EnterFrame
           \/ Return \/ Reject \/ Accept
=============================================================================
