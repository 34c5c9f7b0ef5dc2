------------------------ MODULE VerifiedInterpreter -------------------------
(***************************************************************************)
(* The whole process: main reads a bytecode file, has it verified          *)
(* (Assignment04) and interprets it (Assignment02 does so at once).  The   *)
(* verifier and the interpreter share the bytecode, into which the first   *)
(* writes what it has measured.                                            *)
(***************************************************************************)
EXTENDS Verifier, StackDiscipline

CONSTANTS MaxFrames, StringTable, Inputs, IntBits, MaxObjects,
          Programs,      \* the files that Assignment04 reads
          Unverified     \* the files that Assignment02 reads

ASSUME InterpreterAssumption ==
  /\ {MaxFrames, IntBits} \subseteq Nat \ {0}
  /\ MaxObjects \in Nat
  /\ Inputs \subseteq Int
  /\ Globals + 2 < MaxStack
  /\ StringTable \in Seq(Seq(Int))
  /\ Strings = Len(StringTable)

\* Files that are read to their end have one instruction after the other, and the
\* address of main is that of an instruction.
ASSUME ProgramsAssumption ==
  \A p \in Programs \union Unverified : IsCode(p) /\ Entry \in DOMAIN p

VARIABLES checking, ip, frames, stack, size, is_tmp_closure, heap, status,
          labels,        \* auxiliary: where control reaches each instruction (constant)
          returning,     \* auxiliary: from where a function can come to its end (constant)
          compiled,      \* auxiliary: whether the program is well-formed (constant)
          strayed        \* auxiliary: an instruction was verified as part of a function
                         \* that it does not belong to

interpreter == INSTANCE Interpreter

only_ivars == <<ip, frames, stack, size, is_tmp_closure, heap, status>>
only_vvars == <<stack_sizes, workset, frames_depth, current_frame_addr,
                current_frame_stack_size, current_stack_size, verdict>>
aux == <<labels, returning, compiled>>
vars == <<vvars, checking, only_ivars, aux, strayed>>

Init ==
  /\ checking \in BOOLEAN
  /\ code \in IF checking THEN Unverified ELSE Programs
  /\ VInit
  /\ interpreter!IInit
  /\ LET reached == Reached(code)
     IN labels = Labels(code, reached) /\ compiled = Disciplined(code, reached)
  /\ returning = Returning(code)
  /\ strayed = FALSE

Straying ==
  /\ Visiting /\ DepthValid /\ ~Again
  /\ Op \notin Begins /\ current_frame_addr # labels[Addr].fn

verify ==
  /\ ~checking
  /\ VNext
  /\ strayed' = (strayed \/ Straying)
  /\ UNCHANGED <<checking, only_ivars, aux>>

interpret ==
  /\ checking \/ verdict = "accepted"
  /\ interpreter!INext
  /\ UNCHANGED <<only_vvars, aux, strayed>>

Next == verify \/ interpret
Spec == Init /\ [][Next]_vars /\ WF_vars(verify)
-----------------------------------------------------------------------------
\* The verifier's work list, the interpreter's stack and frames have the shape that
\* the code gives them.  (verifier.h, interpreter.h)
TypeOK ==
  /\ checking \in BOOLEAN /\ strayed \in BOOLEAN
  /\ IsCode(code)
  /\ stack_sizes \in [DOMAIN code -> (-MaxStack - 1)..(MaxStack - 1)]
  /\ \A w \in DOMAIN workset : workset[w].frame \in BOOLEAN /\ workset[w].val \in Nat
  /\ \A w \in DOMAIN workset : ~workset[w].frame => workset[w].val \in DOMAIN code
  /\ frames_depth \in Nat
  /\ current_frame_addr \in DOMAIN code
  /\ current_stack_size \in -1..MaxStack /\ current_frame_stack_size \in 0..MaxStack
  /\ verdict \in {"running", "accepted", "rejected"}
  /\ status \in {"running", "done", "failed", "undefined"}
  /\ size \in Nat /\ Len(frames) <= MaxFrames
  /\ \A c \in DOMAIN stack : interpreter!is_object(stack[c]) => stack[c].at \in DOMAIN heap

\* frames_depth_ of the verifier counts the functions that the work list will return
\* to, each of which is two entries of it, in whatever order END, RET, FAIL and the
\* loop itself take them off: the check for BEGIN and the decrements rely on it.
DepthCountsFrames ==
  Cardinality({w \in DOMAIN workset : workset[w].frame}) = 2 * frames_depth

\* The verifier ends for every well-formed program: although it may come back to what
\* it has verified already, through calls and through addresses that it has to
\* prepare again, it does not run in circles.
VerifierEnds == (compiled /\ ~checking) ~> (verdict # "running")

\* Control is in the body of a closure, or in what it has called.  A CBEGIN makes the
\* frame of a closure in whatever way control gets to it (execute_cbegin).
InClosure ==
  \/ is_tmp_closure /\ code[ip].op \in Begins
  \/ \E f \in DOMAIN frames : frames[f].closure

\* Whatever way the interpreter takes through an accepted program, it executes only
\* what the verifier has looked at, but for the bodies of closures, which
\* process_closure does not put on the work list, and what these call: where such a
\* body returns to has been looked at.
OnlyVerifiedCodeRuns ==
  (verdict = "accepted" /\ status = "running" /\ ip \in DOMAIN code /\ ~InClosure)
  => HasValue(stack_sizes[ip])

\* In a well-formed program the depth of the stack of a function is the same whenever
\* an instruction is executed: every execute_* leaves the stack as get_stack_delta and
\* its users assume, calls and returns (with the arguments, the locals and the closure
\* of the callee) included.
DepthIsStatic ==
  (compiled /\ status = "running" /\ frames # << >> /\ code[ip].op \notin Begins)
  => size - Last(frames).base - Last(frames).locals = labels[ip].depth

\* What the verifier does not establish itself, or not always: that depths agree where
\* ways meet (its comparison is of a depth with itself), that locals are in range
\* (after the first END the operand it compares with holds the depth too), what is in
\* the bodies of closures, and which function an instruction belongs to once it has
\* verified a call within a branch.
Trusted ==
  /\ verdict = "accepted" /\ compiled /\ ~strayed
  /\ \A a \in DOMAIN code : code[a].op # "CLOSURE"

\* The depth that the verifier has measured for a function is enough for whatever the
\* function pushes over its locals: execute_begin asks for that much room, and nothing
\* asks again.  The depth is stored at an END, RET or FAIL, so that a way that goes in
\* circles for ever is not measured.
MeasuredIsEnough ==
  (Trusted /\ status = "running" /\ frames # << >> /\ code[ip].op \notin Begins
     /\ \A a \in DOMAIN code : labels[a].fn = labels[ip].fn => a \in returning)
  => size - Last(frames).base - Last(frames).locals <= UpperHalf(code[labels[ip].fn].b)

\* The interpreter of Assignment04 may leave out what that of Assignment02 validates:
\* as long as there is room on the stack, each of its steps is one that the checking
\* interpreter takes with the code as it was before the verification.
original == [a \in DOMAIN code |->
               IF code[a].op \in Begins THEN [code[a] EXCEPT !.b = LowerHalf(code[a].b)]
               ELSE code[a]]
reference == INSTANCE Interpreter WITH checking <- TRUE, code <- original
ChecksAreRedundant == [][Trusted => reference!INext]_only_ivars

\* Every well-formed program is accepted: a message like "argument index out of
\* bounds" of the verifier is about an index that is out of bounds.
AcceptsCompiled == compiled => verdict # "rejected"
=============================================================================
