------------------------------ MODULE SafeRead ------------------------------
(***************************************************************************)
(* Assignment09/src/safe_read_uint8.cpp: a read that answers with nothing  *)
(* where the address cannot be read, in a program with threads that has    *)
(* signal handlers of its own.  The dispositions of the signals belong to  *)
(* the process, and so do the variables of safe_read_uint8, which are      *)
(* static; the mask of blocked signals belongs to a thread.                *)
(*                                                                         *)
(* pc of a thread, in safe_read_uint8                                      *)
(*     idle       outside, runs the program                                *)
(*     install    about to call sigaction for sig                          *)
(*     save       in sigaction: sig is installed, the old one not stored   *)
(*     arm        about to set saved_ptr                                   *)
(*     setjmp     about to fill env                                        *)
(*     read       about to read *ptr                                       *)
(*     restore    about to give sig back its old disposition               *)
(* and in the program                                                      *)
(*     probe      about to read *ptr under the program's own handler       *)
(*     handler    in sig_handler, for the fault of sig at ptr; whether the *)
(*                read or the probe has faulted is in from                 *)
(***************************************************************************)
EXTENDS Integers, FiniteSets

CONSTANTS
  Callers,        (* the threads of the program                            *)
  Readable,       (* addresses that hold a byte                            *)
  Unmapped,       (* addresses where a read raises SIGSEGV                 *)
  Truncated,      (* addresses where a read raises SIGBUS                  *)
  NonCanonical,   (* addresses that are not canonical                      *)
  None,           (* std::nullopt                                          *)
  GoesOn          (* whether the program makes further calls after reads   *)
                  (* have overlapped: a bound for TLC                      *)

Canonical == Readable \union Unmapped \union Truncated
Addresses == Canonical \union NonCanonical

ASSUME SafeReadAssumption ==
  /\ NonCanonical \intersect Canonical = {}
  /\ Readable \intersect (Unmapped \union Truncated) = {}
  /\ Unmapped \intersect Truncated = {}
  /\ None \notin Addresses \union Callers
  /\ GoesOn \in BOOLEAN

Signals == {"SIGBUS", "SIGSEGV"}
\* What a signal does: SIG_DFL, SIG_IGN, a handler of the program, sig_handler.
Programs     == {"default", "ignore", "custom"}
Dispositions == Programs \union {"sig_handler"}

VARIABLES
  action,         (* the dispositions, as the kernel has them              *)
  prev,           (* prev_sigbus_handler, prev_sigsegv_handler             *)
  savedPtr,       (* saved_ptr                                             *)
  env,            (* the thread that has filled env last                   *)
  status,         (* running; killed by a signal; undefined: a jump to an  *)
                  (* environment that is not the thread's                  *)
  th,             (* for each thread: pc, sig, ptr, from, old (what the    *)
                  (* kernel has returned for the old disposition), blocked *)
                  (* (its mask of signals) and answer (of its last read)   *)
  wanted,         (* the dispositions the program has asked for            *)
  overlapped,     (* a read or a change of a disposition has begun within  *)
                  (* another thread's read                                 *)
  raced           (* the program has faulted at the address of a read, or  *)
                  (* before a read has stored the old disposition          *)

statics  == <<prev, savedPtr, env>>
ghosts   == <<wanted, overlapped, raced>>
readVars == <<action, statics, status, th, ghosts>>

Reading(t) == \/ th[t].pc \in {"install", "save", "arm", "setjmp", "read", "restore"}
              \/ th[t].pc = "handler" /\ th[t].from = "read"
Probing(t) == \/ th[t].pc = "probe"
              \/ th[t].pc = "handler" /\ th[t].from = "probe"
Idle == \A t \in Callers : ~Reading(t)
MayCall(t) == th[t].pc = "idle" /\ (overlapped \/ raced => GoesOn)

SignalOf(a) == IF a \in Truncated THEN "SIGBUS" ELSE "SIGSEGV"
ByteAt(a)   == a      \* the bytes are told apart by their addresses

\* A thread that is in none of the functions has none of their variables; its mask
\* of signals stays.
Outside(blocked, answer) ==
  [pc |-> "idle", sig |-> "SIGBUS", ptr |-> None, from |-> "read",
   old |-> "default", blocked |-> blocked, answer |-> answer]

\* Static variables are zero at first, and the handler that is zero is SIG_DFL.
ReadsInit ==
  /\ action = [s \in Signals |-> "default"]
  /\ prev = [s \in Signals |-> "default"]
  /\ savedPtr = None /\ env = None
  /\ status = "running"
  /\ th = [t \in Callers |-> Outside({}, None)]
  /\ wanted = action
  /\ overlapped = FALSE /\ raced = FALSE

-----------------------------------------------------------------------------
(* safe_read_uint8                                                         *)

\* is_canonical, then the first sigaction.
CallRead(t) ==
  /\ MayCall(t)
  /\ \/ /\ NonCanonical # {}
        /\ th' = [th EXCEPT ![t].answer = None]
        /\ UNCHANGED overlapped
     \/ \E a \in Canonical :
          /\ th' = [th EXCEPT ![t].pc = "install", ![t].ptr = a, ![t].answer = None]
          /\ overlapped' = (overlapped \/ ~Idle)
  /\ UNCHANGED <<action, statics, status, wanted, raced>>

\* sigaction: the kernel takes the new disposition, and after that the old one is
\* stored for the caller.
Install(t) ==
  /\ th[t].pc = "install"
  /\ action' = [action EXCEPT ![th[t].sig] = "sig_handler"]
  /\ th' = [th EXCEPT ![t].pc = "save", ![t].old = action[th[t].sig]]
  /\ UNCHANGED <<statics, status, ghosts>>

Save(t) ==
  /\ th[t].pc = "save"
  /\ prev' = [prev EXCEPT ![th[t].sig] = th[t].old]
  /\ IF th[t].sig = "SIGBUS"
     THEN th' = [th EXCEPT ![t].pc = "install", ![t].sig = "SIGSEGV"]
     ELSE th' = [th EXCEPT ![t].pc = "arm"]
  /\ UNCHANGED <<action, savedPtr, env, status, ghosts>>

Arm(t) ==
  /\ th[t].pc = "arm"
  /\ savedPtr' = th[t].ptr
  /\ th' = [th EXCEPT ![t].pc = "setjmp"]
  /\ UNCHANGED <<action, prev, env, status, ghosts>>

\* sigsetjmp(env, 1).  No signal is blocked here, and siglongjmp brings that back.
Setjmp(t) ==
  /\ th[t].pc = "setjmp"
  /\ env' = t
  /\ th' = [th EXCEPT ![t].pc = "read"]
  /\ UNCHANGED <<action, prev, savedPtr, status, ghosts>>

\* The kernel finds the thread at an address that it cannot read.  A signal that is
\* blocked or ignored cannot be held back from the instruction that has raised it.
AccessFaults(t) ==
  LET s == SignalOf(th[t].ptr) IN
  /\ UNCHANGED <<action, statics, ghosts>>
  /\ \/ /\ s \in th[t].blocked \/ action[s] \in {"default", "ignore"}
        /\ status' = "killed" /\ UNCHANGED th
     \/ /\ s \notin th[t].blocked /\ action[s] = "sig_handler"
        /\ th' = [th EXCEPT ![t].pc = "handler", ![t].from = th[t].pc, ![t].sig = s,
                            ![t].blocked = @ \union {s}]
        /\ UNCHANGED status
     \/ /\ s \notin th[t].blocked /\ action[s] = "custom"
        /\ IF th[t].pc = "probe"
           THEN th' = [th EXCEPT ![t] = Outside({}, @.answer)] /\ UNCHANGED status
           ELSE status' = "undefined" /\ UNCHANGED th

ReadByte(t) ==
  /\ th[t].pc = "read" /\ th[t].ptr \in Readable
  /\ th' = [th EXCEPT ![t].pc = "restore", ![t].sig = "SIGBUS",
                      ![t].answer = ByteAt(th[t].ptr)]
  /\ UNCHANGED <<action, statics, status, ghosts>>

ReadFaults(t) ==
  /\ th[t].pc = "read" /\ th[t].ptr \notin Readable
  /\ AccessFaults(t)

(* Mutant of Restored: the same handler for both.                          *)
RestoredTwice(t) == prev["SIGBUS"]
Restored(t)      == prev[th[t].sig]

Restore(t) ==
  /\ th[t].pc = "restore"
  /\ action' = [action EXCEPT ![th[t].sig] = Restored(t)]
  /\ IF th[t].sig = "SIGBUS"
     THEN th' = [th EXCEPT ![t].sig = "SIGSEGV"]
     ELSE th' = [th EXCEPT ![t] = Outside(@.blocked, @.answer)]
  /\ UNCHANGED <<statics, status, ghosts>>

-----------------------------------------------------------------------------
(* sig_handler                                                             *)

InSave(s) == \E t \in Callers : th[t].pc = "save" /\ th[t].sig = s

(* Mutant of MaskAfterJump: sigsetjmp(env, 0).                             *)
MaskAsItIs(t)    == th[t].blocked
MaskAfterJump(t) == {}

(* Mutant of AfterJump: the handler returns.                               *)
AfterReturn(t) == "read"
AfterJump(t)   == "restore"

\* siglongjmp: the mask is as sigsetjmp has found it.
JumpBack(t) ==
  /\ savedPtr = th[t].ptr
  /\ IF env = t /\ th[t].from = "read"
     THEN /\ th' = [th EXCEPT ![t].pc = AfterJump(t), ![t].sig = "SIGBUS",
                              ![t].blocked = MaskAfterJump(t), ![t].answer = None]
          /\ UNCHANGED status
     ELSE status' = "undefined" /\ UNCHANGED th
  /\ UNCHANGED action

\* Not the address of the read: the old disposition decides.  The default one is
\* installed and the signal raised again; a handler that returns leads back to the
\* instruction that has faulted; the program's handler jumps out of a probe; and
\* sig_handler, as the old disposition, calls itself until the stack is full.
PassOn(t) ==
  LET s == th[t].sig IN
  /\ savedPtr # th[t].ptr
  /\ \/ /\ prev[s] = "default"
        /\ action' = [action EXCEPT ![s] = "default"]
        /\ status' = "killed" /\ UNCHANGED th
     \/ /\ prev[s] = "ignore"
        /\ th' = [th EXCEPT ![t].pc = th[t].from, ![t].blocked = @ \ {s}]
        /\ UNCHANGED <<action, status>>
     \/ /\ prev[s] = "custom" /\ th[t].from = "probe"
        /\ th' = [th EXCEPT ![t] = Outside({}, @.answer)]
        /\ UNCHANGED <<action, status>>
     \/ /\ prev[s] = "custom" /\ th[t].from = "read"
        /\ status' = "undefined" /\ UNCHANGED <<action, th>>
     \/ /\ prev[s] = "sig_handler"
        /\ status' = "killed" /\ UNCHANGED <<action, th>>

Handle(t) ==
  /\ th[t].pc = "handler"
  /\ JumpBack(t) \/ PassOn(t)
  /\ raced' = (raced \/ /\ th[t].from = "probe"
                        /\ savedPtr = th[t].ptr \/ InSave(th[t].sig))
  /\ UNCHANGED <<statics, wanted, overlapped>>

-----------------------------------------------------------------------------
(* The program: it sets its handlers, and reads addresses itself where its   *)
(* own handler recovers (test_external_handler).                             *)

SetDisposition(t) ==
  /\ MayCall(t)
  /\ \A u \in Callers : ~Probing(u)
  /\ \E s \in Signals, d \in Programs :
       /\ action' = [action EXCEPT ![s] = d]
       /\ wanted' = [wanted EXCEPT ![s] = d]
  /\ overlapped' = (overlapped \/ ~Idle)
  /\ UNCHANGED <<statics, status, th, raced>>

StartProbe(t) ==
  /\ MayCall(t)
  /\ \E a \in Unmapped \union Truncated :
       /\ wanted[SignalOf(a)] = "custom"
       /\ th' = [th EXCEPT ![t].pc = "probe", ![t].ptr = a]
  /\ UNCHANGED <<action, statics, status, ghosts>>

Probe(t) == th[t].pc = "probe" /\ AccessFaults(t)

-----------------------------------------------------------------------------

Step(t) == \/ Install(t) \/ Save(t) \/ Arm(t) \/ Setjmp(t)
           \/ ReadByte(t) \/ ReadFaults(t) \/ Restore(t)
           \/ Handle(t) \/ Probe(t)

ReadsNext ==
  \/ /\ status = "running"
     /\ \E t \in Callers : CallRead(t) \/ Step(t) \/ SetDisposition(t) \/ StartProbe(t)
  \/ /\ status # "running" \/ \A t \in Callers : th[t].pc = "idle"
     /\ UNCHANGED readVars      \* the program has come to an end

\* The operating system runs every thread.
ReadsSpec == ReadsInit /\ [][ReadsNext]_readVars
             /\ \A t \in Callers : WF_readVars(status = "running" /\ Step(t))

-----------------------------------------------------------------------------
(* Properties.                                                             *)

ThreadStates ==
  [pc : {"idle", "install", "save", "arm", "setjmp", "read", "restore", "probe", "handler"},
   sig : Signals, ptr : Canonical \union {None}, from : {"read", "probe"},
   old : Dispositions, blocked : SUBSET Signals, answer : Readable \union {None}]

ReadsTypeOK ==
  /\ action \in [Signals -> Dispositions]
  /\ prev \in [Signals -> Dispositions]
  /\ savedPtr \in Canonical \union {None}
  /\ env \in Callers \union {None}
  /\ status \in {"running", "killed", "undefined"}
  /\ th \in [Callers -> ThreadStates]
  /\ wanted \in [Signals -> Programs]
  /\ overlapped \in BOOLEAN /\ raced \in BOOLEAN

\* As long as reads do not overlap and the program does not fault where a read is in
\* the middle of its work, nothing that is read ends the program: faults of a read
\* come back to it, also the second one in a row, which needs the signal not to be
\* blocked any longer, and the program's own faults reach the program's own handler
\* through sig_handler, while another thread reads.
OnlyRacesEnd == status # "running" => overlapped \/ raced

\* And after each read the program's signal handlers are the ones it has installed.
\* (test_prev_handler looks at them after one read by one thread.)
HandlersComeBack == Idle /\ ~overlapped => action = wanted

\* Every read and every access under the program's handler comes to its end.  (A
\* handler that returns, because the old disposition was to ignore the signal, leads
\* back to the same fault for ever.)
AccessesEnd ==
  \A t \in Callers : (Reading(t) \/ Probing(t)) ~> (th[t].pc = "idle" \/ overlapped \/ raced)

=============================================================================
