------------------------------ MODULE TaskQueue ------------------------------
(***************************************************************************)
(* What thread_pool promises, without mutex, condition variable or ring:   *)
(* submitted actions start in the order of submission, each exactly once,  *)
(* one at a time per worker.  Closing the pool drops what is still queued, *)
(* except that a worker which was idle at that moment may start one more.  *)
(***************************************************************************)
EXTENDS Sequences

CONSTANTS Workers, Tasks,
          NoItem              (* a worker runs nothing                    *)

VARIABLES queue,              (* the actions that have not started        *)
          running,            (* running[w]: the action that w executes   *)
          open,               (* stop has not been requested              *)
          mayStart            (* the workers that may still start one     *)

vars == <<queue, running, open, mayStart>>

Init == /\ queue = <<>>
        /\ running = [w \in Workers |-> NoItem]
        /\ open = TRUE
        /\ mayStart = Workers

Submit(t) == /\ queue' = Append(queue, t)
             /\ UNCHANGED <<running, open, mayStart>>

Start(w) == /\ w \in mayStart
            /\ running[w] = NoItem
            /\ queue # <<>>
            /\ running'  = [running EXCEPT ![w] = Head(queue)]
            /\ queue'    = Tail(queue)
            /\ mayStart' = IF open THEN mayStart ELSE mayStart \ {w}
            /\ UNCHANGED open

Finish(w) == /\ running[w] # NoItem
             /\ running' = [running EXCEPT ![w] = NoItem]
             /\ UNCHANGED <<queue, open, mayStart>>

Close == /\ open
         /\ open' = FALSE
         /\ mayStart' \in SUBSET mayStart
         /\ UNCHANGED <<queue, running>>

Retire(w) == /\ ~open
             /\ mayStart' = mayStart \ {w}
             /\ UNCHANGED <<queue, running, open>>

Next == \/ \E t \in Tasks : Submit(t)
        \/ \E w \in Workers : Start(w) \/ Finish(w) \/ Retire(w)
        \/ Close

Spec == Init /\ [][Next]_vars

=============================================================================
