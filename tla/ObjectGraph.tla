---------------------------- MODULE ObjectGraph ----------------------------
(***************************************************************************)
(* What the memory manager promises the interpreter: a stack of words and  *)
(* a graph of objects that are never moved, and never reclaimed while they *)
(* can be reached.  There is no address and no collection here.  An object *)
(* is known by a name, which no other has meanwhile; a word is Plain or    *)
(* the name of an object.                                                  *)
(***************************************************************************)
EXTENDS Integers, Sequences

CONSTANTS Ids, Kinds, Plain, None

VARIABLES stack,       (* the words of the stack, bottom first            *)
          node,        (* the objects that have not been reclaimed        *)
          pending      (* the allocation in progress, or None             *)

vars == <<stack, node, pending>>

Top(k) == stack[Len(stack) - k]

Without(k) == SubSeq(stack, 1, Len(stack) - k)

Refers(s, x) == \E i \in DOMAIN s : s[i] = x

Becomes(g, s) == stack' = s /\ node' = g

Init == /\ stack \in Seq({Plain})
        /\ node = [x \in {} |-> Plain]
        /\ pending = None

(* The instructions that move words.                                       *)
Push     == Becomes(node, Append(stack, Plain))
Copy(i)  == Becomes(node, Append(stack, stack[i]))
Drop     == stack # <<>> /\ Becomes(node, Without(1))
Store(i) == Becomes(node, [stack EXCEPT ![i] = Top(0)])
Swap     == Len(stack) > 1 /\ Becomes(node, Without(2) \o <<Top(0), Top(1)>>)
Leave(i) == Becomes(node, Append(SubSeq(stack, 1, i - 1), Top(0)))

(* The instructions that read and write a field.                           *)
Elem == /\ Len(stack) > 1
        /\ Top(1) # Plain
        /\ \E i \in DOMAIN node[Top(1)].fields :
             Becomes(node, Append(Without(2), node[Top(1)].fields[i]))

Sta == /\ Len(stack) > 2
       /\ Top(2) # Plain
       /\ \E i \in DOMAIN node[Top(2)].fields :
            Becomes([node EXCEPT ![Top(2)].fields[i] = Top(0)], Append(Without(3), Top(0)))

(* An allocation: it is requested, and at some later moment there is a new *)
(* object, which takes the topmost n words for its fields.                 *)
Request == /\ pending' \in [kind : Kinds, n : 0..Len(stack)]
           /\ UNCHANGED <<stack, node>>

(* A closure keeps an entry point and copies of words, which are pushed    *)
(* for it first.                                                           *)
Capture == LET m == Len(stack)
           IN  /\ Len(stack') > m
               /\ SubSeq(stack', 1, m + 1) = Append(stack, Plain)
               /\ \A i \in m + 2..Len(stack') : Refers(stack, stack'[i])
               /\ node' = node
               /\ pending' = [kind |-> "closure", n |-> Len(stack') - m]

(* The operand leaves the stack before the string for it is there.         *)
Render == Drop /\ pending' = [kind |-> "string", n |-> 0]

New == /\ pending' = None
       /\ \E x \in Ids \ DOMAIN node :
            LET fields == SubSeq(stack, Len(stack) - pending.n + 1, Len(stack))
                g == [y \in DOMAIN node \union {x} |->
                        IF y = x THEN [kind |-> pending.kind, fields |-> fields]
                                 ELSE node[y]]
            IN  Becomes(g, Append(Without(pending.n), x))

(* While an allocation is in progress objects may go, but none that a word *)
(* of the stack or a field of an object that stays refers to.              *)
Reclaim ==
  LET old  == node
      keep == DOMAIN node'
  IN  /\ UNCHANGED <<stack, pending>>
      /\ keep \subseteq DOMAIN old
      /\ node' = [x \in keep |-> old[x]]
      /\ \A x \in DOMAIN old \ keep :
           ~Refers(stack, x) /\ \A y \in keep : ~Refers(old[y].fields, x)

Next ==
  \/ /\ pending = None
     /\ \/ /\ \/ Push \/ Drop \/ Swap \/ Elem \/ Sta
              \/ \E i \in DOMAIN stack : Copy(i) \/ Store(i) \/ Leave(i)
           /\ UNCHANGED pending
        \/ Request \/ Capture \/ Render
  \/ pending # None /\ (Reclaim \/ New)

Spec == Init /\ [][Next]_vars

=============================================================================
