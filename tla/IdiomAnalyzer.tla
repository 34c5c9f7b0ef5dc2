--------------------------- MODULE IdiomAnalyzer ----------------------------
(***************************************************************************)
(* Assignment03/src: analyze_idioms (idiom_analyzer.cpp) of the file that  *)
(* read_file has read.  A worklist algorithm finds the addresses that      *)
(* control reaches from the public symbols, a scan of the code collects    *)
(* the instructions there, alone and in pairs that always run one after    *)
(* the other, and sorting counts how often each occurs.                    *)
(*                                                                         *)
(* stage, after those of FileReader                                        *)
(*     entries    find_reachable_instructions: public symbol number entry  *)
(*     follow     find_reachable_instructions: the loop over workset       *)
(*     scan       find_idioms: at addr                                     *)
(*     count      sort_idioms                                              *)
(*     done       the idioms have been printed                             *)
(*     exit       the disassembler has ended the process                   *)
(***************************************************************************)
EXTENDS FileReader, SequencesExt

CONSTANT MaxIdioms     (* how many idioms fit into the memory              *)
ASSUME MaxIdiomsAssumption == MaxIdioms \in Nat

VARIABLES
  reachable,      (* the addresses that reachable_ holds true for; the one *)
                  (* behind the code is always among them                  *)
  jumpTargets,    (* the addresses that jump_targets_ holds true for       *)
  workset,
  entry,          (* i of the loop over the public symbols                 *)
  addr,           (* addr of find_idioms                                   *)
  idioms,         (* idioms_: pairs of an address and a number of          *)
                  (* instructions                                          *)
  result          (* what sort_idioms returns                              *)

analyzerVars == <<reachable, jumpTargets, workset, entry, addr, idioms, result>>
vars == <<readerVars, analyzerVars>>

Addresses == 0..(codeSize - 1)

IsJump(a)     == Byte(code, a) \in {JMP, CJMPZ, CJMPNZ}
IsCall(a)     == Byte(code, a) \in {CALLC, CALL}
(* Mutant of IsTerminal: the unconditional jump is left out.               *)
EndsFunction(a) == Byte(code, a) \in {END, RET, FAIL, STOP}
IsTerminal(a) == Byte(code, a) \in {JMP, END, RET, FAIL, STOP}

\* addr + length.  Where the length is -1 the unsigned sum is the address before;
\* before address 0 that is no address, as large as the number then is.
After(a)  == a + Length(code, a)
Target(a) == Word(code, a + 1)

Init ==
  /\ ReaderInit
  /\ reachable = {} /\ jumpTargets = {} /\ workset = << >>
  /\ entry = 1 /\ addr = 0
  /\ idioms = << >> /\ result = << >>

\* How the analysis ends before its time: an exception, failure(), or a decision
\* about bytes that are not the code's.
End(how) ==
  /\ stage' = how
  /\ UNCHANGED <<file, pos, header, symbols, codeSize, code, clean, analyzerVars>>

\* The constructor of idiom_processor.
Construct ==
  /\ stage = "read"
  /\ stage' = "entries"
  /\ reachable' = {codeSize}
  /\ UNCHANGED <<file, pos, header, symbols, codeSize, code, clean,
                 jumpTargets, workset, entry, addr, idioms, result>>

\* A public symbol is an entry, unless it is one already.
MarkEntry ==
  /\ stage = "entries" /\ entry <= Len(symbols)
  /\ LET a == symbols[entry] IN
     \/ /\ a \notin Addresses
        /\ End("error")
     \/ /\ a \in Addresses
        /\ entry' = entry + 1
        /\ reachable' = reachable \union {a}
        /\ jumpTargets' = IF a \in reachable THEN jumpTargets ELSE jumpTargets \union {a}
        /\ workset' = IF a \in reachable THEN workset ELSE Append(workset, a)
        /\ UNCHANGED <<readerVars, addr, idioms, result>>

EntriesMarked ==
  /\ stage = "entries" /\ entry > Len(symbols)
  /\ stage' = "follow"
  /\ UNCHANGED <<file, pos, header, symbols, codeSize, code, clean, analyzerVars>>

\* What the checks of an instruction lead to: get_op, disassemble_instruction, the
\* end of the instruction, and for a jump or a call get_int32 and the target.
Disassembled(a) ==
  IF RunsOff(code, a) THEN "undefined"
  ELSE IF IllFormed(code, a) THEN "exit"
  ELSE IF After(a) \notin Addresses THEN "error" ELSE "valid"
Branches(a) == IsJump(a) \/ IsCall(a)
(* Mutant of Validated: an instruction may end where the code ends.        *)
ValidatedToTheEnd(a) ==
  IF a + 1 >= codeSize THEN "error"
  ELSE IF RunsOff(code, a) THEN "undefined"
  ELSE IF IllFormed(code, a) THEN "exit"
  ELSE IF \/ After(a) \notin Addresses \union {codeSize}
          \/ Branches(a) /\ (a + 1 + W >= codeSize \/ Target(a) \notin Addresses)
       THEN "error" ELSE "valid"
Validated(a) ==
  IF a + 1 >= codeSize THEN "error"
  ELSE IF Disassembled(a) # "valid" THEN Disassembled(a)
  ELSE IF /\ Branches(a)
          /\ \/ a + 1 + W >= codeSize
             \/ Target(a) \notin Addresses
       THEN "error" ELSE "valid"

\* Where an instruction leads: to its target, and on to the next one.
Taken(a)     == IF Branches(a) THEN {Target(a)} ELSE {}
Following(a) == IF IsTerminal(a) THEN {} ELSE {After(a)}

(* Mutant of Marked: a target that was reached before is not marked.       *)
MarkedOnce(a) == (Taken(a) \ reachable) \union (IF IsCall(a) THEN Following(a) ELSE {})
Marked(a)     == Taken(a) \union (IF IsCall(a) THEN Following(a) ELSE {})

\* pop_back(), and push_back() of what is reached for the first time.
New(S) == SetToSeq(S \ reachable)
(* Mutant of Pushed: back() without pop_back().                            *)
PushedOnly(a) == workset \o New(Taken(a)) \o New(Following(a) \ Taken(a))
Pushed(a)     == Front(workset) \o New(Taken(a)) \o New(Following(a) \ Taken(a))

\* One iteration of the loop over workset.
Follow ==
  /\ stage = "follow" /\ workset # << >>
  /\ LET a == Last(workset) IN
     \/ /\ Validated(a) # "valid"
        /\ End(Validated(a))
     \/ /\ Validated(a) = "valid"
        /\ reachable' = reachable \union Taken(a) \union Following(a)
        /\ jumpTargets' = jumpTargets \union Marked(a)
        /\ workset' = Pushed(a)
        /\ UNCHANGED <<readerVars, entry, addr, idioms, result>>

AllFollowed ==
  /\ stage = "follow" /\ workset = << >>
  /\ stage' = "scan"
  /\ UNCHANGED <<file, pos, header, symbols, codeSize, code, clean, analyzerVars>>

\* An instruction and the next one are a pair when nothing but the first leads to
\* the second.
MakesPair(a) ==
  /\ ~IsCall(a) /\ ~IsTerminal(a)
  /\ After(a) \in reachable /\ After(a) \notin jumpTargets

\* find_idioms, from addr to the next reachable address and over it.
Scan ==
  /\ stage = "scan"
  /\ LET a == CHOOSE b \in reachable : b >= addr /\ \A c \in reachable : c >= addr => b <= c
         single == << <<a, 1>> >>
         found == IF MakesPair(a) THEN single \o << <<a, 2>> >> ELSE single
     IN
     \/ /\ a = codeSize
        /\ End("count")
     \/ /\ a < codeSize
        /\ a + 1 >= codeSize
        /\ End("error")
     \/ /\ a + 1 < codeSize
        /\ Disassembled(a) # "valid"
        /\ End(Disassembled(a))
     \/ /\ a + 1 < codeSize
        /\ Disassembled(a) = "valid" /\ MakesPair(a) /\ Disassembled(After(a)) # "valid"
        /\ End(Disassembled(After(a)))
     \/ /\ a + 1 < codeSize
        /\ Disassembled(a) = "valid"
        /\ MakesPair(a) => Disassembled(After(a)) = "valid"
        /\ IF Len(idioms \o found) > MaxIdioms
           THEN End("error")      \* std::bad_alloc
           ELSE /\ idioms' = idioms \o found
                /\ addr' = After(a)
                /\ UNCHANGED <<readerVars, reachable, jumpTargets, workset, entry, result>>

\* The bytes of an idiom, and how idiom_comparator orders two of them.
Text(i) ==
  LET first == i[1]
      end   == IF i[2] = 1 THEN After(first) ELSE After(After(first))
  IN  SubSeq(code, first + 1, end)
LexLess(s, t) ==
  \/ IsStrictPrefix(s, t)
  \/ \E n \in 1..Len(s) : /\ n <= Len(t)
                          /\ s[n] < t[n]
                          /\ SubSeq(s, 1, n - 1) = SubSeq(t, 1, n - 1)
(* Mutant of ComesBefore: only the number of instructions is compared.     *)
ShorterFirst(i, j) == i[2] < j[2]
ComesBefore(i, j) == i[2] < j[2] \/ (i[2] = j[2] /\ LexLess(Text(i), Text(j)))
EqualIdioms(i, j) == i[2] = j[2] /\ Text(i) = Text(j)

\* sort_idioms: equal idioms are neighbours once they are sorted; each run of them
\* gives its length and its last idiom; then the most frequent come first.
SortIdioms ==
  /\ stage = "count"
  /\ stage' = "done"
  /\ LET sorted    == SortSeq(idioms, ComesBefore)
         IsLast(k)  == k = Len(sorted) \/ ~EqualIdioms(sorted[k], sorted[k + 1])
         lasts     == SelectSeq([k \in DOMAIN sorted |-> k], IsLast)
         Run(n)    == lasts[n] - (IF n = 1 THEN 0 ELSE lasts[n - 1])
         counts    == [n \in DOMAIN lasts |-> <<Run(n), sorted[lasts[n]]>>]
     IN  result' = SortSeq(counts, LAMBDA c, d : c[1] > d[1]
                                    \/ (c[1] = d[1] /\ ComesBefore(c[2], d[2])))
  /\ UNCHANGED <<file, pos, header, symbols, codeSize, code, clean,
                 reachable, jumpTargets, workset, entry, addr, idioms>>

Analyze == Construct \/ MarkEntry \/ EntriesMarked \/ Follow \/ AllFollowed
             \/ Scan \/ SortIdioms

Terminated == stage \in {"done", "error", "exit", "undefined"} /\ UNCHANGED vars

Next == \/ ReaderNext /\ UNCHANGED analyzerVars
        \/ Analyze
        \/ Terminated

\* main runs on.
Spec == Init /\ [][Next]_vars /\ WF_vars(Next)
-----------------------------------------------------------------------------
(* Properties.                                                             *)

Over == {"done", "error", "exit", "undefined"}

TypeOK ==
  /\ stage \in {"header", "allocate", "symbols", "strings", "code", "read",
                "entries", "follow", "scan", "count"} \union Over
  /\ reachable \subseteq Addresses \union {codeSize}
  /\ jumpTargets \subseteq Addresses
  /\ workset \in Seq(Addresses)
  /\ entry \in Nat \ {0}
  /\ addr \in Nat
  /\ idioms \in Seq(Addresses \X {1, 2})

\* The code is the end of the file, as long as what the header leaves of it: a file
\* that promises more than it holds is refused before its code is read, so that
\* the size of the code is never negative where it is used.  (read_file computes
\* code_size before it knows that there are so many symbols and strings.)
CodeIsWhatIsLeft ==
  /\ stage = "code" => codeSize = Remaining /\ codeSize >= 0
  /\ stage \in {"read", "entries", "follow", "scan", "count", "done"} =>
       /\ Len(code) = codeSize
       /\ Len(symbols) = PublicSymbolsSize
       /\ file = SubSeq(file, 1, (3 + 2 * Len(symbols)) * W + StringTabSize) \o code

\* Where control goes from an instruction of the same function, and for a CALL from
\* one function to another.
JumpsTo(a) == IF Byte(code, a) \in {JMP, CJMPZ, CJMPNZ, CALL} THEN {Target(a)} ELSE {}
RunsOnTo(a) == IF Byte(code, a) \in {JMP, END, RET, FAIL, STOP} THEN {} ELSE {After(a)}
Flow(a) == JumpsTo(a) \union RunsOnTo(a)

\* A CALLC calls one of the closures that some CLOSURE has made; its own operand is
\* the number of arguments.
Bodies(a)  == IF Byte(code, a) = CLOSURE THEN {Target(a)} ELSE {}
Numbers(a) == IF Byte(code, a) = CALLC THEN {Target(a)} ELSE {}
CallsClosures(S) == \E a \in S : Byte(code, a) = CALLC

\* Control that starts in a public symbol stays in S, which has the bodies of its
\* closures if they can be called.
Entries == ToSet(symbols)
IsClosed(S) ==
  /\ Entries \subseteq S
  /\ \A a \in S : Flow(a) \subseteq S
  /\ CallsClosures(S) => \A a \in S : Bodies(a) \subseteq S

\* The same as the analyzer has it: no body of a closure is entered from where it is
\* made or called, and the number in a CALLC is an address.
IsFollowed(S) ==
  /\ Entries \subseteq S
  /\ \A a \in S : Flow(a) \union Numbers(a) \subseteq S

Reached == reachable \ {codeSize}
NoCallc == ~CallsClosures(Reached)

\* When workset is empty and no CALLC has been reached, so that no closure is ever
\* entered, the instructions that have been reached are those that control can get
\* to from a public symbol, all of them and no other one.  With a CALLC they are
\* not: they are those that control would get to if it did not enter closures and
\* went from every CALLC to the number of its arguments as well.
ReachableIsLeast ==
  stage \in {"scan", "count", "done"} =>
    /\ NoCallc => /\ IsClosed(Reached)
                  /\ \A S \in SUBSET Reached : IsClosed(S) => S = Reached
    /\ IsFollowed(Reached)
    /\ \A S \in SUBSET Reached : IsFollowed(S) => S = Reached

\* An instruction runs over into the next one whenever it is run, and the next one
\* is run only then (as long as no closure is entered).
StraightLine(a) ==
  /\ RunsOnTo(a) # {} /\ Byte(code, a) # CALL
  /\ After(a) \notin Entries
  /\ \A b \in Reached : /\ After(a) \notin JumpsTo(b)
                        /\ After(a) \in RunsOnTo(b) => b = a

\* Every reached instruction is an idiom of its own, once, and it is a pair with the
\* next one exactly if the two are straight-line code.  Instructions do not overlap
\* in code that a compiler makes; where they do the scan goes over some of them.
\* Without a CALLC no body of a closure is run, and the pairs are those of control.
IdiomsAreStraightLine ==
  /\ stage \in {"count", "done"}
  /\ NoCallc
  /\ \A a, b \in Reached : a < b => b >= After(a)
  =>
  /\ ToSet(idioms) = {<<a, 1>> : a \in Reached}
                        \union {<<a, 2>> : a \in {b \in Reached : StraightLine(b)}}
  /\ \A i, j \in DOMAIN idioms : idioms[i] = idioms[j] => i = j

\* What has been counted by the lengths of runs in a sorted sequence are the
\* frequencies: there is one line for each of the texts, with the number of the
\* places where it occurs, and the lines go from frequent to rare.
CountsAreFrequencies ==
  stage = "done" =>
    /\ \A i \in DOMAIN idioms : \E c \in DOMAIN result : EqualIdioms(result[c][2], idioms[i])
    /\ \A c \in DOMAIN result :
         result[c][1] = Cardinality({i \in DOMAIN idioms : EqualIdioms(idioms[i], result[c][2])})
    /\ \A c, d \in DOMAIN result : c < d => /\ result[c][1] >= result[d][1]
                                            /\ ~EqualIdioms(result[c][2], result[d][2])

\* What has been found to be in order while the instructions were followed needs no
\* second look: find_idioms, which disassembles the code again and checks it again,
\* ends in no error but the lack of memory.
ScanMeetsNoError ==
  [][stage = "scan" => \/ stage' \in {"scan", "count"}
                       \/ Len(idioms) + 2 > MaxIdioms]_vars

\* A file is sound when there are instructions, with all of the entries, that are
\* complete, lead only to each other, and are neither CALLC nor the mark of the end.
Sound ==
  \E S \in SUBSET Addresses :
     /\ \A a \in S : /\ a + 1 < codeSize
                     /\ Disassembled(a) = "valid"
                     /\ Byte(code, a) \notin {CALLC} \union EndMark
     /\ IsClosed(S)
     /\ 2 * Cardinality(S) <= MaxIdioms

\* The program ends, with the idioms if the file is sound.  The scan of code that
\* runs into the mark of the end goes back by one, the length of that mark, again
\* and again: it is the memory that ends it.
FilesAreAnswered ==
  /\ <>(stage \in Over)
  /\ (stage = "read" /\ Sound) ~> (stage = "done")
=============================================================================
