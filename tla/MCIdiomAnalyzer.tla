-------------------------- MODULE MCIdiomAnalyzer ---------------------------
(* Files for IdiomAnalyzer: words are bytes, and the code is a short         *)
(* program that ends with the mark of the end, as a compiler writes it.      *)
EXTENDS IdiomAnalyzer

DROP == 24
DUP == 25

Bounded(S, n) == UNION {[1..k -> S] : k \in 0..n}
Encoded(instrs) == FlattenSeq(instrs) \o <<255>>

Plain == {<<DROP>>, <<END>>}
Direct(places) == {<<op, t>> : op \in {JMP, CJMPZ}, t \in places}
                    \union {<<CALL, t, 1>> : t \in places}
Indirect == {<<CALLC, n>> : n \in 0..2} \union {<<CLOSURE, 1, 1, 1, 1>>}

(* A file with the given strings, entries and code, which may be untrue.     *)
Entry(a) == <<0, a>>
FileOf(strings, entries, bytes) ==
  <<Len(strings), 0, Len(entries)>> \o FlattenSeq([i \in DOMAIN entries |-> Entry(entries[i])])
    \o strings \o bytes

Short == {Encoded(p) : p \in Bounded(Plain \union Direct(0..5) \union Indirect, 2)}
Longer == {Encoded(p) : p \in [1..3 -> Plain \union Direct({0, 2, 5})]}
Repeating ==
  {Encoded(p \o <<<<END>>>>) : p \in [1..5 -> {<<DROP>>, <<DUP>>, <<CJMPZ, 2>>}]}

(* A closure is made and called, and its body is behind the END of the code   *)
(* that calls it.                                                            *)
Calling == {<<CLOSURE, 8, 1, 2, 1, CALLC, n, END, DROP, END, 255>> : n \in 0..2}
Making  == <<CLOSURE, 6, 0, DROP, DROP, END, DROP, END, 255>>

Good == FileOf(<<65>>, <<0, 1>>, <<DROP, CJMPZ, 3, DROP, END, 255>>)
Odd ==
  {SubSeq(Good, 1, n) : n \in 0..(Len(Good) - 1)}
    \union {[Good EXCEPT ![h] = v] : h \in {1, 3}, v \in {0, 1, 5, 200}}
    \union {FileOf(<< >>, <<0>>, bytes) :
              bytes \in {<<CLOSURE, 0, 2, 1, 0, 4, 0, END, 255>>, <<CLOSURE, 0, 2, 1, 0>>,
                         <<CLOSURE, 0>>, <<DROP, 28, 255>>, <<DROP, 245, END, 255>>,
                         <<DROP, STOP, END, 255>>, <<JMP>>, <<CALL, 1>>, <<16, 7>>,
                         <<DROP, 15, END, 255>>, <<103, END, 255>>}}

MCFiles ==
  {FileOf(<< >>, <<0>>, bytes) : bytes \in Short \union Longer \union Repeating}
    \union {FileOf(<<65>>, es, bytes) : es \in {<<0, 2>>, <<1, 1>>}, bytes \in Short}
    \union {FileOf(<<65>>, es, bytes) : es \in {<<0>>, <<0, 8>>, <<0, 6>>},
                                        bytes \in Calling \union {Making}}
    \union Odd
=============================================================================
