------------------------ MODULE IdiomAnalyzerProofs -------------------------
(***************************************************************************)
(* Proofs about IdiomAnalyzer: the reader never takes a size for what it   *)
(* is not, the worklist finds exactly the reachable instructions, and the  *)
(* scan needs no second look at what has been validated.                   *)
(***************************************************************************)
EXTENDS IdiomAnalyzer, SequenceTheorems, FiniteSetTheorems, WellFoundedInduction, TLAPS

USE DEF Bytes
-----------------------------------------------------------------------------
(* Numbers                                                                 *)

\* A set of natural numbers has a least one.
LEMMA Least ==
  ASSUME NEW S \in SUBSET Nat, S # {}
  PROVE  \E m \in S : \A n \in S : m <= n
<1>1. PICK m \in S : \A n \in S : <<n, m>> \notin OpToRel(<, Nat)
  BY NatLessThanWellFounded, WFMin
<1>2. \A n \in S : ~(n < m)
  BY <1>1 DEF OpToRel
<1> QED
  BY <1>2

\* The recursive definition in Continued has a solution: one for the first digits is
\* a part of one for the next digit.
LEMMA ContinuedNat ==
  ASSUME NEW first \in Nat, NEW digit \in [1..W -> Nat]
  PROVE  Continued(first, digit) \in Nat
<1> DEFINE Solves(f, n) ==
             f = [i \in 0..n |-> IF i = 0 THEN first ELSE 256 * f[i - 1] + digit[i]]
           Open == {n \in 0..W : ~\E f \in [0..n -> Nat] : Solves(f, n)}
<1>1. Open = {}
  <2> SUFFICES ASSUME Open # {} PROVE FALSE
    OBVIOUS
  <2>1. PICK n \in Open : \A m \in Open : n <= m
    BY Least, Open \in SUBSET Nat, WordAssumption
  <2>2. n # 0
    <3>1. Solves([i \in 0..0 |-> first], 0)
      OBVIOUS
    <3> QED
      BY <3>1, <2>1
  <2>3. n \in 1..W /\ n - 1 \in 0..W
    BY <2>1, <2>2, WordAssumption
  <2>4. n - 1 \notin Open
    <3> HIDE DEF Open
    <3>1. ~(n <= n - 1)
      BY <2>3
    <3> QED
      BY <2>1, <3>1
  <2>5. PICK f \in [0..n - 1 -> Nat] : Solves(f, n - 1)
    BY <2>3, <2>4
  <2> DEFINE g == [i \in 0..n |-> IF i < n THEN f[i] ELSE 256 * f[n - 1] + digit[n]]
  <2>6. f[n - 1] \in Nat /\ digit[n] \in Nat
    BY <2>3
  <2>7. g \in [0..n -> Nat]
    BY <2>3, <2>6
  <2>8. \A i \in 0..n : g[i] = IF i = 0 THEN first ELSE 256 * g[i - 1] + digit[i]
    <3> TAKE i \in 0..n
    <3>1. CASE i = n
      BY <3>1, <2>3
    <3>2. CASE i < n
      <4>1. i \in 0..n - 1 /\ (i # 0 => i - 1 \in 0..n - 1)
        BY <3>2, <2>3
      <4>2. f[i] = IF i = 0 THEN first ELSE 256 * f[i - 1] + digit[i]
        BY <2>5, <4>1
      <4> QED
        BY <3>2, <4>1, <4>2, <2>3
    <3> QED
      BY <3>1, <3>2, <2>3
  <2>9. Solves(g, n)
    BY <2>8
  <2> QED
    BY <2>1, <2>7, <2>9
<1>2. PICK f \in [0..W -> Nat] : Solves(f, W)
  <2>1. W \in 0..W
    BY WordAssumption
  <2> QED
    BY <1>1, <2>1
<1> DEFINE upTo == CHOOSE g : Solves(g, W)
<1>3. Solves(upTo, W)
  BY <1>2, ZenonT(30)
<1>4. \A i \in 0..W : upTo[i] = IF i = 0 THEN first ELSE 256 * upTo[i - 1] + digit[i]
  BY <1>3
<1>5. upTo[W] = Continued(first, digit)
  BY DEF Continued
<1> HIDE DEF upTo
<1> DEFINE Other == {n \in 0..W : upTo[n] \notin Nat}
<1>6. Other = {}
  <2> SUFFICES ASSUME Other # {} PROVE FALSE
    OBVIOUS
  <2>1. Other \in SUBSET Nat
    BY WordAssumption
  <2>2. PICK n \in Other : \A m \in Other : n <= m
    BY Least, <2>1
  <2>3. n \in 0..W /\ upTo[n] \notin Nat
    OBVIOUS
  <2>4. n # 0
    BY <2>3, <1>4
  <2>5. n \in 1..W /\ n - 1 \in 0..W /\ ~(n <= n - 1)
    BY <2>3, <2>4, WordAssumption
  <2>6. n - 1 \notin Other
    <3> HIDE DEF Other
    <3> QED
      BY <2>2, <2>5
  <2>7. upTo[n - 1] \in Nat /\ digit[n] \in Nat
    BY <2>5, <2>6
  <2>8. upTo[n] = 256 * upTo[n - 1] + digit[n]
    BY <2>3, <2>4, <1>4
  <2> QED
    BY <2>3, <2>7, <2>8
<1>7. W \in 0..W
  BY WordAssumption
<1> QED
  BY <1>5, <1>6, <1>7

\* A word that lies within the bytes is a number, and so is its signed reading.
LEMMA WordNat ==
  ASSUME NEW s \in Seq(Bytes), NEW a \in Nat, a + W <= Len(s)
  PROVE  Word(s, a) \in Nat
<1> DEFINE digit == [i \in 1..W |-> Byte(s, a + W - i)]
<1>1. \A i \in 1..W : Byte(s, a + W - i) \in Nat
  <2> TAKE i \in 1..W
  <2>1. a + W - i + 1 \in 1..Len(s)
    BY WordAssumption
  <2>2. s[a + W - i + 1] \in Bytes
    BY <2>1, ElementOfSeq, Zenon
  <2>3. Byte(s, a + W - i) = s[a + W - i + 1]
    BY Zenon DEF Byte
  <2>4. Byte(s, a + W - i) \in 0..255
    BY <2>2, <2>3, Zenon
  <2>5. \A x \in 0..255 : x \in Nat
    OBVIOUS
  <2> QED
    BY <2>4, <2>5, Zenon
<1>2. digit \in [1..W -> Nat]
  BY <1>1
<1> HIDE DEF digit
<1>3. Continued(0, digit) \in Nat
  BY <1>2, ContinuedNat
<1> QED
  BY <1>3 DEF Word, digit

LEMMA SignedInt ==
  ASSUME NEW w \in Nat
  PROVE  Signed(w) \in Int
<1>1. [i \in 1..W |-> 0] \in [1..W -> Nat]
  OBVIOUS
<1>2. IntValues \in Nat
  BY <1>1, ContinuedNat DEF IntValues
<1> QED
  BY <1>2 DEF Signed
-----------------------------------------------------------------------------
(* The reader                                                              *)

Reading   == {"header", "allocate", "symbols", "strings", "code"}
Analyzing == {"read", "entries", "follow", "scan", "count", "done"}

\* What the header and n public symbols take of the file, and the size of the code.
Before(n) == (3 + 2 * n) * W
Left      == Len(file) - (Before(PublicSymbolsSize) + StringTabSize)

\* How far the file has been read is what has been made of it.
ReaderInv ==
  /\ file \in Seq(Bytes) /\ pos \in 0..Len(file)
  /\ header \in Seq(Nat) /\ symbols \in Seq(Nat)
  /\ stage \in Reading \union Analyzing \union {"error", "exit", "undefined"}
  /\ stage = "header" => Len(header) < 3 /\ pos = Len(header) * W
  /\ stage \in (Reading \ {"header"}) \union Analyzing =>
       Len(header) = 3 /\ PublicSymbolsSize \in Nat \ {0} /\ StringTabSize \in Nat
  /\ stage \in {"header", "allocate"} => symbols = << >>
  /\ stage = "allocate" => pos = Before(0)
  /\ stage \in {"symbols", "strings"} => pos = Before(Len(symbols))
  /\ stage \in {"symbols", "strings", "code"} => codeSize = Left
  /\ stage = "symbols" => Len(symbols) < PublicSymbolsSize
  /\ stage \in {"strings", "code"} \union Analyzing => Len(symbols) = PublicSymbolsSize
  /\ stage = "code" => pos = Before(Len(symbols)) + StringTabSize
  /\ stage \in Analyzing =>
       /\ code \in Seq(Bytes) /\ Len(code) = codeSize
       /\ file = SubSeq(file, 1, Before(Len(symbols)) + StringTabSize) \o code

LEMMA BeforeNat == \A n \in Nat : Before(n) \in Nat /\ Before(n + 1) = Before(n) + 2 * W
BY WordAssumption DEF Before

LEMMA ReaderStarts == Init => ReaderInv
<1> SUFFICES ASSUME Init PROVE ReaderInv
  OBVIOUS
<1>1. file \in Seq(Bytes)
  BY FilesAssumption DEF Init, ReaderInit
<1>2. Len(file) \in Nat
  BY <1>1
<1> QED
  BY <1>1, <1>2, WordAssumption
  DEF Init, ReaderInit, ReaderInv, Reading, Analyzing

LEMMA HeaderRead == ReaderInv /\ ReadHeader => ReaderInv'
<1> SUFFICES ASSUME ReaderInv, ReadHeader PROVE ReaderInv'
  OBVIOUS
<1> USE DEF Reading, Analyzing
<1>1. /\ file \in Seq(Bytes) /\ pos \in Nat /\ Len(file) \in Nat /\ pos <= Len(file)
      /\ header \in Seq(Nat) /\ symbols = << >> /\ Len(header) \in Nat
      /\ stage = "header" /\ Len(header) < 3 /\ pos = Len(header) * W
  BY DEF ReaderInv, ReadHeader
<1>2. CASE Remaining < W
  BY <1>1, <1>2 DEF ReadHeader, EndOfFile, ReaderInv
<1>3. CASE ~(Remaining < W)
  <2>1. /\ header' = Append(header, Word(file, pos)) /\ pos' = pos + W
        /\ stage' = IF Len(header) < 2 THEN "header"
                    ELSE IF Signed(Word(file, pos)) <= 0 THEN "error" ELSE "allocate"
        /\ UNCHANGED <<file, symbols, codeSize, code, clean>>
    BY <1>3 DEF ReadHeader
  <2>2. pos + W <= Len(file) /\ pos' \in 0..Len(file)
    BY <1>1, <1>3, <2>1, WordAssumption DEF Remaining
  <2>3. Word(file, pos) \in Nat
    BY <1>1, <2>2, WordNat
  <2>4. /\ header' \in Seq(Nat) /\ Len(header') = Len(header) + 1
        /\ header'[Len(header) + 1] = Word(file, pos)
    BY <1>1, <2>1, <2>3, AppendProperties, ZenonT(30)
  <2>5. CASE Len(header) < 2
    <3>1. stage' = "header"
      BY <2>1, <2>5
    <3>2. Len(header') < 3 /\ pos' = Len(header') * W
      BY <1>1, <2>1, <2>4, <2>5, WordAssumption
    <3> QED
      BY <1>1, <2>1, <2>2, <2>4, <3>1, <3>2 DEF ReaderInv
  <2>6. CASE Len(header) = 2
    <3>1. Len(header') = 3 /\ pos' = 3 * W
      BY <1>1, <2>1, <2>4, <2>6, WordAssumption
    <3>2. header'[3] = Word(file, pos)
      BY <2>4, <2>6
    <3>3. header'[1] \in Nat
      BY <2>4, <3>1, ElementOfSeq
    <3>4. Signed(Word(file, pos)) \in Int
      BY <2>3, SignedInt
    <3>5. stage' \in {"error", "allocate"}
      BY <2>1, <2>6
    <3>6. stage' = "allocate" => Signed(Word(file, pos)) > 0
      BY <2>1, <2>6, <3>4
    <3>7. stage' = "allocate" => PublicSymbolsSize' \in Nat \ {0} /\ StringTabSize' \in Nat
      BY <3>2, <3>3, <3>4, <3>6 DEF PublicSymbolsSize, StringTabSize
    <3>8. pos' = Before(0)'
      BY <3>1, WordAssumption DEF Before
    <3> QED
      BY <1>1, <2>1, <2>2, <2>4, <3>1, <3>5, <3>7, <3>8 DEF ReaderInv
  <2>7. Len(header) < 2 \/ Len(header) = 2
    <3>1. \A n \in Nat : n < 3 => n < 2 \/ n = 2
      OBVIOUS
    <3> QED
      BY <1>1, <3>1, Zenon
  <2> QED
    BY <2>5, <2>6, <2>7
<1> QED
  BY <1>2, <1>3

LEMMA Allocated == ReaderInv /\ Allocate => ReaderInv'
<1> SUFFICES ASSUME ReaderInv, Allocate PROVE ReaderInv'
  OBVIOUS
<1> USE DEF Reading, Analyzing
<1>1. /\ stage = "allocate" /\ stage' \in {"symbols", "error"}
      /\ UNCHANGED <<file, pos, header, symbols, code>>
      /\ codeSize' = CodeSize
  BY DEF Allocate
<1>2. /\ symbols = << >> /\ pos = Before(0) /\ Len(header) = 3
      /\ PublicSymbolsSize \in Nat \ {0} /\ StringTabSize \in Nat /\ Len(file) \in Nat
  BY <1>1 DEF ReaderInv
<1>3. CodeSize = Left
  BY <1>2, WordAssumption DEF CodeSize, Left, Before
<1>4. Left' = Left /\ PublicSymbolsSize' = PublicSymbolsSize /\ StringTabSize' = StringTabSize
  BY <1>1 DEF Left, PublicSymbolsSize, StringTabSize, Before
<1>5. Before(Len(symbols))' = Before(0)
  BY <1>1, <1>2 DEF Before
<1> QED
  BY <1>1, <1>2, <1>3, <1>4, <1>5 DEF ReaderInv

LEMMA SymbolRead == ReaderInv /\ ReadSymbol => ReaderInv'
<1> SUFFICES ASSUME ReaderInv, ReadSymbol PROVE ReaderInv'
  OBVIOUS
<1> USE DEF Reading, Analyzing
<1>1. /\ file \in Seq(Bytes) /\ pos \in Nat /\ Len(file) \in Nat /\ pos <= Len(file)
      /\ header \in Seq(Nat) /\ symbols \in Seq(Nat) /\ Len(symbols) \in Nat
      /\ stage = "symbols" /\ Len(header) = 3
      /\ PublicSymbolsSize \in Nat \ {0} /\ StringTabSize \in Nat
      /\ pos = Before(Len(symbols)) /\ codeSize = Left /\ Len(symbols) < PublicSymbolsSize
  BY DEF ReaderInv, ReadSymbol
<1>2. CASE Remaining < 2 * W
  BY <1>1, <1>2 DEF ReadSymbol, EndOfFile, ReaderInv
<1>3. CASE ~(Remaining < 2 * W)
  <2>1. /\ symbols' = Append(symbols, Word(file, pos + W)) /\ pos' = pos + 2 * W
        /\ stage' = IF ~clean THEN "undefined"
                    ELSE IF Len(symbols') < PublicSymbolsSize THEN "symbols" ELSE "strings"
        /\ UNCHANGED <<file, header, codeSize, code, clean>>
    BY <1>3 DEF ReadSymbol
  <2>2. pos + W + W <= Len(file) /\ pos' \in 0..Len(file) /\ pos + W \in Nat
    BY <1>1, <1>3, <2>1, WordAssumption, SMTT(30) DEF Remaining
  <2>3. Word(file, pos + W) \in Nat
    BY <1>1, <2>2, WordNat
  <2>4. symbols' \in Seq(Nat) /\ Len(symbols') = Len(symbols) + 1
    BY <1>1, <2>1, <2>3, AppendProperties, ZenonT(30)
  <2>5. pos' = Before(Len(symbols'))
    BY <1>1, <2>1, <2>4, BeforeNat
  <2>6. Left' = Left /\ PublicSymbolsSize' = PublicSymbolsSize /\ StringTabSize' = StringTabSize
    BY <2>1 DEF Left, PublicSymbolsSize, StringTabSize, Before
  <2>7. pos' = Before(Len(symbols))'
    BY <2>5 DEF Before
  <2>8. stage' \in {"undefined", "symbols", "strings"}
    BY <2>1
  <2>9. /\ stage' = "symbols" => Len(symbols') < PublicSymbolsSize'
        /\ stage' = "strings" => Len(symbols') = PublicSymbolsSize'
    <3>1. stage' = "symbols" => Len(symbols') < PublicSymbolsSize
      BY <2>1
    <3>2. stage' = "strings" => ~(Len(symbols') < PublicSymbolsSize)
      BY <2>1
    <3>3. \A m, n \in Nat : m < n /\ ~(m + 1 < n) => m + 1 = n
      OBVIOUS
    <3> QED
      BY <1>1, <2>4, <2>6, <3>1, <3>2, <3>3, Zenon
  <2> HIDE DEF Before, Left, PublicSymbolsSize, StringTabSize
  <2> QED
    BY <1>1, <2>1, <2>2, <2>4, <2>6, <2>7, <2>8, <2>9 DEF ReaderInv
<1> QED
  BY <1>2, <1>3

LEMMA StringsRead == ReaderInv /\ ReadStrings => ReaderInv'
<1> SUFFICES ASSUME ReaderInv, ReadStrings PROVE ReaderInv'
  OBVIOUS
<1> USE DEF Reading, Analyzing
<1>1. /\ file \in Seq(Bytes) /\ pos \in Nat /\ Len(file) \in Nat /\ pos <= Len(file)
      /\ header \in Seq(Nat) /\ symbols \in Seq(Nat)
      /\ stage = "strings" /\ Len(header) = 3
      /\ PublicSymbolsSize \in Nat \ {0} /\ StringTabSize \in Nat
      /\ pos = Before(Len(symbols)) /\ codeSize = Left /\ Len(symbols) = PublicSymbolsSize
  BY DEF ReaderInv, ReadStrings
<1>2. CASE Remaining < StringTabSize
  BY <1>1, <1>2 DEF ReadStrings, EndOfFile, ReaderInv
<1>3. CASE ~(Remaining < StringTabSize)
  <2>1. /\ pos' = pos + StringTabSize /\ stage' = "code"
        /\ UNCHANGED <<file, header, symbols, codeSize, code, clean>>
    BY <1>3 DEF ReadStrings
  <2>2. pos' \in 0..Len(file)
    BY <1>1, <1>3, <2>1 DEF Remaining
  <2>3. /\ Left' = Left /\ PublicSymbolsSize' = PublicSymbolsSize
        /\ StringTabSize' = StringTabSize /\ Before(Len(symbols))' = Before(Len(symbols))
    BY <2>1 DEF Left, PublicSymbolsSize, StringTabSize, Before
  <2> QED
    BY <1>1, <2>1, <2>2, <2>3 DEF ReaderInv
<1> QED
  BY <1>2, <1>3

\* The code is the rest of the file.
LEMMA CodeRead == ReaderInv /\ ReadCode => ReaderInv'
<1> SUFFICES ASSUME ReaderInv, ReadCode PROVE ReaderInv'
  OBVIOUS
<1> USE DEF Reading, Analyzing
<1>1. /\ file \in Seq(Bytes) /\ pos \in Nat /\ Len(file) \in Nat /\ pos <= Len(file)
      /\ header \in Seq(Nat) /\ symbols \in Seq(Nat) /\ Len(symbols) \in Nat
      /\ stage = "code" /\ Len(header) = 3
      /\ PublicSymbolsSize \in Nat \ {0} /\ StringTabSize \in Nat
      /\ pos = Before(Len(symbols)) + StringTabSize
      /\ codeSize = Left /\ Len(symbols) = PublicSymbolsSize
  BY DEF ReaderInv, ReadCode
<1>2. CASE codeSize < 0 \/ Remaining < codeSize
  BY <1>1, <1>2, SMTT(30) DEF ReadCode, EndOfFile, ReaderInv
<1>3. CASE ~(codeSize < 0 \/ Remaining < codeSize)
  <2>1. /\ code' = SubSeq(file, pos + 1, pos + codeSize) /\ pos' = pos + codeSize
        /\ stage' = "read"
        /\ UNCHANGED <<file, header, symbols, codeSize, clean>>
    BY <1>3 DEF ReadCode
  <2>2. codeSize = Len(file) - pos
    BY <1>1 DEF Left
  <2>3. codeSize \in Nat /\ pos' = Len(file) /\ pos + codeSize = Len(file)
    <3>1. \A l, p \in Nat : ~(l - p < 0) => l - p \in Nat /\ p + (l - p) = l
      OBVIOUS
    <3>2. ~(Len(file) - pos < 0)
      BY <1>3, <2>2, Zenon
    <3>3. Len(file) - pos \in Nat /\ pos + (Len(file) - pos) = Len(file)
      BY <1>1, <3>1, <3>2, Zenon
    <3> QED
      BY <2>1, <2>2, <3>3, Zenon
  <2>4. \A i \in pos + 1..pos + codeSize : file[i] \in Bytes
    <3>1. \A i \in pos + 1..pos + codeSize : i \in 1..Len(file)
      BY <1>1, <2>3
    <3> QED
      BY <1>1, <3>1, ElementOfSeq, ZenonT(30)
  <2>5. code' \in Seq(Bytes) /\ Len(code') = codeSize
    <3> DEFINE m == pos + 1
               n == pos + codeSize
    <3>1. m \in Int /\ n \in Int /\ (IF m <= n THEN n - m + 1 ELSE 0) = codeSize
      BY <1>1, <2>3
    <3> HIDE DEF m, n
    <3>2. \A i \in m..n : file[i] \in Bytes
      BY <2>4 DEF m, n
    <3>3. SubSeq(file, m, n) \in Seq(Bytes) /\ Len(SubSeq(file, m, n)) = codeSize
      BY <3>1, <3>2, SubSeqProperties, ZenonT(30)
    <3> QED
      BY <2>1, <3>3 DEF m, n
  <2>6. file = SubSeq(file, 1, pos) \o SubSeq(file, pos + 1, Len(file))
    <3>1. /\ 1 \in 1..Len(file) + 1 /\ pos \in 1 - 1..Len(file)
          /\ Len(file) \in pos..Len(file)
      BY <1>1
    <3>2. SubSeq(file, 1, pos) \o SubSeq(file, pos + 1, Len(file)) = SubSeq(file, 1, Len(file))
      BY <1>1, <3>1, ConcatAdjacentSubSeq, Zenon
    <3>3. SubSeq(file, 1, Len(file)) = file
      BY <1>1, SubSeqFull, Zenon
    <3> QED
      BY <3>2, <3>3, Zenon
  <2>7. file = SubSeq(file, 1, pos) \o code'
    BY <2>1, <2>3, <2>6, Zenon
  <2>8. /\ PublicSymbolsSize' = PublicSymbolsSize
        /\ StringTabSize' = StringTabSize /\ Before(Len(symbols))' = Before(Len(symbols))
    BY <2>1 DEF PublicSymbolsSize, StringTabSize, Before
  <2>9. pos' \in 0..Len(file)
    BY <1>1, <2>3
  <2> QED
    BY <1>1, <2>1, <2>3, <2>5, <2>7, <2>8, <2>9 DEF ReaderInv
<1> QED
  BY <1>2, <1>3

LEMMA Sorting ==
  SortIdioms => /\ stage = "count" /\ stage' = "done"
                /\ UNCHANGED <<file, pos, header, symbols, codeSize, code, clean,
                               reachable, jumpTargets, workset, entry, addr, idioms>>
BY Zenon DEF SortIdioms

\* The analyzer does not touch what has been read; it goes through its stages or ends.
LEMMA AnalyzeKeepsFile ==
  Analyze => /\ UNCHANGED <<file, pos, header, symbols, codeSize, code, clean>>
             /\ stage \in Analyzing /\ stage' \in Analyzing \union {"error", "exit", "undefined"}
<1> SUFFICES ASSUME Analyze
             PROVE  /\ UNCHANGED <<file, pos, header, symbols, codeSize, code, clean>>
                    /\ stage \in Analyzing
                    /\ stage' \in Analyzing \union {"error", "exit", "undefined"}
  OBVIOUS
<1> USE DEF Analyzing
<1>1. \A a : /\ Disassembled(a) \in {"undefined", "exit", "error", "valid"}
             /\ Validated(a) \in {"undefined", "exit", "error", "valid"}
  BY Zenon DEF Disassembled, Validated
<1>2. CASE Construct
  BY <1>2 DEF Construct
<1>3. CASE MarkEntry
  BY <1>3 DEF MarkEntry, End, readerVars
<1>4. CASE EntriesMarked
  BY <1>4 DEF EntriesMarked
<1>5. CASE Follow
  BY <1>1, <1>5 DEF Follow, End, readerVars
<1>6. CASE AllFollowed
  BY <1>6 DEF AllFollowed
<1>7. CASE Scan
  BY <1>1, <1>7 DEF Scan, End, readerVars
<1>8. CASE SortIdioms
  BY <1>8, Sorting
<1> QED
  BY <1>2, <1>3, <1>4, <1>5, <1>6, <1>7, <1>8 DEF Analyze

LEMMA ReaderStep == ReaderInv /\ [Next]_vars => ReaderInv'
<1> SUFFICES ASSUME ReaderInv, [Next]_vars PROVE ReaderInv'
  OBVIOUS
<1>1. CASE ReaderNext
  BY <1>1, HeaderRead, Allocated, SymbolRead, StringsRead, CodeRead DEF ReaderNext
<1>2. CASE Analyze
  <2>1. /\ UNCHANGED <<file, pos, header, symbols, codeSize, code, clean>>
        /\ stage \in Analyzing /\ stage' \in Analyzing \union {"error", "exit", "undefined"}
    BY <1>2, AnalyzeKeepsFile
  <2>2. /\ PublicSymbolsSize' = PublicSymbolsSize /\ StringTabSize' = StringTabSize
        /\ Before(Len(symbols))' = Before(Len(symbols))
    BY <2>1 DEF PublicSymbolsSize, StringTabSize, Before
  <2>3. /\ stage' \notin Reading /\ stage' \in Reading \union Analyzing \union {"error", "exit", "undefined"}
        /\ Reading = {"header", "allocate", "symbols", "strings", "code"}
    BY <2>1 DEF Reading, Analyzing
  <2>4. /\ file \in Seq(Bytes) /\ pos \in 0..Len(file)
        /\ header \in Seq(Nat) /\ symbols \in Seq(Nat)
        /\ Len(header) = 3 /\ PublicSymbolsSize \in Nat \ {0} /\ StringTabSize \in Nat
        /\ Len(symbols) = PublicSymbolsSize
        /\ code \in Seq(Bytes) /\ Len(code) = codeSize
        /\ file = SubSeq(file, 1, Before(Len(symbols)) + StringTabSize) \o code
    BY <2>1, Zenon DEF ReaderInv
  <2>5. /\ (file \in Seq(Bytes) /\ pos \in 0..Len(file))'
        /\ (header \in Seq(Nat) /\ symbols \in Seq(Nat))'
        /\ (Len(header) = 3 /\ PublicSymbolsSize \in Nat \ {0} /\ StringTabSize \in Nat)'
        /\ (Len(symbols) = PublicSymbolsSize)'
        /\ (code \in Seq(Bytes) /\ Len(code) = codeSize)'
        /\ (file = SubSeq(file, 1, Before(Len(symbols)) + StringTabSize) \o code)'
    BY <2>1, <2>2, <2>4
  <2> QED
    BY <2>3, <2>5, Zenon DEF ReaderInv
<1>3. CASE UNCHANGED vars
  <2>1. UNCHANGED <<file, stage, pos, header, symbols, codeSize, code>>
    BY <1>3 DEF vars, readerVars
  <2>2. /\ PublicSymbolsSize' = PublicSymbolsSize /\ StringTabSize' = StringTabSize
        /\ \A n : Before(n)' = Before(n)
    BY <2>1 DEF PublicSymbolsSize, StringTabSize, Before
  <2>3. Left' = Left /\ Before(0)' = Before(0) /\ Before(Len(symbols))' = Before(Len(symbols))
    BY <2>1, <2>2 DEF Left, Before
  <2>4. /\ (file \in Seq(Bytes) /\ pos \in 0..Len(file))'
        /\ (header \in Seq(Nat) /\ symbols \in Seq(Nat))'
        /\ (stage \in Reading \union Analyzing \union {"error", "exit", "undefined"})'
        /\ (stage = "header" => Len(header) < 3 /\ pos = Len(header) * W)'
    BY <2>1, Zenon DEF ReaderInv
  <2>5. (stage \in (Reading \ {"header"}) \union Analyzing =>
            Len(header) = 3 /\ PublicSymbolsSize \in Nat \ {0} /\ StringTabSize \in Nat)'
    BY <2>1, <2>2, Zenon DEF ReaderInv
  <2>6. /\ (stage \in {"header", "allocate"} => symbols = << >>)'
        /\ (stage = "symbols" => Len(symbols) < PublicSymbolsSize)'
    BY <2>1, <2>2, Zenon DEF ReaderInv
  <2>7. (stage \in {"strings", "code"} \union Analyzing => Len(symbols) = PublicSymbolsSize)'
    <3>1. stage \in {"strings", "code"} \union Analyzing => Len(symbols) = PublicSymbolsSize
      BY Zenon DEF ReaderInv
    <3> QED
      BY <2>1, <2>2, <3>1, Zenon DEF Analyzing
  <2>8. /\ (stage = "allocate" => pos = Before(0))'
        /\ (stage \in {"symbols", "strings"} => pos = Before(Len(symbols)))'
        /\ (stage \in {"symbols", "strings", "code"} => codeSize = Left)'
    <3>1. /\ stage = "allocate" => pos = Before(0)
          /\ stage \in {"symbols", "strings"} => pos = Before(Len(symbols))
          /\ stage \in {"symbols", "strings", "code"} => codeSize = Left
      BY Zenon DEF ReaderInv
    <3> QED
      BY <2>1, <2>3, <3>1
  <2>9. /\ (stage = "code" => pos = Before(Len(symbols)) + StringTabSize)'
        /\ (stage \in Analyzing =>
              /\ code \in Seq(Bytes) /\ Len(code) = codeSize
              /\ file = SubSeq(file, 1, Before(Len(symbols)) + StringTabSize) \o code)'
    BY <2>1, <2>2, <2>3, Zenon DEF ReaderInv
  <2> QED
    BY <2>4, <2>5, <2>6, <2>7, <2>8, <2>9, Zenon DEF ReaderInv
<1> QED
  BY <1>1, <1>2, <1>3 DEF Next, Terminated

LEMMA ReaderInvariant == Spec => []ReaderInv
<1> QED
  BY ReaderStarts, ReaderStep, PTL DEF Spec

\* CodeIsWhatIsLeft: what has been read adds up to the size of the file, also where
\* the header is not true, so that the code is the rest of the file.
THEOREM TheCodeIsTheRest == Spec => []CodeIsWhatIsLeft
<1>1. ReaderInv => CodeIsWhatIsLeft
  <2> SUFFICES ASSUME ReaderInv PROVE CodeIsWhatIsLeft
    OBVIOUS
  <2> USE DEF Reading, Analyzing
  <2>1. ASSUME stage = "code" PROVE codeSize = Remaining /\ codeSize >= 0
    <3>1. /\ pos \in Nat /\ Len(file) \in Nat /\ pos <= Len(file)
          /\ pos = Before(Len(symbols)) + StringTabSize
          /\ codeSize = Left /\ Len(symbols) = PublicSymbolsSize
      BY <2>1 DEF ReaderInv
    <3>2. codeSize = Len(file) - pos
      BY <3>1 DEF Left
    <3> QED
      BY <3>1, <3>2 DEF Remaining
  <2>2. ASSUME stage \in Analyzing
        PROVE  /\ Len(code) = codeSize /\ Len(symbols) = PublicSymbolsSize
               /\ file = SubSeq(file, 1, (3 + 2 * Len(symbols)) * W + StringTabSize) \o code
    BY <2>2 DEF ReaderInv, Before
  <2> QED
    BY <2>1, <2>2 DEF CodeIsWhatIsLeft
<1> QED
  BY <1>1, ReaderInvariant, PTL
-----------------------------------------------------------------------------
(* The elements of a sequence                                              *)

LEMMA InToSet ==
  ASSUME NEW S, NEW s \in Seq(S)
  PROVE  \A x : x \in ToSet(s) <=> \E i \in 1..Len(s) : s[i] = x
<1>1. DOMAIN s = 1..Len(s)
  BY LenProperties, Zenon
<1> QED
  BY <1>1, Zenon DEF ToSet

LEMMA ToSetSubset ==
  ASSUME NEW S, NEW s \in Seq(S)
  PROVE  ToSet(s) \subseteq S
<1>1. \A i \in 1..Len(s) : s[i] \in S
  BY ElementOfSeq, Zenon
<1> QED
  BY <1>1, InToSet, Zenon

LEMMA ToSetOfEmpty == ToSet(<< >>) = {}
<1>1. << >> \in Seq({}) /\ Len(<< >>) = 0
  BY EmptySeq, Zenon
<1>2. 1..0 = {}
  OBVIOUS
<1> QED
  BY <1>1, <1>2, InToSet, Zenon

LEMMA ToSetOfConcat ==
  ASSUME NEW S, NEW s \in Seq(S), NEW t \in Seq(S)
  PROVE  ToSet(s \o t) = ToSet(s) \union ToSet(t)
<1> DEFINE m == Len(s)
           n == Len(t)
<1>1. m \in Nat /\ n \in Nat
  BY LenProperties, Zenon
<1>2. /\ s \o t \in Seq(S) /\ Len(s \o t) = m + n
      /\ \A i \in 1..m + n : (s \o t)[i] = IF i <= m THEN s[i] ELSE t[i - m]
  BY ConcatProperties, Zenon
<1> HIDE DEF m, n
<1>3. ASSUME NEW i \in 1..m PROVE i \in 1..m + n /\ (s \o t)[i] = s[i]
  BY <1>1, <1>2, <1>3
<1>4. ASSUME NEW i \in 1..n PROVE m + i \in 1..m + n /\ (s \o t)[m + i] = t[i]
  <2> DEFINE j == m + i
  <2>1. j \in 1..m + n /\ ~(j <= m) /\ j - m = i
    BY <1>1
  <2> HIDE DEF j
  <2>2. (s \o t)[j] = t[j - m]
    BY <1>2, <2>1, Zenon
  <2> QED
    BY <2>1, <2>2, Zenon DEF j
<1>5. ASSUME NEW i \in 1..m + n
      PROVE  \/ i \in 1..m /\ (s \o t)[i] = s[i]
             \/ i - m \in 1..n /\ (s \o t)[i] = t[i - m]
  BY <1>1, <1>2, SMTT(30)
<1>6. \A x : x \in ToSet(s \o t) <=> \E i \in 1..m + n : (s \o t)[i] = x
  BY <1>2, InToSet, Zenon
<1>7. \A x : x \in ToSet(s) <=> \E i \in 1..m : s[i] = x
  BY InToSet, Zenon DEF m
<1>8. \A x : x \in ToSet(t) <=> \E i \in 1..n : t[i] = x
  BY InToSet, Zenon DEF n
<1>9. ASSUME NEW x \in ToSet(s \o t) PROVE x \in ToSet(s) \union ToSet(t)
  BY <1>5, <1>6, <1>7, <1>8, Zenon
<1>10. ASSUME NEW x \in ToSet(s) \union ToSet(t) PROVE x \in ToSet(s \o t)
  BY <1>3, <1>4, <1>6, <1>7, <1>8, Zenon
<1> QED
  BY <1>9, <1>10, Zenon

LEMMA ToSetOfSingleton == \A x : <<x>> \in Seq({x}) /\ ToSet(<<x>>) = {x}
<1> TAKE x
<1>1. <<x>> \in Seq({x}) /\ Len(<<x>>) = 1 /\ <<x>>[1] = x
  OBVIOUS
<1>2. \A y : y \in ToSet(<<x>>) <=> \E i \in 1..1 : <<x>>[i] = y
  BY <1>1, InToSet, Zenon
<1>3. \A i : i \in 1..1 <=> i = 1
  OBVIOUS
<1> QED
  BY <1>1, <1>2, <1>3, Zenon

LEMMA LastTaken ==
  ASSUME NEW S, NEW s \in Seq(S), s # << >>
  PROVE  /\ Front(s) \in Seq(S) /\ Last(s) \in S
         /\ ToSet(s) = ToSet(Front(s)) \union {Last(s)}
         /\ Len(Front(s)) = Len(s) - 1
         /\ \A i \in 1..Len(s) - 1 : Front(s)[i] = s[i]
<1>1. Len(s) \in Nat \ {0}
  BY EmptySeq, Zenon
<1>2. \A i \in 1..Len(s) : s[i] \in S
  BY ElementOfSeq, Zenon
<1> DEFINE n == Len(s) - 1
<1>3. n \in Nat /\ 1 \in Int /\ n \in Int /\ (IF 1 <= n THEN n - 1 + 1 ELSE 0) = n
      /\ (\A i \in 1..n : i \in 1..Len(s) /\ 1 + i - 1 = i) /\ n - 1 + 1 = n
  <2>1. \A k \in Nat \ {0} :
          /\ k - 1 \in Nat /\ k - 1 \in Int /\ (IF 1 <= k - 1 THEN k - 1 - 1 + 1 ELSE 0) = k - 1
          /\ (\A i \in 1..k - 1 : i \in 1..k /\ 1 + i - 1 = i) /\ k - 1 - 1 + 1 = k - 1
    OBVIOUS
  <2> QED
    BY <1>1, <2>1, 1 \in Int, Zenon
<1>4. 1..Len(s) = 1..n \union {Len(s)} /\ Len(s) \in 1..Len(s)
  <2>1. \A k \in Nat \ {0} : 1..k = 1..k - 1 \union {k} /\ k \in 1..k
    OBVIOUS
  <2> QED
    BY <1>1, <2>1, Zenon
<1>5. Front(s) = SubSeq(s, 1, n)
  BY DEF Front
<1> HIDE DEF n
<1>6. /\ SubSeq(s, 1, n) \in Seq(S) /\ Len(SubSeq(s, 1, n)) = n
      /\ \A i \in 1..n : SubSeq(s, 1, n)[i] = s[i]
  <2>1. \A i \in 1..n : s[i] \in S
    BY <1>2, <1>3
  <2>2. /\ SubSeq(s, 1, n) \in Seq(S)
        /\ Len(SubSeq(s, 1, n)) = IF 1 <= n THEN n - 1 + 1 ELSE 0
        /\ \A i \in 1..n - 1 + 1 : SubSeq(s, 1, n)[i] = s[1 + i - 1]
    BY <1>3, <2>1, SubSeqProperties
  <2> QED
    BY <1>3, <2>2
<1>7. \A x : x \in ToSet(s) <=> \E i \in 1..Len(s) : s[i] = x
  BY InToSet, Zenon
<1>8. \A x : x \in ToSet(Front(s)) <=> \E i \in 1..n : s[i] = x
  <2>1. /\ Front(s) \in Seq(S) /\ Len(Front(s)) = n
        /\ \A i \in 1..n : Front(s)[i] = s[i]
    BY <1>5, <1>6, Zenon
  <2>2. \A x : x \in ToSet(Front(s)) <=> \E i \in 1..Len(Front(s)) : Front(s)[i] = x
    BY <2>1, InToSet, Zenon
  <2>3. \A x : x \in ToSet(Front(s)) <=> \E i \in 1..n : Front(s)[i] = x
    BY <2>1, <2>2, Zenon
  <2> QED
    BY <2>1, <2>3, Zenon
<1>9. ToSet(s) = ToSet(Front(s)) \union {Last(s)}
  BY <1>4, <1>7, <1>8, ZenonT(30) DEF Last
<1>10. Last(s) \in S
  BY <1>2, <1>4, Zenon DEF Last
<1> QED
  BY <1>5, <1>6, <1>9, <1>10, Zenon DEF n

\* What is pushed at a time is at most one address.
LEMMA FewToSeq ==
  ASSUME NEW S, NEW T, NEW x, T \subseteq S, T \subseteq {x}
  PROVE  SetToSeq(T) \in Seq(S) /\ ToSet(SetToSeq(T)) = T
<1>1. CASE T = {}
  <2>1. Cardinality(T) = 0 /\ 1..0 = {}
    BY <1>1, FS_EmptySet
  <2>2. << >> \in [1..0 -> T] /\ \A f, g \in [1..0 -> T] : f = g
    BY <2>1
  <2>3. IsInjective(<< >>)
    BY DEF IsInjective
  <2>4. SetToSeq(T) = << >>
    BY <2>1, <2>2, <2>3, Zenon DEF SetToSeq
  <2>5. << >> \in Seq(S)
    OBVIOUS
  <2> QED
    BY <1>1, <2>4, <2>5, ToSetOfEmpty, Zenon
<1>2. CASE T = {x}
  <2>1. Cardinality(T) = 1
    BY <1>2, FS_Singleton
  <2>2. <<x>> \in [1..1 -> T] /\ \A f, g \in [1..1 -> T] : f = g
    BY <1>2
  <2>3. IsInjective(<<x>>)
    BY DEF IsInjective
  <2>4. SetToSeq(T) = <<x>>
    BY <2>1, <2>2, <2>3, Zenon DEF SetToSeq
  <2>5. <<x>> \in Seq(S)
    BY <1>2
  <2> QED
    BY <1>2, <2>4, <2>5, ToSetOfSingleton, Zenon
<1> QED
  BY <1>1, <1>2, Zenon
-----------------------------------------------------------------------------
(* The types of the analyzer                                               *)

Walking == Analyzing \ {"read"}

\* The mark behind the code is there whenever the scan looks for the next address.
WalkInv ==
  /\ TypeOK
  /\ stage \in Reading \union {"read"} =>
       /\ reachable = {} /\ jumpTargets = {} /\ workset = << >>
       /\ entry = 1 /\ addr = 0 /\ idioms = << >>
  /\ stage \in Walking => codeSize \in reachable /\ addr <= codeSize

LEMMA CodeBounds ==
  ASSUME ReaderInv, stage \in Analyzing
  PROVE  codeSize \in Nat /\ codeSize \notin Addresses /\ symbols \in Seq(Nat)
<1>1. code \in Seq(Bytes) /\ Len(code) = codeSize /\ symbols \in Seq(Nat)
  BY DEF ReaderInv, Analyzing
<1> QED
  BY <1>1 DEF Addresses

\* Where a valid instruction leads is in the code, without a look at its length.
LEMMA ValidLeads ==
  ASSUME NEW a, Validated(a) = "valid"
  PROVE  /\ ~(a + 1 >= codeSize) /\ Disassembled(a) = "valid" /\ After(a) \in Addresses
         /\ Taken(a) \subseteq Addresses /\ Following(a) \subseteq Addresses
<1>1. ~(a + 1 >= codeSize) /\ Disassembled(a) = "valid"
      /\ (Branches(a) => Target(a) \in Addresses)
  BY Zenon DEF Validated
<1>2. After(a) \in Addresses
  BY <1>1, Zenon DEF Disassembled
<1> QED
  BY <1>1, <1>2, Zenon DEF Taken, Following

\* What is pushed is what was not reached before.
LEMMA Pushing ==
  ASSUME NEW a, Validated(a) = "valid", workset \in Seq(Addresses), workset # << >>
  PROVE  /\ Pushed(a) \in Seq(Addresses)
         /\ ToSet(Pushed(a)) = ToSet(Front(workset))
                                 \union ((Taken(a) \union Following(a)) \ reachable)
<1> DEFINE T == Taken(a) \ reachable
           F == (Following(a) \ Taken(a)) \ reachable
<1>1. /\ T \subseteq Addresses /\ T \subseteq {Target(a)}
      /\ F \subseteq Addresses /\ F \subseteq {After(a)}
  <2>1. Taken(a) \subseteq {Target(a)} /\ Following(a) \subseteq {After(a)}
    BY Zenon DEF Taken, Following
  <2> QED
    BY <2>1, ValidLeads, Zenon
<1>2. T \union F = (Taken(a) \union Following(a)) \ reachable
  OBVIOUS
<1> HIDE DEF T, F
<1>3. /\ SetToSeq(T) \in Seq(Addresses) /\ ToSet(SetToSeq(T)) = T
      /\ SetToSeq(F) \in Seq(Addresses) /\ ToSet(SetToSeq(F)) = F
  BY <1>1, FewToSeq, Zenon
<1>4. Front(workset) \in Seq(Addresses)
  BY LastTaken, Zenon
<1>5. /\ Front(workset) \o SetToSeq(T) \in Seq(Addresses)
      /\ ToSet(Front(workset) \o SetToSeq(T)) = ToSet(Front(workset)) \union T
  <2>1. Front(workset) \o SetToSeq(T) \in Seq(Addresses)
    BY <1>3, <1>4, ConcatProperties, Zenon
  <2>2. ToSet(Front(workset) \o SetToSeq(T)) = ToSet(Front(workset)) \union ToSet(SetToSeq(T))
    BY <1>3, <1>4, ToSetOfConcat
  <2> QED
    BY <1>3, <2>1, <2>2, Zenon
<1>6. Pushed(a) = (Front(workset) \o SetToSeq(T)) \o SetToSeq(F)
  BY Zenon DEF Pushed, New, T, F
<1>7. /\ Pushed(a) \in Seq(Addresses)
      /\ ToSet(Pushed(a)) = (ToSet(Front(workset)) \union T) \union F
  <2> DEFINE u == Front(workset) \o SetToSeq(T)
             v == SetToSeq(F)
  <2>1. u \in Seq(Addresses) /\ v \in Seq(Addresses)
        /\ ToSet(u) = ToSet(Front(workset)) \union T /\ ToSet(v) = F /\ Pushed(a) = u \o v
    BY <1>3, <1>5, <1>6, Zenon
  <2> HIDE DEF u, v
  <2>2. u \o v \in Seq(Addresses)
    BY <2>1, ConcatProperties, Zenon
  <2>3. ToSet(u \o v) = ToSet(u) \union ToSet(v)
    BY <2>1, ToSetOfConcat
  <2> QED
    BY <2>1, <2>2, <2>3
<1> QED
  BY <1>2, <1>7, Zenon

\* The scan at the next reached address.
Found(a) == IF MakesPair(a) THEN << <<a, 1>> >> \o << <<a, 2>> >> ELSE << <<a, 1>> >>
IsNext(a) == a \in reachable /\ a >= addr /\ \A c \in reachable : c >= addr => a <= c
ScanOver(a) ==
  /\ idioms' = idioms \o Found(a) /\ addr' = After(a)
  /\ UNCHANGED <<readerVars, reachable, jumpTargets, workset, entry, result>>
ScanAt(a) ==
  \/ a = codeSize /\ End("count")
  \/ a < codeSize /\ a + 1 >= codeSize /\ End("error")
  \/ a + 1 < codeSize /\ Disassembled(a) # "valid" /\ End(Disassembled(a))
  \/ /\ a + 1 < codeSize /\ Disassembled(a) = "valid"
     /\ MakesPair(a) /\ Disassembled(After(a)) # "valid" /\ End(Disassembled(After(a)))
  \/ /\ a + 1 < codeSize /\ Disassembled(a) = "valid"
     /\ Len(idioms \o Found(a)) > MaxIdioms /\ End("error")
  \/ a + 1 < codeSize /\ Disassembled(a) = "valid" /\ ScanOver(a)

LEMMA ScanGoesOn ==
  ASSUME ReaderInv, WalkInv, Scan
  PROVE  \E a : IsNext(a) /\ ScanAt(a)
<1> DEFINE Ahead == {c \in reachable : c >= addr}
           a == CHOOSE b \in reachable : b >= addr /\ \A c \in reachable : c >= addr => b <= c
<1>1. stage = "scan" /\ stage \in Walking /\ stage \in Analyzing
  BY DEF Scan, Walking, Analyzing
<1>2. codeSize \in Ahead
  BY <1>1, CodeBounds DEF WalkInv, TypeOK
<1>3. reachable \subseteq Nat
  BY <1>1, CodeBounds DEF WalkInv, TypeOK, Addresses
<1>4. \E b \in Ahead : \A c \in Ahead : b <= c
  <2>1. Ahead \in SUBSET Nat /\ Ahead # {}
    BY <1>2, <1>3
  <2> HIDE DEF Ahead
  <2> QED
    BY <2>1, Least
<1>5. a \in reachable /\ a >= addr /\ \A c \in reachable : c >= addr => a <= c
  <2>1. \E b \in reachable : b >= addr /\ \A c \in reachable : c >= addr => b <= c
    BY <1>4
  <2> QED
    BY <2>1, Zenon
<1>6. ScanAt(a)
  BY Zenon DEF Scan, ScanAt, ScanOver, Found
<1> QED
  BY <1>5, <1>6, Zenon DEF IsNext

LEMMA WalkStarts == Init => WalkInv
<1> SUFFICES ASSUME Init PROVE WalkInv
  OBVIOUS
<1>1. << >> \in Seq(Addresses) /\ << >> \in Seq(Addresses \X {1, 2})
  OBVIOUS
<1> QED
  BY <1>1 DEF Init, ReaderInit, WalkInv, TypeOK, Walking, Analyzing

\* How an analysis that ends before its time leaves the types as they are.
LEMMA EndTypes ==
  ASSUME WalkInv, NEW how \in {"error", "exit", "undefined"}, End(how)
  PROVE  WalkInv'
<1>1. stage' = how /\ codeSize' = codeSize /\ UNCHANGED analyzerVars
  BY DEF End
<1>2. Addresses' = Addresses
  BY <1>1 DEF Addresses
<1> QED
  BY <1>1, <1>2 DEF WalkInv, TypeOK, Over, Walking, Reading, Analyzing, analyzerVars

LEMMA MarkEntryTypes == ReaderInv /\ WalkInv /\ MarkEntry => WalkInv'
<1> SUFFICES ASSUME ReaderInv, WalkInv, MarkEntry PROVE WalkInv'
  OBVIOUS
<1> DEFINE a == symbols[entry]
<1>1. stage = "entries"
  BY DEF MarkEntry
<1>2. CASE End("error")
  BY <1>2, EndTypes
<1>3. CASE ~End("error")
  <2>1. /\ a \in Addresses /\ entry' = entry + 1
        /\ reachable' = reachable \union {a}
        /\ jumpTargets' = IF a \in reachable THEN jumpTargets ELSE jumpTargets \union {a}
        /\ workset' = IF a \in reachable THEN workset ELSE Append(workset, a)
        /\ UNCHANGED <<readerVars, addr, idioms, result>>
    BY <1>3 DEF MarkEntry
  <2> HIDE DEF a
  <2>2. workset' \in Seq(Addresses)
    BY <2>1, AppendProperties DEF WalkInv, TypeOK
  <2>3. stage' = "entries" /\ codeSize' = codeSize /\ Addresses' = Addresses
    BY <1>1, <2>1 DEF readerVars, Addresses
  <2> QED
    BY <1>1, <2>1, <2>2, <2>3 DEF WalkInv, TypeOK, Over, Walking, Reading, Analyzing
<1> QED
  BY <1>2, <1>3

LEMMA FollowTypes == ReaderInv /\ WalkInv /\ Follow => WalkInv'
<1> SUFFICES ASSUME ReaderInv, WalkInv, Follow PROVE WalkInv'
  OBVIOUS
<1> DEFINE a == Last(workset)
<1>1. stage = "follow" /\ workset # << >>
  BY DEF Follow
<1>2. CASE Validated(a) # "valid"
  <2>1. Validated(a) \in {"undefined", "exit", "error"}
    BY <1>2, Zenon DEF Disassembled, Validated
  <2>2. End(Validated(a))
    BY <1>2 DEF Follow
  <2> QED
    BY <2>1, <2>2, EndTypes
<1>3. CASE Validated(a) = "valid"
  <2>1. /\ reachable' = reachable \union Taken(a) \union Following(a)
        /\ jumpTargets' = jumpTargets \union Marked(a)
        /\ workset' = Pushed(a)
        /\ UNCHANGED <<readerVars, entry, addr, idioms, result>>
    BY <1>3 DEF Follow
  <2> HIDE DEF a
  <2>2. workset' \in Seq(Addresses)
    BY <1>1, <1>3, <2>1, Pushing DEF WalkInv, TypeOK
  <2>3. Taken(a) \subseteq Addresses /\ Following(a) \subseteq Addresses
        /\ Marked(a) \subseteq Addresses
    BY <1>3, ValidLeads DEF Marked
  <2>4. stage' = "follow" /\ codeSize' = codeSize /\ Addresses' = Addresses
    BY <1>1, <2>1 DEF readerVars, Addresses
  <2> QED
    BY <1>1, <2>1, <2>2, <2>3, <2>4 DEF WalkInv, TypeOK, Over, Walking, Reading, Analyzing
<1> QED
  BY <1>2, <1>3

\* What one step of the scan adds.
LEMMA FoundIs ==
  ASSUME NEW a \in Addresses
  PROVE  /\ Found(a) \in Seq(Addresses \X {1, 2}) /\ Len(Found(a)) \in 1..2
         /\ Found(a)[1] = <<a, 1>>
         /\ MakesPair(a) => Len(Found(a)) = 2 /\ Found(a)[2] = <<a, 2>>
         /\ ~MakesPair(a) => Len(Found(a)) = 1
<1> DEFINE P == Addresses \X {1, 2}
           one == <<a, 1>>
           two == <<a, 2>>
<1>1. one \in P /\ two \in P
  OBVIOUS
<1> HIDE DEF P, one, two
<1>2. /\ <<one>> \in Seq(P) /\ Len(<<one>>) = 1 /\ <<one>>[1] = one
      /\ <<one>> \o <<two>> \in Seq(P) /\ Len(<<one>> \o <<two>>) = 2
      /\ (<<one>> \o <<two>>)[1] = one /\ (<<one>> \o <<two>>)[2] = two
  BY <1>1
<1>3. Found(a) = IF MakesPair(a) THEN <<one>> \o <<two>> ELSE <<one>>
  BY Zenon DEF Found, one, two
<1> QED
  BY <1>2, <1>3 DEF P, one, two

LEMMA ScanTypes == ReaderInv /\ WalkInv /\ Scan => WalkInv'
<1> SUFFICES ASSUME ReaderInv, WalkInv, Scan PROVE WalkInv'
  OBVIOUS
<1>1. stage = "scan" /\ stage \in Walking /\ stage \in Analyzing
  BY DEF Scan, Walking, Analyzing
<1>2. codeSize \in Nat /\ codeSize \notin Addresses
  BY <1>1, CodeBounds
<1>3. PICK a : IsNext(a) /\ ScanAt(a)
  BY ScanGoesOn
<1>4. CASE End("count")
  <2>1. stage' = "count" /\ UNCHANGED codeSize /\ UNCHANGED analyzerVars
    BY <1>4 DEF End
  <2>2. Addresses' = Addresses
    BY <2>1 DEF Addresses
  <2> QED
    BY <1>1, <2>1, <2>2
    DEF WalkInv, TypeOK, Over, Walking, Reading, Analyzing, analyzerVars
<1>5. CASE \E how \in {"error", "exit", "undefined"} : End(how)
  BY <1>5, EndTypes
<1>6. CASE a + 1 < codeSize /\ Disassembled(a) = "valid" /\ ScanOver(a)
  <2>1. a \in Addresses
    BY <1>2, <1>3, <1>6 DEF IsNext, WalkInv, TypeOK, Addresses
  <2>2. After(a) \in Addresses
    BY <1>6, Zenon DEF Disassembled
  <2>3. idioms' \in Seq(Addresses \X {1, 2})
    <3>1. idioms \in Seq(Addresses \X {1, 2}) /\ Found(a) \in Seq(Addresses \X {1, 2})
      BY <2>1, FoundIs DEF WalkInv, TypeOK
    <3>2. idioms' = idioms \o Found(a)
      BY <1>6 DEF ScanOver
    <3> QED
      BY <3>1, <3>2, ConcatProperties, Zenon
  <2>4. /\ stage' = "scan" /\ codeSize' = codeSize /\ addr' = After(a) /\ Addresses' = Addresses
        /\ UNCHANGED <<reachable, jumpTargets, workset, entry>>
    BY <1>1, <1>6 DEF ScanOver, readerVars, Addresses
  <2>5. addr' \in Nat /\ addr' <= codeSize
    BY <1>2, <2>2, <2>4 DEF Addresses
  <2> QED
    BY <1>1, <2>3, <2>4, <2>5 DEF WalkInv, TypeOK, Over, Walking, Reading, Analyzing
<1>7. \A b : Disassembled(b) # "valid" => Disassembled(b) \in {"error", "exit", "undefined"}
  BY Zenon DEF Disassembled
<1> QED
  BY <1>3, <1>4, <1>5, <1>6, <1>7 DEF ScanAt

LEMMA WalkStep == ReaderInv /\ WalkInv /\ [Next]_vars => WalkInv'
<1> SUFFICES ASSUME ReaderInv, WalkInv, [Next]_vars PROVE WalkInv'
  OBVIOUS
<1>1. CASE ReaderNext /\ UNCHANGED analyzerVars
  <2>1. stage \in Reading
    BY <1>1 DEF ReaderNext, ReadHeader, Allocate, ReadSymbol, ReadStrings, ReadCode, Reading
  <2>2. /\ reachable' = {} /\ jumpTargets' = {} /\ workset' = << >>
        /\ entry' = 1 /\ addr' = 0 /\ idioms' = << >>
    BY <1>1, <2>1 DEF WalkInv, analyzerVars
  <2>3. stage' \in Reading \union {"read", "error", "undefined"}
    BY <1>1 DEF ReaderNext, ReadHeader, Allocate, ReadSymbol, ReadStrings, ReadCode,
                Reading, EndOfFile
  <2>4. << >> \in Seq(Addresses') /\ << >> \in Seq(Addresses' \X {1, 2})
    OBVIOUS
  <2> QED
    BY <2>2, <2>3, <2>4 DEF WalkInv, TypeOK, Over, Walking, Reading, Analyzing
<1>2. CASE Construct
  <2>1. /\ stage = "read" /\ stage' = "entries" /\ codeSize' = codeSize
        /\ reachable' = {codeSize}
        /\ UNCHANGED <<jumpTargets, workset, entry, addr, idioms, result>>
    BY <1>2 DEF Construct
  <2>2. codeSize \in Nat /\ Addresses' = Addresses
    BY <2>1, CodeBounds DEF Addresses, Analyzing
  <2> QED
    BY <2>1, <2>2 DEF WalkInv, TypeOK, Over, Walking, Reading, Analyzing
<1>3. CASE \/ EntriesMarked
           \/ AllFollowed
           \/ SortIdioms
  <2>1. /\ stage \in Walking /\ stage' \in Walking /\ codeSize' = codeSize
        /\ UNCHANGED <<reachable, jumpTargets, workset, entry, addr, idioms>>
    BY <1>3, Sorting DEF EntriesMarked, AllFollowed, analyzerVars, Walking, Analyzing
  <2>2. Addresses' = Addresses
    BY <2>1 DEF Addresses
  <2> QED
    BY <2>1, <2>2 DEF WalkInv, TypeOK, Over, Walking, Reading, Analyzing
<1>4. CASE UNCHANGED vars
  <2>1. UNCHANGED <<stage, codeSize, reachable, jumpTargets, workset, entry, addr, idioms>>
    BY <1>4 DEF vars, readerVars, analyzerVars
  <2> QED
    BY <2>1, Zenon DEF WalkInv, TypeOK, Addresses
<1> QED
  BY <1>1, <1>2, <1>3, <1>4, MarkEntryTypes, FollowTypes, ScanTypes
  DEF Next, Analyze, Terminated

LEMMA WalkInvariant == Spec => [](ReaderInv /\ WalkInv)
<1> QED
  BY WalkStarts, WalkStep, ReaderInvariant, PTL DEF Spec

\* TypeOK: an address is the address of a byte of the code, wherever one is kept.
THEOREM TypeCorrect == Spec => []TypeOK
<1>1. WalkInv => TypeOK
  BY DEF WalkInv
<1> QED
  BY <1>1, WalkInvariant, PTL
-----------------------------------------------------------------------------
(* The worklist                                                            *)

\* workset is what has been reached and not yet been followed; what has been followed
\* is valid, leads only to what has been reached, and has marked its targets.  Nothing
\* has been reached or marked but what a closed set of instructions has to have.
Later    == {"follow", "scan", "count", "done"}
Followed == Reached \ ToSet(workset)

WorkInv ==
  /\ stage = "entries" =>
       /\ entry <= Len(symbols) + 1
       /\ Reached = {symbols[i] : i \in 1..entry - 1}
       /\ ToSet(workset) = Reached /\ jumpTargets = Reached
  /\ stage \in Later =>
       /\ Entries \subseteq Reached /\ ToSet(workset) \subseteq Reached
       /\ \A a \in Followed : /\ Validated(a) = "valid"
                              /\ Taken(a) \union Following(a) \subseteq Reached
                              /\ Marked(a) \subseteq jumpTargets
       /\ Entries \subseteq jumpTargets
       /\ \A t \in jumpTargets : t \in Entries \/ \E b \in Reached : t \in Marked(b)
       /\ \A S : IsFollowed(S) => Reached \subseteq S
  /\ stage \in Later \ {"follow"} => workset = << >>

LEMMA SameCode ==
  ASSUME UNCHANGED <<code, codeSize, symbols>>
  PROVE  /\ Addresses' = Addresses /\ Entries' = Entries
         /\ \A S : IsFollowed(S)' <=> IsFollowed(S)
         /\ \A a : /\ Validated(a)' = Validated(a) /\ Disassembled(a)' = Disassembled(a)
                   /\ Taken(a)' = Taken(a) /\ Following(a)' = Following(a)
                   /\ Marked(a)' = Marked(a) /\ After(a)' = After(a)
                   /\ (IsCall(a)' <=> IsCall(a)) /\ (IsTerminal(a)' <=> IsTerminal(a))
<1>1. code' = code /\ codeSize' = codeSize /\ symbols' = symbols
  OBVIOUS
<1>2. Addresses' = Addresses /\ Entries' = Entries
  BY <1>1, Zenon DEF Addresses, Entries
<1>3. \A a : /\ After(a)' = After(a) /\ Target(a)' = Target(a)
             /\ Byte(code, a)' = Byte(code, a)
             /\ RunsOff(code, a)' = RunsOff(code, a)
             /\ IllFormed(code, a)' = IllFormed(code, a)
  BY <1>1, Zenon DEF After, Target
<1>4. \A a : /\ (IsCall(a)' <=> IsCall(a)) /\ (IsTerminal(a)' <=> IsTerminal(a))
             /\ (Branches(a)' <=> Branches(a)) /\ Disassembled(a)' = Disassembled(a)
             /\ Flow(a)' = Flow(a) /\ Numbers(a)' = Numbers(a)
  BY <1>1, <1>2, <1>3, Zenon
  DEF IsCall, IsTerminal, Branches, IsJump, Disassembled, Flow, JumpsTo, RunsOnTo, Numbers
<1>5. \A a : Taken(a)' = Taken(a) /\ Following(a)' = Following(a)
  BY <1>3, <1>4, Zenon DEF Taken, Following
<1>6. \A a : Validated(a)' = Validated(a)
  BY <1>1, <1>2, <1>3, <1>4, Zenon DEF Validated
<1>7. \A a : Marked(a)' = Marked(a)
  BY <1>4, <1>5, Zenon DEF Marked
<1>8. \A S : IsFollowed(S)' <=> IsFollowed(S)
  BY <1>2, <1>4, Zenon DEF IsFollowed
<1> QED
  BY <1>2, <1>3, <1>4, <1>5, <1>6, <1>7, <1>8, Zenon

LEMMA WorkStarts == Init => WorkInv
BY DEF Init, ReaderInit, WorkInv, Later

\* Every entry is marked, once.
LEMMA MarkEntryWork == ReaderInv /\ WalkInv /\ WorkInv /\ MarkEntry => WorkInv'
<1> SUFFICES ASSUME ReaderInv, WalkInv, WorkInv, MarkEntry PROVE WorkInv'
  OBVIOUS
<1> DEFINE a == symbols[entry]
<1>1. stage = "entries" /\ entry <= Len(symbols)
  BY DEF MarkEntry
<1>2. CASE End("error")
  BY <1>2 DEF End, WorkInv, Later
<1>3. CASE ~End("error")
  <2>1. /\ a \in Addresses /\ entry' = entry + 1
        /\ reachable' = reachable \union {a}
        /\ jumpTargets' = IF a \in reachable THEN jumpTargets ELSE jumpTargets \union {a}
        /\ workset' = IF a \in reachable THEN workset ELSE Append(workset, a)
        /\ UNCHANGED <<readerVars, addr, idioms, result>>
    BY <1>3 DEF MarkEntry
  <2>2. codeSize \notin Addresses /\ symbols \in Seq(Nat) /\ Len(symbols) \in Nat
    BY <1>1, CodeBounds DEF Analyzing
  <2>3. /\ entry \in Nat \ {0} /\ workset \in Seq(Addresses)
        /\ Reached = {symbols[i] : i \in 1..entry - 1}
        /\ ToSet(workset) = Reached /\ jumpTargets = Reached
    BY <1>1 DEF WorkInv, WalkInv, TypeOK
  <2>4. Reached' = Reached \union {a}
    <3>1. codeSize' = codeSize
      BY <2>1 DEF readerVars
    <3> HIDE DEF a
    <3> QED
      BY <2>1, <2>2, <3>1 DEF Reached
  <2>5. stage' = "entries" /\ symbols' = symbols
    BY <1>1, <2>1 DEF readerVars
  <2>6. entry' <= Len(symbols') + 1
    BY <1>1, <2>1, <2>2, <2>3, <2>5
  <2>7. 1..entry' - 1 = (1..entry - 1) \union {entry}
    BY <2>1, <2>3
  <2>8. Reached' = {symbols'[i] : i \in 1..entry' - 1}
    BY <2>3, <2>4, <2>5, <2>7, Zenon
  <2>9. a \in reachable => a \in Reached
    BY <2>1, <2>2 DEF Reached
  <2>10. ToSet(workset') = Reached'
    <3> HIDE DEF a
    <3>1. CASE a \in reachable
      BY <2>1, <2>3, <2>4, <2>9, <3>1
    <3>2. CASE a \notin reachable
      <4>1. workset' = workset \o <<a>> /\ <<a>> \in Seq(Addresses)
        BY <2>1, <2>3, <3>2, AppendIsConcat
      <4>2. ToSet(workset') = ToSet(workset) \union ToSet(<<a>>)
        <5>1. workset \in Seq(Addresses)
          BY <2>3
        <5>2. ToSet(workset \o <<a>>) = ToSet(workset) \union ToSet(<<a>>)
          BY <4>1, <5>1, ToSetOfConcat, ZenonT(30)
        <5> QED
          BY <4>1, <5>2
      <4> QED
        BY <2>3, <2>4, <4>2, ToSetOfSingleton
    <3> QED
      BY <3>1, <3>2
  <2>11. jumpTargets' = Reached'
    <3> HIDE DEF a
    <3> QED
      BY <2>1, <2>3, <2>4, <2>9
  <2> QED
    BY <2>5, <2>6, <2>8, <2>10, <2>11 DEF WorkInv, Later
<1> QED
  BY <1>2, <1>3

LEMMA EntriesWork == ReaderInv /\ WalkInv /\ WorkInv /\ EntriesMarked => WorkInv'
<1> SUFFICES ASSUME ReaderInv, WalkInv, WorkInv, EntriesMarked PROVE WorkInv'
  OBVIOUS
<1>1. /\ stage = "entries" /\ entry > Len(symbols) /\ stage' = "follow"
      /\ UNCHANGED <<code, codeSize, symbols, analyzerVars>>
  BY DEF EntriesMarked
<1>2. symbols \in Seq(Nat) /\ Len(symbols) \in Nat
  BY <1>1, CodeBounds DEF Analyzing
<1>3. /\ entry \in Nat /\ entry <= Len(symbols) + 1
      /\ Reached = {symbols[i] : i \in 1..entry - 1}
      /\ ToSet(workset) = Reached /\ jumpTargets = Reached
  BY <1>1 DEF WorkInv, WalkInv, TypeOK
<1>4. entry - 1 = Len(symbols)
  BY <1>1, <1>2, <1>3
<1>5. Reached = Entries
  <2>1. \A x : x \in Entries <=> \E i \in 1..Len(symbols) : symbols[i] = x
    BY <1>2, InToSet, Zenon DEF Entries
  <2> QED
    BY <1>3, <1>4, <2>1, Zenon
<1>6. Reached' = Reached /\ workset' = workset /\ jumpTargets' = jumpTargets
  BY <1>1 DEF Reached, analyzerVars
<1>7. Followed' = {}
  BY <1>3, <1>6 DEF Followed
<1>8. \A S : IsFollowed(S)' => Reached' \subseteq S
  BY <1>1, <1>5, <1>6, SameCode, Zenon DEF IsFollowed
<1>9. Entries' = Entries
  BY <1>1, SameCode
<1> QED
  BY <1>1, <1>3, <1>5, <1>6, <1>7, <1>8, <1>9 DEF WorkInv, Later

\* An instruction is followed to where control goes in its function, and a CALLC to the
\* number of its arguments as well.
LEMMA FollowedIsFlow ==
  ASSUME NEW a
  PROVE  /\ Taken(a) \union Following(a) = Flow(a) \union Numbers(a)
         /\ Byte(code, a) # CALLC => /\ Taken(a) = JumpsTo(a) /\ Following(a) = RunsOnTo(a)
                                     /\ (IsCall(a) <=> Byte(code, a) = CALL)
<1> DEFINE op == Byte(code, a)
<1>1. (Branches(a) <=> op \in {JMP, CJMPZ, CJMPNZ, CALL, CALLC})
      /\ (IsTerminal(a) <=> op \in {JMP, END, RET, FAIL, STOP})
      /\ (IsCall(a) <=> op \in {CALL, CALLC})
  BY DEF Branches, IsJump, IsCall, IsTerminal
<1>2. JumpsTo(a) = IF op \in {JMP, CJMPZ, CJMPNZ, CALL} THEN {Target(a)} ELSE {}
  BY DEF JumpsTo
<1>3. RunsOnTo(a) = IF op \in {JMP, END, RET, FAIL, STOP} THEN {} ELSE {After(a)}
  BY DEF RunsOnTo
<1> HIDE DEF op
<1>4. op # CALLC => (Branches(a) <=> op \in {JMP, CJMPZ, CJMPNZ, CALL})
  BY <1>1
<1>5. Taken(a) = JumpsTo(a) \union Numbers(a)
  <2>1. Numbers(a) = IF op = CALLC THEN {Target(a)} ELSE {}
    BY Zenon DEF Numbers, op
  <2>2. Taken(a) = IF op \in {JMP, CJMPZ, CJMPNZ, CALL, CALLC} THEN {Target(a)} ELSE {}
    BY <1>1, Zenon DEF Taken
  <2> QED
    BY <1>2, <2>1, <2>2
<1>6. Following(a) = RunsOnTo(a)
  BY <1>1, <1>3, Zenon DEF Following
<1>7. Taken(a) \union Following(a) = Flow(a) \union Numbers(a)
  BY <1>5, <1>6 DEF Flow
<1> QED
  BY <1>1, <1>2, <1>3, <1>4, <1>6, <1>7, Zenon DEF Taken, op

\* An instruction is followed: it leads to what is reached then, and only to what a
\* closed set has anyway.
LEMMA FollowWork == ReaderInv /\ WalkInv /\ WorkInv /\ Follow => WorkInv'
<1> SUFFICES ASSUME ReaderInv, WalkInv, WorkInv, Follow PROVE WorkInv'
  OBVIOUS
<1> DEFINE a == Last(workset)
<1>1. stage = "follow" /\ workset # << >>
  BY DEF Follow
<1>2. CASE Validated(a) # "valid"
  <2>1. Validated(a) \in {"undefined", "exit", "error"}
    BY <1>2, Zenon DEF Disassembled, Validated
  <2>2. End(Validated(a))
    BY <1>2 DEF Follow
  <2> QED
    BY <2>1, <2>2 DEF End, WorkInv, Later
<1>3. CASE Validated(a) = "valid"
  <2>1. /\ reachable' = reachable \union Taken(a) \union Following(a)
        /\ jumpTargets' = jumpTargets \union Marked(a)
        /\ workset' = Pushed(a)
        /\ UNCHANGED <<readerVars, entry, addr, idioms, result>>
    BY <1>3 DEF Follow
  <2>2. workset \in Seq(Addresses) /\ codeSize \notin Addresses
    BY <1>1, CodeBounds DEF WalkInv, TypeOK, Analyzing
  <2>3. ToSet(workset) = ToSet(Front(workset)) \union {a}
    BY <1>1, <2>2, LastTaken
  <2> HIDE DEF a
  <2> DEFINE L == Taken(a) \union Following(a)
  <2>4. ToSet(workset') = ToSet(Front(workset)) \union (L \ reachable)
    BY <1>1, <1>3, <2>1, <2>2, Pushing
  <2>5. L \subseteq Addresses
    BY <1>3, ValidLeads
  <2>6. UNCHANGED <<code, codeSize, symbols>> /\ stage' = "follow"
    BY <1>1, <2>1 DEF readerVars
  <2>7. Reached' = Reached \union L
    <3>1. codeSize \notin L
      BY <2>2, <2>5
    <3> HIDE DEF L
    <3>2. reachable' = reachable \union L
      BY <2>1 DEF L
    <3> QED
      BY <2>6, <3>1, <3>2 DEF Reached
  <2>8. /\ Entries \subseteq Reached /\ ToSet(workset) \subseteq Reached
        /\ \A b \in Followed : /\ Validated(b) = "valid"
                               /\ Taken(b) \union Following(b) \subseteq Reached
                               /\ Marked(b) \subseteq jumpTargets
        /\ Entries \subseteq jumpTargets
        /\ \A t \in jumpTargets : t \in Entries \/ \E b \in Reached : t \in Marked(b)
        /\ \A S : IsFollowed(S) => Reached \subseteq S
    BY <1>1 DEF WorkInv, Later
  <2>9. a \in Reached
    BY <2>3, <2>8
  <2>10. ToSet(workset') \subseteq Reached'
    BY <2>3, <2>4, <2>7, <2>8
  <2>11. \A b \in Followed' : b \in Followed \/ b = a
    <3> SUFFICES ASSUME NEW b \in Followed', b # a PROVE b \in Followed
      OBVIOUS
    <3>1. b \in Reached' /\ b \notin ToSet(workset')
      BY DEF Followed
    <3> HIDE DEF L
    <3>2. b \in Reached
      <4>1. b \notin Reached => b \in L \ reachable
        BY <2>2, <2>5, <2>7, <3>1 DEF Reached
      <4> QED
        BY <2>4, <3>1, <4>1
    <3>3. b \notin ToSet(workset)
      BY <2>3, <2>4, <3>1
    <3> QED
      BY <3>2, <3>3 DEF Followed
  <2>12. \A b : /\ Validated(b)' = Validated(b)
                /\ Taken(b)' = Taken(b) /\ Following(b)' = Following(b)
                /\ Marked(b)' = Marked(b)
    BY <2>6, SameCode
  <2>13. \A b \in Followed' : /\ Validated(b)' = "valid"
                              /\ Taken(b)' \union Following(b)' \subseteq Reached'
                              /\ Marked(b)' \subseteq jumpTargets'
    <3> TAKE b \in Followed'
    <3>1. CASE b = a
      BY <1>3, <2>1, <2>7, <2>12, <3>1
    <3>2. CASE b \in Followed
      BY <2>1, <2>7, <2>8, <2>12, <3>2
    <3> QED
      BY <2>11, <3>1, <3>2
  <2>14. Entries' = Entries /\ Entries \subseteq Reached' /\ Entries \subseteq jumpTargets'
    BY <2>1, <2>6, <2>7, <2>8, SameCode
  <2>15. \A t \in jumpTargets' : t \in Entries' \/ \E b \in Reached' : t \in Marked(b)'
    BY <2>1, <2>7, <2>8, <2>9, <2>12, <2>14, Zenon
  <2>16. ASSUME NEW S, IsFollowed(S)' PROVE Reached' \subseteq S
    <3>1. IsFollowed(S)
      BY <2>6, <2>16, SameCode
    <3>2. Reached \subseteq S
      BY <2>8, <3>1
    <3>3. Flow(a) \union Numbers(a) \subseteq S
      BY <2>9, <3>1, <3>2 DEF IsFollowed
    <3>4. L \subseteq S
      BY <3>3, FollowedIsFlow
    <3> QED
      BY <2>7, <3>2, <3>4
  <2> QED
    BY <2>6, <2>10, <2>13, <2>14, <2>15, <2>16, Zenon DEF WorkInv, Later
<1> QED
  BY <1>2, <1>3

\* After the loop nothing of it changes.
LEMMA WorkKept ==
  ASSUME WorkInv, stage \in Later, stage' \in Later, workset = << >> \/ stage' = "follow",
         UNCHANGED <<code, codeSize, symbols, reachable, jumpTargets, workset>>
  PROVE  WorkInv'
<1>1. /\ Reached' = Reached /\ Followed' = Followed /\ ToSet(workset)' = ToSet(workset)
  BY Zenon DEF Reached, Followed
<1>2. /\ Entries' = Entries /\ \A S : IsFollowed(S)' <=> IsFollowed(S)
      /\ \A b : /\ Validated(b)' = Validated(b)
                /\ Taken(b)' = Taken(b) /\ Following(b)' = Following(b)
                /\ Marked(b)' = Marked(b)
  BY SameCode
<1>3. stage' # "entries"
  BY DEF Later
<1>4. stage' \in Later \ {"follow"} => workset' = << >>
  OBVIOUS
<1> QED
  BY <1>1, <1>2, <1>3, <1>4, Zenon DEF WorkInv

LEMMA WorkStep == ReaderInv /\ WalkInv /\ WorkInv /\ [Next]_vars => WorkInv'
<1> SUFFICES ASSUME ReaderInv, WalkInv, WorkInv, [Next]_vars PROVE WorkInv'
  OBVIOUS
<1>1. CASE ReaderNext /\ UNCHANGED analyzerVars
  <2>1. stage' \in Reading \union {"read", "error", "undefined"}
    BY <1>1 DEF ReaderNext, ReadHeader, Allocate, ReadSymbol, ReadStrings, ReadCode,
                Reading, EndOfFile
  <2> QED
    BY <2>1 DEF WorkInv, Reading, Later
<1>2. CASE Construct
  <2>1. /\ stage = "read" /\ stage' = "entries" /\ codeSize' = codeSize
        /\ reachable' = {codeSize} /\ symbols' = symbols
        /\ UNCHANGED <<jumpTargets, workset, entry, addr, idioms, result>>
    BY <1>2 DEF Construct
  <2>2. Reached' = {} /\ entry' = 1 /\ workset' = << >> /\ jumpTargets' = {}
    BY <2>1 DEF Reached, WalkInv
  <2>3. Len(symbols') \in Nat
    BY <2>1, CodeBounds DEF Analyzing
  <2> QED
    BY <2>1, <2>2, <2>3, ToSetOfEmpty DEF WorkInv, Later
<1>3. CASE AllFollowed \/ SortIdioms
  <2>1. /\ stage \in Later /\ stage' \in Later /\ workset = << >>
        /\ UNCHANGED <<code, codeSize, symbols, reachable, jumpTargets, workset>>
    BY <1>3, Sorting DEF AllFollowed, analyzerVars, Later, WorkInv
  <2> QED
    BY <2>1, WorkKept
<1>4. CASE Scan
  <2>1. stage = "scan" /\ workset = << >>
    BY <1>4 DEF Scan, WorkInv, Later
  <2>2. PICK a : IsNext(a) /\ ScanAt(a)
    BY <1>4, ScanGoesOn
  <2>3. CASE End("count") \/ ScanOver(a)
    <3>1. /\ stage \in Later /\ stage' \in Later
          /\ UNCHANGED <<code, codeSize, symbols, reachable, jumpTargets, workset>>
      BY <2>1, <2>3 DEF End, ScanOver, readerVars, analyzerVars, Later
    <3> QED
      BY <2>1, <3>1, WorkKept
  <2>4. CASE \E how \in {"error", "exit", "undefined"} : End(how)
    BY <2>4 DEF End, WorkInv, Later
  <2>5. \A b : Disassembled(b) # "valid" => Disassembled(b) \in {"error", "exit", "undefined"}
    BY Zenon DEF Disassembled
  <2> QED
    BY <2>2, <2>3, <2>4, <2>5 DEF ScanAt
<1>5. CASE UNCHANGED vars
  <2>1. UNCHANGED <<stage, code, codeSize, symbols, reachable, jumpTargets, workset, entry>>
    BY <1>5 DEF vars, readerVars, analyzerVars
  <2>2. CASE stage \in Later
    BY <2>1, <2>2, WorkKept DEF WorkInv
  <2>3. CASE stage \notin Later
    <3>1. Reached' = Reached
      BY <2>1 DEF Reached
    <3> QED
      BY <2>1, <2>3, <3>1, Zenon DEF WorkInv
  <2> QED
    BY <2>2, <2>3
<1> QED
  BY <1>1, <1>2, <1>3, <1>4, <1>5, MarkEntryWork, EntriesWork, FollowWork
  DEF Next, Analyze, Terminated

LEMMA WorkInvariant == Spec => [](ReaderInv /\ WalkInv /\ WorkInv)
<1> QED
  BY WorkStarts, WorkStep, WalkInvariant, PTL DEF Spec

\* ReachableIsLeast: an empty workset means that everything reached leads only to what
\* is reached, and nothing that is reached could be left out.  Without a CALLC in it a
\* set is closed if and only if it is followed.
LEMMA ClosedIsFollowed ==
  ASSUME NEW S, ~CallsClosures(S) PROVE IsClosed(S) <=> IsFollowed(S)
<1>1. \A a \in S : Numbers(a) = {}
  BY Zenon DEF CallsClosures, Numbers
<1> QED
  BY <1>1 DEF IsClosed, IsFollowed

THEOREM ReachedIsLeast == Spec => []ReachableIsLeast
<1>1. WorkInv => ReachableIsLeast
  <2> SUFFICES ASSUME WorkInv, stage \in {"scan", "count", "done"}
               PROVE  /\ NoCallc =>
                           /\ IsClosed(Reached)
                           /\ \A S \in SUBSET Reached : IsClosed(S) => S = Reached
                      /\ IsFollowed(Reached)
                      /\ \A S \in SUBSET Reached : IsFollowed(S) => S = Reached
    BY Zenon DEF ReachableIsLeast
  <2>1. workset = << >> /\ Followed = Reached /\ Entries \subseteq Reached
    BY ToSetOfEmpty DEF WorkInv, Later, Followed
  <2>2. IsFollowed(Reached)
    <3>1. \A a \in Reached : Taken(a) \union Following(a) \subseteq Reached
      BY <2>1 DEF WorkInv, Later
    <3> QED
      BY <2>1, <3>1, FollowedIsFlow DEF IsFollowed
  <2>3. \A S \in SUBSET Reached : IsFollowed(S) => S = Reached
    BY DEF WorkInv, Later
  <2>4. ASSUME NoCallc, NEW S \in SUBSET Reached PROVE IsClosed(S) <=> IsFollowed(S)
    BY <2>4, ClosedIsFollowed, Zenon DEF NoCallc, CallsClosures
  <2> QED
    BY <2>2, <2>3, <2>4
<1> QED
  BY <1>1, WorkInvariant, PTL

\* ScanMeetsNoError: what the scan looks at was validated when it was followed, the
\* second instruction of a pair as well.
THEOREM ScanRepeatsNothing == Spec => ScanMeetsNoError
<1>1. ASSUME ReaderInv, WalkInv, WorkInv, [Next]_vars
      PROVE  [stage = "scan" => \/ stage' \in {"scan", "count"}
                                \/ Len(idioms) + 2 > MaxIdioms]_vars
  <2> SUFFICES ASSUME stage = "scan", vars' # vars, Len(idioms) + 2 <= MaxIdioms
               PROVE  stage' \in {"scan", "count"}
    <3>1. Len(idioms) \in Nat /\ MaxIdioms \in Nat
      BY MaxIdiomsAssumption, LenProperties DEF WalkInv, TypeOK
    <3> QED
      BY <3>1
  <2>1. Scan
    BY <1>1, Sorting DEF Next, Analyze, Terminated, ReaderNext, ReadHeader, Allocate,
      ReadSymbol, ReadStrings, ReadCode, Construct, MarkEntry, EntriesMarked, Follow, AllFollowed
  <2>2. PICK a : IsNext(a) /\ ScanAt(a)
    BY <1>1, <2>1, ScanGoesOn
  <2>3. codeSize \in Nat /\ reachable \subseteq Addresses \union {codeSize}
    BY <1>1, CodeBounds DEF WalkInv, TypeOK, Analyzing
  <2>4. \A b \in Reached : Validated(b) = "valid"
    BY <1>1, ToSetOfEmpty DEF WorkInv, Later, Followed
  <2>5. \A b \in reachable : b # codeSize => /\ Disassembled(b) = "valid"
                                             /\ After(b) \in Addresses
                                             /\ ~(b + 1 >= codeSize)
    BY <2>4, ValidLeads, Zenon DEF Reached
  <2>6. CASE a = codeSize
    <3>1. ~(a < codeSize) /\ ~(a + 1 < codeSize)
      BY <2>3, <2>6
    <3> QED
      BY <2>2, <3>1 DEF ScanAt, End
  <2>7. CASE a # codeSize
    <3>1. Disassembled(a) = "valid" /\ ~(a + 1 >= codeSize) /\ a \in Addresses
      BY <2>2, <2>3, <2>5, <2>7 DEF IsNext
    <3>2. MakesPair(a) => Disassembled(After(a)) = "valid"
      <4>1. MakesPair(a) => After(a) \in reachable
        BY DEF MakesPair
      <4>2. After(a) # codeSize
        BY <2>2, <2>3, <2>5, <2>7, CodeBounds, <1>1 DEF IsNext, Analyzing
      <4> QED
        BY <2>5, <4>1, <4>2
    <3>3. ~(Len(idioms \o Found(a)) > MaxIdioms)
      <4>1. Found(a) \in Seq(Addresses \X {1, 2}) /\ Len(Found(a)) \in 1..2
        BY <3>1, FoundIs
      <4>2. idioms \in Seq(Addresses \X {1, 2})
        BY <1>1 DEF WalkInv, TypeOK
      <4>3. Len(idioms \o Found(a)) = Len(idioms) + Len(Found(a))
        BY <4>1, <4>2, ConcatProperties, Zenon
      <4>4. Len(idioms) \in Nat
        BY <4>2, LenProperties, Zenon
      <4>5. \A k \in 1..2 : Len(idioms) + k <= MaxIdioms /\ ~(Len(idioms) + k > MaxIdioms)
        BY <4>4, MaxIdiomsAssumption
      <4> QED
        BY <4>1, <4>3, <4>5, Zenon
    <3>4. ScanOver(a)
      BY <2>2, <2>7, <3>1, <3>2, <3>3, Zenon DEF ScanAt
    <3> QED
      BY <3>4 DEF ScanOver, readerVars
  <2> QED
    BY <2>6, <2>7
<1> QED
  BY <1>1, WorkInvariant, PTL DEF Spec, ScanMeetsNoError
-----------------------------------------------------------------------------
(* The scan                                                                *)

\* An instruction is longer than nothing, but for the mark of the end, from which
\* the scan goes back by one.
LEMMA ValidLength ==
  ASSUME ReaderInv, stage \in Analyzing, NEW a \in Addresses, Disassembled(a) = "valid"
  PROVE  IF Byte(code, a) \in EndMark THEN After(a) = a - 1 ELSE After(a) > a
<1> DEFINE op == Byte(code, a)
           n  == Captured(code, a)
<1>1. code \in Seq(Bytes) /\ Len(code) = codeSize /\ a \in Nat /\ Len(code) \in Nat
  BY DEF ReaderInv, Analyzing, Addresses
<1>2. /\ op \in NoOperand \union OneWord \union TwoWords \union {CLOSURE} \union EndMark
      /\ op = CLOSURE => Inside(code, a + 2 * W)
  <2>1. ~RunsOff(code, a) /\ ~IllFormed(code, a)
    BY Zenon DEF Disassembled
  <2> QED
    BY <2>1, Zenon DEF RunsOff, IllFormed
<1>3. op = CLOSURE => n \in Int
  <2> SUFFICES ASSUME op = CLOSURE PROVE n \in Int
    OBVIOUS
  <2>1. a + 2 * W + 1 <= Len(code)
    BY <1>2 DEF Inside
  <2>2. a + 1 + W \in Nat /\ a + 1 + W + W <= Len(code)
    BY <1>1, <2>1, WordAssumption
  <2>3. Word(code, a + 1 + W) \in Nat
    BY <1>1, <2>2, WordNat, Zenon
  <2> QED
    BY <2>3, SignedInt, Zenon DEF Captured
<1>4. Length(code, a) =
        CASE op \in NoOperand -> 1
          [] op \in OneWord   -> 1 + W
          [] op \in TwoWords  -> 1 + 2 * W
          [] op = CLOSURE     -> 1 + 2 * W + (IF n > 0 THEN n * (1 + W) ELSE 0)
          [] op \in EndMark   -> -1
  BY Zenon DEF Length
<1> HIDE DEF op, n
<1>5. \A x \in Int : x > 0 => x * (1 + W) > 0 /\ x * (1 + W) \in Int
  BY WordAssumption
<1>6. op = CLOSURE => 1 + 2 * W + (IF n > 0 THEN n * (1 + W) ELSE 0) > 0
  <2> DEFINE m == n * (1 + W)
  <2>1. op = CLOSURE /\ n > 0 => m > 0 /\ m \in Int
    BY <1>3, <1>5
  <2> HIDE DEF m
  <2>2. op = CLOSURE => 1 + 2 * W + (IF n > 0 THEN m ELSE 0) > 0
    BY <2>1, WordAssumption
  <2> QED
    BY <2>2 DEF m
<1>7. CASE op \in EndMark
  <2>1. /\ op \notin NoOperand /\ op \notin OneWord /\ op \notin TwoWords /\ op # CLOSURE
    BY <1>7 DEF EndMark, NoOperand, OneWord, TwoWords, CLOSURE,
                JMP, CJMPZ, CJMPNZ, CALLC, CALL, FAIL
  <2>2. Length(code, a) = -1
    BY <1>4, <1>7, <2>1, Zenon
  <2> QED
    BY <1>1, <1>7, <2>2 DEF After, op
<1>8. CASE op \notin EndMark
  <2>1. Length(code, a) > 0
    <3>1. CASE op \in NoOperand
      <4>1. op # CLOSURE /\ op \notin OneWord /\ op \notin TwoWords
        BY <3>1 DEF NoOperand, OneWord, TwoWords, CLOSURE, JMP, CJMPZ, CJMPNZ, CALLC, CALL, FAIL
      <4>2. Length(code, a) = 1
        BY <1>4, <1>8, <3>1, <4>1, Zenon
      <4> QED
        BY <4>2
    <3>2. CASE op \notin NoOperand /\ op \in OneWord
      <4>1. op # CLOSURE /\ op \notin TwoWords
        BY <3>2 DEF OneWord, TwoWords, CLOSURE, JMP, CJMPZ, CJMPNZ, CALLC, CALL, FAIL
      <4>2. Length(code, a) = 1 + W
        BY <1>4, <1>8, <3>2, <4>1, Zenon
      <4> QED
        BY <4>2, WordAssumption
    <3>3. CASE op \notin NoOperand /\ op \notin OneWord /\ op \in TwoWords
      <4>1. op # CLOSURE
        BY <3>3 DEF TwoWords, CLOSURE, CALL, FAIL
      <4>2. Length(code, a) = 1 + 2 * W
        BY <1>4, <1>8, <3>3, <4>1, Zenon
      <4> QED
        BY <4>2, WordAssumption
    <3>4. CASE op \notin NoOperand \union OneWord \union TwoWords /\ op = CLOSURE
      <4>1. Length(code, a) = 1 + 2 * W + (IF n > 0 THEN n * (1 + W) ELSE 0)
        BY <1>4, <1>8, <3>4, Zenon
      <4> QED
        BY <1>6, <3>4, <4>1, Zenon
    <3> QED
      BY <1>2, <1>8, <3>1, <3>2, <3>3, <3>4, Zenon DEF op, n
  <2>2. Length(code, a) \in Int
    <3>1. op = CLOSURE => 1 + 2 * W + (IF n > 0 THEN n * (1 + W) ELSE 0) \in Int
      BY <1>3, <1>5, WordAssumption
    <3>2. 1 \in Int /\ 1 + W \in Int /\ 1 + 2 * W \in Int
      BY WordAssumption
    <3> QED
      BY <1>2, <1>4, <1>8, <3>1, <3>2, Zenon DEF op, n
  <2> DEFINE len == Length(code, a)
  <2>3. After(a) = a + len /\ len > 0 /\ len \in Int
    BY <2>1, <2>2 DEF After
  <2> HIDE DEF len
  <2>4. After(a) > a
    BY <1>1, <2>3
  <2> QED
    BY <1>8, <2>4 DEF op
<1> QED
  BY <1>7, <1>8

Once(s) == \A i, j \in DOMAIN s : s[i] = s[j] => i = j

LEMMA OnceConcat ==
  ASSUME NEW S, NEW s \in Seq(S), NEW t \in Seq(S), Once(s), Once(t),
         \A x \in ToSet(s) : x \notin ToSet(t)
  PROVE  Once(s \o t)
<1> DEFINE m == Len(s)
           n == Len(t)
<1>1. m \in Nat /\ n \in Nat /\ DOMAIN s = 1..m /\ DOMAIN t = 1..n
  BY LenProperties, Zenon
<1>2. /\ s \o t \in Seq(S) /\ Len(s \o t) = m + n
      /\ \A i \in 1..m + n : (s \o t)[i] = IF i <= m THEN s[i] ELSE t[i - m]
  BY ConcatProperties, Zenon
<1>3. DOMAIN (s \o t) = 1..m + n
  <2> DEFINE u == s \o t
  <2>1. u \in Seq(S) /\ Len(u) = m + n
    BY <1>2
  <2> HIDE DEF u, m, n
  <2>2. DOMAIN u = 1..m + n
    BY <2>1, LenProperties, Zenon
  <2> QED
    BY <2>2 DEF u
<1>4. ASSUME NEW i \in 1..m, NEW j \in 1..n PROVE s[i] # t[j]
  BY InToSet, Zenon
<1> HIDE DEF m, n
<1>5. ASSUME NEW i \in 1..m + n
      PROVE  \/ i \in 1..m /\ (s \o t)[i] = s[i]
             \/ i \notin 1..m /\ i - m \in 1..n /\ (s \o t)[i] = t[i - m]
  BY <1>1, <1>2
<1>6. ASSUME NEW i \in 1..m + n, NEW j \in 1..m + n, (s \o t)[i] = (s \o t)[j]
      PROVE  i = j
  <2>1. CASE i \in 1..m /\ j \in 1..m
    BY <1>1, <1>5, <1>6, <2>1, Zenon DEF Once
  <2>2. CASE i \notin 1..m /\ j \notin 1..m
    <3>1. i - m \in 1..n /\ j - m \in 1..n /\ t[i - m] = t[j - m]
      BY <1>5, <1>6, <2>2, Zenon
    <3>2. i - m = j - m
      BY <1>1, <3>1, Zenon DEF Once
    <3> QED
      BY <1>1, <3>2
  <2>3. CASE (i \in 1..m /\ j \notin 1..m) \/ (i \notin 1..m /\ j \in 1..m)
    BY <1>4, <1>5, <1>6, <2>3, Zenon
  <2> QED
    BY <2>1, <2>2, <2>3
<1> QED
  BY <1>3, <1>6, Zenon DEF Once

\* What is behind the scan has been collected, unless the scan is before a mark of
\* the end, over which it never gets.
NoOverlap == \A a, b \in Reached : a < b => b >= After(a)
Behind    == {a \in Reached : a < addr}
EndAhead  == \E e \in Reached : addr <= e /\ Byte(code, e) \in EndMark
Collected ==
  /\ \A a \in Behind : Byte(code, a) \notin EndMark
  /\ ToSet(idioms) = {<<a, 1>> : a \in Behind}
                       \union {<<a, 2>> : a \in {b \in Behind : MakesPair(b)}}
  /\ Once(idioms)

ScanInv ==
  /\ stage \in {"entries", "follow"} => addr = 0 /\ idioms = << >>
  /\ stage = "scan" /\ NoOverlap => EndAhead \/ Collected
  /\ stage \in {"count", "done"} /\ NoOverlap => Collected /\ Behind = Reached

LEMMA ScanStarts == Init => ScanInv
BY DEF Init, ReaderInit, ScanInv

\* The sets and conditions of the scan depend on these variables only.
LEMMA SameScan ==
  ASSUME UNCHANGED <<code, codeSize, symbols, reachable, jumpTargets>>
  PROVE  /\ Reached' = Reached /\ (NoOverlap' <=> NoOverlap)
         /\ \A a : MakesPair(a)' <=> MakesPair(a)
         /\ addr' = addr => /\ Behind' = Behind /\ (EndAhead' <=> EndAhead)
                            /\ idioms' = idioms => (Collected' <=> Collected)
<1>1. Reached' = Reached
  BY DEF Reached
<1>2. NoOverlap' <=> NoOverlap
  BY <1>1, SameCode, Zenon DEF NoOverlap
<1>3. \A a : MakesPair(a)' <=> MakesPair(a)
  BY SameCode, Zenon DEF MakesPair
<1>4. ASSUME addr' = addr PROVE Behind' = Behind /\ (EndAhead' <=> EndAhead)
  BY <1>1, <1>4, Zenon DEF Behind, EndAhead
<1>5. ASSUME addr' = addr, idioms' = idioms PROVE Collected' <=> Collected
  BY <1>3, <1>4, <1>5, Zenon DEF Collected
<1> QED
  BY <1>1, <1>2, <1>3, <1>4, <1>5, Zenon

LEMMA FoundOnce ==
  ASSUME NEW a \in Addresses
  PROVE  /\ ToSet(Found(a)) = {<<a, 1>>} \union (IF MakesPair(a) THEN {<<a, 2>>} ELSE {})
         /\ Once(Found(a))
<1> DEFINE f == Found(a)
<1>1. /\ f \in Seq(Addresses \X {1, 2}) /\ Len(f) \in 1..2 /\ f[1] = <<a, 1>>
      /\ MakesPair(a) => Len(f) = 2 /\ f[2] = <<a, 2>>
      /\ ~MakesPair(a) => Len(f) = 1
  BY FoundIs
<1>2. DOMAIN f = 1..Len(f) /\ \A x : x \in ToSet(f) <=> \E i \in 1..Len(f) : f[i] = x
  BY <1>1, InToSet, LenProperties
<1> HIDE DEF f
<1>3. \A i : (i \in 1..1 <=> i = 1) /\ (i \in 1..2 <=> i = 1 \/ i = 2)
  OBVIOUS
<1>4. <<a, 1>> # <<a, 2>>
  OBVIOUS
<1>5. CASE MakesPair(a)
  <2>1. \A x : x \in ToSet(f) <=> x = <<a, 1>> \/ x = <<a, 2>>
    BY <1>1, <1>2, <1>3, <1>5, Zenon
  <2>2. Once(f)
    <3>1. DOMAIN f = 1..2 /\ f[1] # f[2]
      BY <1>1, <1>2, <1>4, <1>5, Zenon
    <3>2. \A i, j \in 1..2 : f[i] = f[j] => i = j
      BY <3>1
    <3> QED
      BY <3>1, <3>2, Zenon DEF Once
  <2> QED
    BY <1>5, <2>1, <2>2 DEF f
<1>6. CASE ~MakesPair(a)
  <2>1. \A x : x \in ToSet(f) <=> x = <<a, 1>>
    BY <1>1, <1>2, <1>3, <1>6, Zenon
  <2>2. Once(f)
    <3>1. DOMAIN f = 1..1
      BY <1>1, <1>2, <1>6, Zenon
    <3>2. \A i, j \in 1..1 : i = j
      OBVIOUS
    <3> QED
      BY <3>1, <3>2, Zenon DEF Once
  <2> QED
    BY <1>6, <2>1, <2>2 DEF f
<1> QED
  BY <1>5, <1>6

\* One more instruction is collected, or the scan stays before the mark of the end.
LEMMA ScanCollects ==
  ASSUME ReaderInv, WalkInv, WorkInv, ScanInv, stage = "scan",
         NEW a, IsNext(a), a + 1 < codeSize, Disassembled(a) = "valid", ScanOver(a), NoOverlap
  PROVE  EndAhead' \/ Collected'
<1>1. codeSize \in Nat /\ reachable \subseteq Addresses \union {codeSize} /\ addr \in Nat
      /\ idioms \in Seq(Addresses \X {1, 2})
  BY CodeBounds DEF WalkInv, TypeOK, Analyzing
<1>2. /\ a \in Reached /\ a \in Addresses /\ a \in Nat /\ a >= addr
      /\ \A c \in Reached : c >= addr => a <= c
  BY <1>1 DEF IsNext, Addresses, Reached
<1>3. Reached \subseteq Nat
  BY <1>1 DEF Reached, Addresses
<1>4. /\ UNCHANGED <<code, codeSize, symbols, reachable, jumpTargets>>
      /\ addr' = After(a) /\ idioms' = idioms \o Found(a)
  BY DEF ScanOver, readerVars
<1>5. Reached' = Reached /\ (\A b : MakesPair(b)' <=> MakesPair(b)) /\ code' = code
  BY <1>4, SameScan
<1>6. After(a) \in Nat
  <2>1. After(a) \in Addresses
    BY Zenon DEF Disassembled
  <2> QED
    BY <2>1, <1>1 DEF Addresses
<1>7. IF Byte(code, a) \in EndMark THEN After(a) = a - 1 ELSE After(a) > a
  BY <1>2, ValidLength DEF Analyzing
<1>8. CASE EndAhead
  <2>1. PICK e \in Reached : addr <= e /\ Byte(code, e) \in EndMark
    BY <1>8 DEF EndAhead
  <2>2. a <= e /\ e \in Nat
    BY <1>1, <1>2, <1>3, <2>1
  <2>3. CASE a = e
    <3>1. After(a) <= e
      BY <1>2, <1>7, <2>1, <2>3
    <3> QED
      BY <1>4, <1>5, <2>1, <3>1, Zenon DEF EndAhead
  <2>4. CASE a < e
    <3>1. e >= After(a)
      BY <1>2, <2>4 DEF NoOverlap
    <3>2. After(a) <= e
      BY <1>6, <2>2, <3>1
    <3> QED
      BY <1>4, <1>5, <2>1, <3>2, Zenon DEF EndAhead
  <2> QED
    BY <1>2, <2>2, <2>3, <2>4
<1>9. CASE ~EndAhead
  <2>1. Collected
    BY <1>9 DEF ScanInv
  <2>2. Byte(code, a) \notin EndMark /\ After(a) > a
    <3>1. addr <= a
      BY <1>1, <1>2
    <3> QED
      BY <1>2, <1>7, <1>9, <3>1, Zenon DEF EndAhead
  <2>3. Behind' = Behind \union {a}
    <3>1. ASSUME NEW b \in Reached PROVE b < After(a) <=> b < addr \/ b = a
      <4>1. b \in Nat
        BY <1>3
      <4>2. a < b => b >= After(a)
        BY <1>2 DEF NoOverlap
      <4>3. b >= addr => a <= b
        BY <1>2
      <4> QED
        BY <1>1, <1>2, <1>6, <2>2, <4>1, <4>2, <4>3
    <3> QED
      BY <1>2, <1>4, <1>5, <3>1 DEF Behind
  <2>4. \A b \in Behind' : Byte(code', b) \notin EndMark
    <3>1. \A b \in Behind : Byte(code, b) \notin EndMark
      BY <2>1 DEF Collected
    <3> QED
      BY <1>5, <2>2, <2>3, <3>1
  <2>5. /\ ToSet(Found(a)) = {<<a, 1>>} \union (IF MakesPair(a) THEN {<<a, 2>>} ELSE {})
        /\ Once(Found(a)) /\ Found(a) \in Seq(Addresses \X {1, 2})
    BY <1>2, FoundOnce, FoundIs
  <2>6. ToSet(idioms') = ToSet(idioms) \union ToSet(Found(a))
    BY <1>1, <1>4, <2>5, ToSetOfConcat
  <2>7. ToSet(idioms) = {<<b, 1>> : b \in Behind}
                          \union {<<b, 2>> : b \in {c \in Behind : MakesPair(c)}}
    BY <2>1 DEF Collected
  <2>8. ToSet(idioms') = {<<b, 1>> : b \in Behind'}
                           \union {<<b, 2>> : b \in {c \in Behind' : MakesPair(c)}}
    BY <2>3, <2>5, <2>6, <2>7
  <2>9. ToSet(idioms') = {<<b, 1>> : b \in Behind'}
                           \union {<<b, 2>> : b \in {c \in Behind' : MakesPair(c)'}}
    BY <1>5, <2>8
  <2>10. Once(idioms')
    <3>1. \A x \in ToSet(idioms) : x[1] \in Behind
      BY <2>7
    <3>2. a \notin Behind
      BY <1>1, <1>2 DEF Behind
    <3>3. \A x \in ToSet(Found(a)) : x[1] = a
      BY <2>5
    <3>4. \A x \in ToSet(idioms) : x \notin ToSet(Found(a))
      BY <3>1, <3>2, <3>3
    <3> QED
      BY <1>1, <1>4, <2>1, <2>5, <3>4, OnceConcat DEF Collected
  <2> QED
    BY <2>4, <2>9, <2>10, Zenon DEF Collected, Once
<1> QED
  BY <1>8, <1>9

LEMMA ScanKept ==
  ASSUME ScanInv, stage \in {"scan", "count", "done"}, stage' = stage,
         UNCHANGED <<code, codeSize, symbols, reachable, jumpTargets, addr, idioms>>
  PROVE  ScanInv'
<1>1. /\ Reached' = Reached /\ (NoOverlap' <=> NoOverlap) /\ Behind' = Behind
      /\ (EndAhead' <=> EndAhead) /\ (Collected' <=> Collected)
  BY SameScan
<1> QED
  BY <1>1, Zenon DEF ScanInv

LEMMA ScanStep == ReaderInv /\ WalkInv /\ WorkInv /\ ScanInv /\ [Next]_vars => ScanInv'
<1> SUFFICES ASSUME ReaderInv, WalkInv, WorkInv, ScanInv, [Next]_vars PROVE ScanInv'
  OBVIOUS
<1>1. CASE ReaderNext /\ UNCHANGED analyzerVars
  <2>1. stage' \in Reading \union {"read", "error", "undefined"}
    BY <1>1 DEF ReaderNext, ReadHeader, Allocate, ReadSymbol, ReadStrings, ReadCode,
                Reading, EndOfFile
  <2> QED
    BY <2>1 DEF ScanInv, Reading
<1>2. CASE Construct
  BY <1>2 DEF Construct, ScanInv, WalkInv
<1>3. CASE MarkEntry \/ EntriesMarked \/ Follow
  <2>1. \A b : Validated(b) # "valid" => Validated(b) \in {"error", "exit", "undefined"}
    BY Zenon DEF Validated, Disassembled
  <2>2. /\ addr' = addr /\ idioms' = idioms /\ stage \in {"entries", "follow"}
        /\ stage' \in {"entries", "follow", "error", "exit", "undefined"}
    BY <1>3, <2>1 DEF MarkEntry, EntriesMarked, Follow, End, readerVars, analyzerVars
  <2> QED
    BY <2>2 DEF ScanInv
<1>4. CASE AllFollowed
  <2>1. /\ stage = "follow" /\ stage' = "scan"
        /\ UNCHANGED <<code, codeSize, symbols, reachable, jumpTargets, addr, idioms>>
    BY <1>4 DEF AllFollowed, analyzerVars
  <2>2. /\ addr = 0 /\ idioms = << >> /\ codeSize \in Nat
        /\ reachable \subseteq Addresses \union {codeSize}
    BY <2>1, CodeBounds DEF ScanInv, WalkInv, TypeOK, Analyzing
  <2>3. Behind = {}
    <3>1. \A b \in Reached : b \in Nat /\ ~(b < addr)
      BY <2>2 DEF Reached, Addresses
    <3> QED
      BY <3>1, Zenon DEF Behind
  <2>4. Once(<< >>)
    BY DEF Once
  <2>5. Collected
    BY <2>2, <2>3, <2>4, ToSetOfEmpty, Zenon DEF Collected
  <2>6. Collected'
    BY <2>1, <2>5, SameScan
  <2> QED
    BY <2>1, <2>6 DEF ScanInv
<1>5. CASE Scan
  <2>1. stage = "scan"
    BY <1>5 DEF Scan
  <2>2. PICK a : IsNext(a) /\ ScanAt(a)
    BY <1>5, ScanGoesOn
  <2>3. CASE \E how \in {"error", "exit", "undefined"} : End(how)
    BY <2>3 DEF End, ScanInv
  <2>4. CASE a = codeSize /\ End("count")
    <3>1. /\ stage' = "count"
          /\ UNCHANGED <<code, codeSize, symbols, reachable, jumpTargets, addr, idioms>>
      BY <2>4 DEF End, analyzerVars
    <3>2. codeSize \in Nat /\ reachable \subseteq Addresses \union {codeSize} /\ addr \in Nat
      BY <2>1, CodeBounds DEF WalkInv, TypeOK, Analyzing
    <3>3. \A b \in Reached : b < addr
      BY <2>2, <2>4, <3>2 DEF IsNext, Reached, Addresses
    <3>4. Behind = Reached
      BY <3>3, Zenon DEF Behind
    <3>5. ~EndAhead
      BY <3>2, <3>3 DEF EndAhead, Reached, Addresses
    <3> QED
      BY <2>1, <3>1, <3>4, <3>5, SameScan, Zenon DEF ScanInv
  <2>5. CASE a + 1 < codeSize /\ Disassembled(a) = "valid" /\ ScanOver(a)
    <3>1. stage' = "scan" /\ UNCHANGED <<code, codeSize, symbols, reachable, jumpTargets>>
      BY <2>1, <2>5 DEF ScanOver, readerVars
    <3>2. NoOverlap' => EndAhead' \/ Collected'
      BY <2>1, <2>2, <2>5, <3>1, SameScan, ScanCollects
    <3> QED
      BY <3>1, <3>2 DEF ScanInv
  <2>6. \A b : Disassembled(b) # "valid" => Disassembled(b) \in {"error", "exit", "undefined"}
    BY Zenon DEF Disassembled
  <2> QED
    BY <2>2, <2>3, <2>4, <2>5, <2>6 DEF ScanAt
<1>6. CASE SortIdioms
  <2>1. /\ stage = "count" /\ stage' = "done"
        /\ UNCHANGED <<code, codeSize, symbols, reachable, jumpTargets, addr, idioms>>
    BY <1>6, Sorting
  <2>2. /\ Reached' = Reached /\ (NoOverlap' <=> NoOverlap) /\ Behind' = Behind
        /\ (Collected' <=> Collected)
    BY <2>1, SameScan
  <2> QED
    BY <2>1, <2>2 DEF ScanInv
<1>7. CASE UNCHANGED vars
  <2>1. UNCHANGED <<stage, code, codeSize, symbols, reachable, jumpTargets, addr, idioms>>
    BY <1>7 DEF vars, readerVars, analyzerVars
  <2>2. CASE stage \in {"scan", "count", "done"}
    BY <2>1, <2>2, ScanKept
  <2>3. CASE stage \notin {"scan", "count", "done"}
    BY <2>1, <2>3 DEF ScanInv
  <2> QED
    BY <2>2, <2>3
<1> QED
  BY <1>1, <1>2, <1>3, <1>4, <1>5, <1>6, <1>7 DEF Next, Analyze, Terminated

LEMMA ScanInvariant == Spec => [](ReaderInv /\ WalkInv /\ WorkInv /\ ScanInv)
<1> QED
  BY ScanStarts, ScanStep, WorkInvariant, PTL DEF Spec

\* Where instructions do not overlap a pair is what runs straight on: the next address
\* is reached, as all that is led to is, and no mark is missing or one too many.
LEMMA PairIsStraight ==
  ASSUME ReaderInv, WalkInv, WorkInv, stage \in {"count", "done"}, NoCallc, NoOverlap,
         \A b \in Reached : Byte(code, b) \notin EndMark, NEW a \in Reached
  PROVE  MakesPair(a) <=> StraightLine(a)
<1>1. workset = << >> /\ Followed = Reached
  BY ToSetOfEmpty DEF WorkInv, Later, Followed
<1>2. /\ Entries \subseteq jumpTargets
      /\ \A b \in Reached : /\ Validated(b) = "valid"
                            /\ Taken(b) \union Following(b) \subseteq Reached
                            /\ Marked(b) \subseteq jumpTargets
      /\ \A t \in jumpTargets : t \in Entries \/ \E b \in Reached : t \in Marked(b)
  BY <1>1 DEF WorkInv, Later
<1>3. \A b \in Reached : /\ Taken(b) = JumpsTo(b) /\ Following(b) = RunsOnTo(b)
                         /\ (IsCall(b) <=> Byte(code, b) = CALL)
  BY FollowedIsFlow DEF NoCallc, CallsClosures
<1>4. codeSize \in Nat /\ reachable \subseteq Addresses \union {codeSize}
  BY CodeBounds DEF WalkInv, TypeOK, Analyzing
<1>5. Reached \subseteq Addresses /\ Addresses \subseteq Nat
  BY <1>4 DEF Reached, Addresses
<1>6. \A b \in Reached : After(b) > b /\ After(b) \in Nat
  <2> TAKE b \in Reached
  <2>1. Disassembled(b) = "valid" /\ After(b) \in Addresses
    BY <1>2, ValidLeads
  <2> QED
    BY <1>5, <2>1, ValidLength DEF Analyzing
<1>7. \A b : RunsOnTo(b) = IF IsTerminal(b) THEN {} ELSE {After(b)}
  BY Zenon DEF RunsOnTo, IsTerminal
<1>8. ASSUME MakesPair(a) PROVE StraightLine(a)
  <2>1. ~IsCall(a) /\ ~IsTerminal(a) /\ After(a) \notin jumpTargets
    BY <1>8 DEF MakesPair
  <2>2. RunsOnTo(a) # {} /\ Byte(code, a) # CALL /\ After(a) \notin Entries
    BY <1>2, <1>3, <1>7, <2>1
  <2>3. ASSUME NEW b \in Reached PROVE After(a) \notin JumpsTo(b)
    BY <1>2, <1>3, <2>1 DEF Marked
  <2>4. ASSUME NEW b \in Reached, After(a) \in RunsOnTo(b) PROVE b = a
    <3>1. After(a) = After(b)
      BY <1>7, <2>4
    <3>2. /\ a \in Nat /\ b \in Nat /\ After(a) \in Nat /\ After(a) > a /\ After(a) > b
          /\ (a < b => b >= After(a)) /\ (b < a => a >= After(a))
      BY <1>5, <1>6, <3>1 DEF NoOverlap
    <3> QED
      BY <3>2
  <2> QED
    BY <2>2, <2>3, <2>4 DEF StraightLine
<1>9. ASSUME StraightLine(a) PROVE MakesPair(a)
  <2>1. /\ ~IsTerminal(a) /\ ~IsCall(a) /\ After(a) \notin Entries
        /\ \A b \in Reached : /\ After(a) \notin JumpsTo(b)
                              /\ After(a) \in RunsOnTo(b) => b = a
    BY <1>3, <1>7, <1>9 DEF StraightLine
  <2>2. After(a) \in Reached
    BY <1>2, <2>1 DEF Following
  <2>3. ASSUME NEW b \in Reached PROVE After(a) \notin Marked(b)
    BY <1>3, <2>1, Zenon DEF Marked
  <2> QED
    BY <1>2, <2>1, <2>2, <2>3 DEF MakesPair, Reached
<1> QED
  BY <1>8, <1>9

\* IdiomsAreStraightLine: every instruction that control gets to is found once, and
\* the pairs are those that the running program cannot tell from one instruction.
THEOREM PairsRunStraight == Spec => []IdiomsAreStraightLine
<1>1. ReaderInv /\ WalkInv /\ WorkInv /\ ScanInv => IdiomsAreStraightLine
  <2> SUFFICES ASSUME ReaderInv, WalkInv, WorkInv, ScanInv,
                      stage \in {"count", "done"}, NoCallc, NoOverlap
               PROVE  /\ ToSet(idioms) = {<<a, 1>> : a \in Reached}
                           \union {<<a, 2>> : a \in {b \in Reached : StraightLine(b)}}
                      /\ \A i, j \in DOMAIN idioms : idioms[i] = idioms[j] => i = j
    BY Zenon DEF IdiomsAreStraightLine, NoOverlap
  <2>1. Collected /\ Behind = Reached
    BY DEF ScanInv
  <2>2. \A b \in Reached : Byte(code, b) \notin EndMark
    BY <2>1 DEF Collected
  <2>3. \A b \in Reached : MakesPair(b) <=> StraightLine(b)
    BY <2>2, PairIsStraight
  <2>4. {b \in Reached : MakesPair(b)} = {b \in Reached : StraightLine(b)}
    BY <2>3, Zenon
  <2>5. ToSet(idioms) = {<<a, 1>> : a \in Reached}
                          \union {<<a, 2>> : a \in {b \in Reached : MakesPair(b)}}
    BY <2>1, Zenon DEF Collected
  <2>6. ToSet(idioms) = {<<a, 1>> : a \in Reached}
                          \union {<<a, 2>> : a \in {b \in Reached : StraightLine(b)}}
    BY <2>4, <2>5
  <2> QED
    BY <2>1, <2>6, Zenon DEF Collected, Once
<1> QED
  BY <1>1, ScanInvariant, PTL
=============================================================================
