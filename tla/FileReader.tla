----------------------------- MODULE FileReader -----------------------------
(***************************************************************************)
(* Assignment03/src: read_file (file_reader.cpp) fills a bytefile          *)
(* (bytefile.cpp) from a file.  The file is a sequence of bytes: a header  *)
(* of three words, two words for each public symbol, the strings, and the  *)
(* code, which is what the header leaves of the file.  Nothing in the file *)
(* need be true: it may be cut short, or promise more than it holds.       *)
(*                                                                         *)
(* stage     header     about to read the next word of the header          *)
(*           allocate   about to create the bytefile                       *)
(*           symbols    about to read the next public symbol               *)
(*           strings    about to read the strings                          *)
(*           code       about to read the code                             *)
(*           read       read_file has returned                             *)
(*           error      an exception has been thrown, main prints it       *)
(*           undefined  memory has been used that says nothing             *)
(***************************************************************************)
EXTENDS Disassembler

CONSTANT Files    (* the files that main may be given                      *)
ASSUME FilesAssumption == \A f \in Files : f \in Seq(Bytes)

VARIABLES
  file,           (* the bytes of the file                                 *)
  stage,
  pos,            (* how much of the file has been read                    *)
  header,         (* the words of the header that have been read           *)
  symbols,        (* public_ptr: the addresses of the public symbols       *)
  codeSize,       (* code_size of read_file, and code_size_ of bytefile    *)
  code,           (* code_ptr                                              *)
  clean           (* the memory of the bytefile happened to be zero        *)

readerVars == <<file, stage, pos, header, symbols, codeSize, code, clean>>

StringTabSize     == header[1]
PublicSymbolsSize == Signed(header[3])
Remaining         == Len(file) - pos

ReaderInit ==
  /\ file \in Files
  /\ stage = "header"
  /\ pos = 0 /\ header = << >> /\ symbols = << >>
  /\ codeSize = 0 /\ code = << >>
  /\ clean = TRUE

\* "Unexpected end of file" and the other exceptions: main ends.
EndOfFile ==
  /\ stage' = "error"
  /\ pos' = Len(file)
  /\ UNCHANGED <<file, header, symbols, codeSize, code, clean>>

\* string_tab_size, global_area_size, public_symbols_size.
ReadHeader ==
  /\ stage = "header"
  /\ IF Remaining < W
     THEN EndOfFile
     ELSE /\ header' = Append(header, Word(file, pos))
          /\ pos' = pos + W
          /\ stage' = IF Len(header) < 2 THEN "header"
                      ELSE IF Signed(Word(file, pos)) <= 0 THEN "error" ELSE "allocate"
          /\ UNCHANGED <<file, symbols, codeSize, code, clean>>

(* Mutant of CodeSize: what has been read of the header is not taken off.  *)
SizeAfterHeader == Len(file) - (2 * W * PublicSymbolsSize + StringTabSize)
CodeSize        == Len(file) - (pos + 2 * W * PublicSymbolsSize + StringTabSize)

\* What is left for the code is computed from the sizes in the header, and memory
\* taken for all of it.  If it is negative its unsigned reading is huge, and the
\* allocation may fail.  stringtab_size and public_symbols_number, which count up
\* from here, are not set to zero: they have what the memory held before.
Allocate ==
  /\ stage = "allocate"
  /\ codeSize' = CodeSize
  /\ stage' \in {"symbols"} \union (IF CodeSize < 0 THEN {"error"} ELSE {})
  /\ clean' \in BOOLEAN
  /\ UNCHANGED <<file, pos, header, symbols, code>>

\* add_public_symbol: the name is not kept here, the address is.
ReadSymbol ==
  /\ stage = "symbols"
  /\ IF Remaining < 2 * W
     THEN EndOfFile
     ELSE /\ symbols' = Append(symbols, Word(file, pos + W))
          /\ pos' = pos + 2 * W
          /\ stage' = IF ~clean THEN "undefined"
                      ELSE IF Len(symbols') < PublicSymbolsSize THEN "symbols" ELSE "strings"
          /\ UNCHANGED <<file, header, codeSize, code, clean>>

\* add_string
ReadStrings ==
  /\ stage = "strings"
  /\ IF Remaining < StringTabSize
     THEN EndOfFile
     ELSE /\ pos' = pos + StringTabSize
          /\ stage' = "code"
          /\ UNCHANGED <<file, header, symbols, codeSize, code, clean>>

\* add_code.  A vector of a negative size throws as well.
ReadCode ==
  /\ stage = "code"
  /\ IF codeSize < 0 \/ Remaining < codeSize
     THEN EndOfFile
     ELSE /\ code' = SubSeq(file, pos + 1, pos + codeSize)
          /\ pos' = pos + codeSize
          /\ stage' = "read"
          /\ UNCHANGED <<file, header, symbols, codeSize, clean>>

ReaderNext == ReadHeader \/ Allocate \/ ReadSymbol \/ ReadStrings \/ ReadCode
=============================================================================
