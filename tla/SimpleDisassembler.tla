------------------------- MODULE SimpleDisassembler -------------------------
(***************************************************************************)
(* How SimpleDisassembler reads the parameters of an instruction           *)
(* (decompiler/simple_disassembler.cpp).  The format of an instruction is  *)
(* the sequence of the letters of its typeString.                          *)
(***************************************************************************)
EXTENDS Integers, SequencesExt

\* A table with the same entry for each key of S; and two tables in one.
Each(S, value) == [x \in S |-> value]
f ++ g == [x \in DOMAIN f \cup DOMAIN g |-> IF x \in DOMAIN f THEN f[x] ELSE g[x]]

\* The parameters a letter of a format reads, each with the letter it comes from:
\* a byte of nibbles makes two, and so does one of 3 and 5 bits.
ParamsOf(letter) == IF letter \in {"N", "U"} THEN <<letter, letter>> ELSE <<letter>>

\* The bytes a letter takes from the stream, by which _address moves as well.
BytesOf(letter) ==
  CASE letter \in {"N", "U", "b", "B"} -> 1
    [] letter \in {"s", "w"} -> 2
    [] letter \in {"i", "d"} -> 4

\* SimpleDisassembler::readParams over a whole format.
ReadParams(format) == FlattenSeq([i \in DOMAIN format |-> ParamsOf(format[i])])
FormatBytes(format) == FoldLeft(LAMBDA n, letter : n + BytesOf(letter), 0, format)
=============================================================================
