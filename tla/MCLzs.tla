-------------------------------- MODULE MCLzs -------------------------------
(***************************************************************************)
(* Small files for Lzs, with nibbles of 2 values: a window of 8 bytes,     *)
(* references of 3 and 4 bytes, two items to a control byte and an output  *)
(* buffer that grows by 4.                                                 *)
(***************************************************************************)
EXTENDS Lzs, SequencesExt

Bytes == 0 .. 3
Literals == {<<1>>, <<2>>}
References == {<<a, b>> : a \in Bytes, b \in Bytes}
LongReferences == {<<a, b>> : a \in Bytes, b \in {1, 3}}

\* The bytes of items, two behind each control byte.
Bit(item) == IF Len(item) = 1 THEN 1 ELSE 0
Encode(s) ==
  LET pair(k) == IF k = Len(s) THEN <<Bit(s[k])>> \o s[k]
                 ELSE <<Bit(s[k]) + 2 * Bit(s[k + 1])>> \o s[k] \o s[k + 1]
  IN FlattenSeq([k \in 1 .. (Len(s) + 1) \div 2 |-> pair(2 * k - 1)])

\* A reference to the byte a whole window back: the buffer has fresh zeros there, the
\* window may have other bytes.  No item of a text is one.
LengthOf(item) == IF Len(item) = 1 THEN 1 ELSE 3 + (item[2] % 2)
OutputBefore(s, k) == FoldLeft(LAMBDA n, item : n + LengthOf(item), 0, SubSeq(s, 1, k - 1))
OwnPlace(s, k) ==
  /\ Len(s[k]) = 2 /\ OutputBefore(s, k) + LengthOf(s[k]) > 8
  /\ (OutputBefore(s, k) - 4 - (s[k][1] + (s[k][2] \div 2) * 4)) % 8 = 0

\* The texts of six items put out one byte more than the buffer they begin with has.
Texts ==
  {t \in UNION {[1 .. n -> Literals \cup References] : n \in 0 .. 2}
         \cup {<<a, b, c>> : a \in Literals, b \in References, c \in References \cup Literals}
         \cup {<<a, b, c, d, e>> : a \in {<<1>>}, b \in Literals, c \in LongReferences,
                                   d \in LongReferences, e \in References}
         \cup {<<<<1>>, a, b, c, c, c>> : a \in LongReferences, b \in LongReferences,
                                         c \in LongReferences} :
     \A k \in DOMAIN t : ~OwnPlace(t, k)}

File(data) == [declared |-> Len(data), data |-> data]

\* Well-formed files; files that break off, of all bytes; and a wrong header.
SmallFiles ==
  {File(Encode(t)) : t \in Texts}
  \cup {File(d) : d \in UNION {[1 .. n -> Bytes] : n \in 0 .. 4}}
  \cup {[declared |-> 2, data |-> <<1, 1, 1>>]}
=============================================================================
