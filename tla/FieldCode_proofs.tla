-------------------------- MODULE FieldCode_proofs --------------------------
(***************************************************************************)
(* Proofs about the decompilation of fields, for every file: instructions  *)
(* are read where they lie, and the functions of a field whose entry       *)
(* points are in order get their own instructions, names, characters and   *)
(* blocks.                                                                 *)
(***************************************************************************)
EXTENDS FieldCode, SimpleDisassembler_proofs, SequenceTheorems

----------------------------------------------------------------------------
(***************************************************************************)
(* The tables: every opcode has a format whose letters are known.          *)
(***************************************************************************)
Formats(table) == Valued(table, Seq(Letters))

LEMMA FieldTable == Formats(FieldFormats)
<1>1. /\ \A S : \A v \in Seq(Letters) : Formats(Each(S, v))
      /\ \A f, g : Formats(f) /\ Formats(g) => Formats(f ++ g)
  BY TablesIn DEF Formats
<1>2. Formats(FlowFormats)
  <2>1. /\ <<>> \in Seq(Letters) /\ <<"B", "U">> \in Seq(Letters)
        /\ <<"U">> \in Seq(Letters) /\ <<"B">> \in Seq(Letters)
        /\ <<"w">> \in Seq(Letters) /\ <<"N", "B", "B", "B", "B">> \in Seq(Letters)
        /\ <<"N", "B", "B", "B", "w">> \in Seq(Letters)
        /\ <<"N", "w", "w", "B", "B">> \in Seq(Letters)
        /\ <<"N", "w", "w", "B", "w">> \in Seq(Letters)
        /\ <<"w", "B">> \in Seq(Letters) /\ <<"B", "B">> \in Seq(Letters)
    BY DEF Letters
  <2> QED
    BY <1>1, <2>1 DEF FlowFormats
<1>3. Formats(ModuleFormats)
  <2>1. /\ <<"B">> \in Seq(Letters) /\ <<"B", "B">> \in Seq(Letters)
        /\ <<>> \in Seq(Letters)
        /\ <<"w", "s", "s", "w", "B", "B">> \in Seq(Letters)
        /\ <<"d">> \in Seq(Letters) /\ <<"N", "B">> \in Seq(Letters)
        /\ <<"w", "s", "s", "w", "B">> \in Seq(Letters)
        /\ <<"N", "w">> \in Seq(Letters) /\ <<"w">> \in Seq(Letters)
    BY DEF Letters
  <2> QED
    BY <1>1, <2>1 DEF ModuleFormats
<1>4. Formats(MathFormats)
  <2>1. /\ <<"N", "B", "B">> \in Seq(Letters) /\ <<"N", "B", "w">> \in Seq(Letters)
        /\ <<"B", "B">> \in Seq(Letters) /\ <<"N", "B">> \in Seq(Letters)
        /\ <<"N", "N", "B", "B", "B">> \in Seq(Letters)
        /\ <<"N", "N", "w", "w", "w", "B">> \in Seq(Letters)
    BY DEF Letters
  <2> QED
    BY <1>1, <2>1 DEF MathFormats
<1>5. Formats(WindowFormats)
  <2>1. /\ <<"B">> \in Seq(Letters) /\ <<"B", "w", "w", "w", "w">> \in Seq(Letters)
        /\ <<"B", "B", "B", "B">> \in Seq(Letters)
        /\ <<"N", "B", "w", "w", "B">> \in Seq(Letters)
        /\ <<"N", "N", "B", "B", "B">> \in Seq(Letters)
        /\ <<"B", "B">> \in Seq(Letters) /\ <<"N", "B", "B", "B">> \in Seq(Letters)
        /\ <<"N", "B", "B", "w">> \in Seq(Letters)
        /\ <<"N", "B", "B", "B", "B", "B">> \in Seq(Letters)
        /\ <<"N", "B", "B">> \in Seq(Letters) /\ <<"B", "s", "s">> \in Seq(Letters)
        /\ <<"B", "B", "B">> \in Seq(Letters)
        /\ <<"N", "N", "B", "B", "B", "B">> \in Seq(Letters)
    BY DEF Letters
  <2> QED
    BY <1>1, <2>1 DEF WindowFormats
<1>6. Formats(PartyFormats)
  <2>1. /\ <<"N", "N", "B", "B", "B">> \in Seq(Letters)
        /\ <<"N", "w", "w">> \in Seq(Letters) /\ <<"N", "B", "B">> \in Seq(Letters)
        /\ <<>> \in Seq(Letters) /\ <<"N", "B", "w">> \in Seq(Letters)
        /\ <<"N", "w", "B">> \in Seq(Letters)
        /\ <<"N", "N", "B", "B", "B", "B">> \in Seq(Letters)
        /\ <<"N", "N", "B", "B", "B", "B", "B">> \in Seq(Letters)
        /\ <<"N", "N", "N", "B", "B", "B", "B", "B", "B">> \in Seq(Letters)
        /\ <<"B">> \in Seq(Letters) /\ <<"B", "B", "B">> \in Seq(Letters)
        /\ <<"B", "B">> \in Seq(Letters)
    BY DEF Letters
  <2> QED
    BY <1>1, <2>1 DEF PartyFormats
<1>7. Formats(ModelFormats)
  <2> DEFINE first ==
               Each({"JOIN", "BLINK", "PMOVA", "PDIRA", "TLKON", "PC", "CHAR", "VISI", "MOVA",
                     "DIRA", "CC", "SOLID", "FCFIX"}, <<"B">>)
               ++ Each({"SPLIT"}, <<"N", "N", "N", "s", "s", "B", "s", "s", "B", "B">>)
               ++ Each({"KAWIW", "ANIMW", "OFSTW", "ANIMB", "TURNW"}, <<>>)
               ++ Each({"PTURA", "TURA", "CCANM"}, <<"B", "B", "B">>)
               ++ Each({"PGTDR", "GETDIR", "GETAI"}, <<"N", "B", "B">>)
               ++ Each({"PXYZI", "AXYZI"}, <<"N", "N", "B", "B", "B", "B", "B">>)
               ++ Each({"DFANM", "ANIME1", "ANIME2", "ANIM!1", "DIR", "ANIM!2"}, <<"B", "B">>)
               ++ Each({"XYZI"}, <<"N", "N", "s", "s", "s", "w">>)
               ++ Each({"XYI"}, <<"N", "N", "s", "s", "w">>)
               ++ Each({"XYZ"}, <<"N", "N", "s", "s", "s">>)
  <2>1. /\ <<"B">> \in Seq(Letters)
        /\ <<"N", "N", "N", "s", "s", "B", "s", "s", "B", "B">> \in Seq(Letters)
        /\ <<>> \in Seq(Letters) /\ <<"B", "B", "B">> \in Seq(Letters)
        /\ <<"N", "B", "B">> \in Seq(Letters)
        /\ <<"N", "N", "B", "B", "B", "B", "B">> \in Seq(Letters)
        /\ <<"B", "B">> \in Seq(Letters)
        /\ <<"N", "N", "s", "s", "s", "w">> \in Seq(Letters)
        /\ <<"N", "N", "s", "s", "w">> \in Seq(Letters)
        /\ <<"N", "N", "s", "s", "s">> \in Seq(Letters)
        /\ <<"N", "s", "s">> \in Seq(Letters)
        /\ <<"B", "B", "B", "B">> \in Seq(Letters) /\ <<"N", "w">> \in Seq(Letters)
        /\ <<"N", "B", "B", "B", "B">> \in Seq(Letters)
        /\ <<"N", "B", "B", "B">> \in Seq(Letters)
        /\ <<"N", "N", "s", "s", "w", "w">> \in Seq(Letters)
        /\ <<"N", "N", "s", "s", "s", "w", "B", "B", "B", "B">> \in Seq(Letters)
        /\ <<"N", "N", "B", "s", "s", "s", "w">> \in Seq(Letters)
        /\ <<"N", "B">> \in Seq(Letters)
    BY DEF Letters
  <2>2. Formats(first)
    BY <1>1, <2>1
  <2>3. ModelFormats =
          first ++ Each({"MOVE", "CMOVE", "FMOVE"}, <<"N", "s", "s">>)
          ++ Each({"CANIM1", "CANM!1", "CANIM2", "CANM!2"}, <<"B", "B", "B", "B">>)
          ++ Each({"MSPED", "ASPED", "TLKR2", "SLDR2"}, <<"N", "w">>)
          ++ Each({"TURNGEN", "TURN"}, <<"N", "B", "B", "B", "B">>)
          ++ Each({"GETAXY"}, <<"N", "B", "B", "B">>)
          ++ Each({"JUMP"}, <<"N", "N", "s", "s", "w", "w">>)
          ++ Each({"LADER"}, <<"N", "N", "s", "s", "s", "w", "B", "B", "B", "B">>)
          ++ Each({"OFST"}, <<"N", "N", "B", "s", "s", "s", "w">>)
          ++ Each({"TALKR", "SLIDR"}, <<"N", "B">>)
    BY DEF ModelFormats
  <2> HIDE DEF first
  <2> QED
    BY <1>1, <2>1, <2>2, <2>3
<1>8. Formats(WalkmeshFormats)
  <2>1. /\ <<"B">> \in Seq(Letters) /\ <<"w", "B">> \in Seq(Letters)
        /\ <<"s", "s", "s", "s", "s", "s">> \in Seq(Letters)
        /\ <<"N", "N", "N", "s", "s", "s", "s", "s", "s">> \in Seq(Letters)
    BY DEF Letters
  <2> QED
    BY <1>1, <2>1 DEF WalkmeshFormats
<1>9. Formats(BackgroundFormats)
  <2>1. /\ <<"N", "B", "s">> \in Seq(Letters)
        /\ <<"N", "B", "s", "s">> \in Seq(Letters)
        /\ <<"N", "N", "N", "B", "B", "B", "B", "B", "B", "B">> \in Seq(Letters)
        /\ <<"N", "B", "B">> \in Seq(Letters) /\ <<"N", "B">> \in Seq(Letters)
        /\ <<"N", "B", "B", "B">> \in Seq(Letters)
        /\ <<"N", "N", "B", "B", "B", "B">> \in Seq(Letters)
        /\ <<"N", "N", "N", "B", "B", "B", "B", "B", "B">> \in Seq(Letters)
        /\ <<"B", "B", "B", "B">> \in Seq(Letters)
        /\ <<"B", "B", "B", "B", "B", "B", "B">> \in Seq(Letters)
        /\ <<"B", "B", "B", "B", "B", "B", "B", "B", "B", "B">> \in Seq(Letters)
    BY DEF Letters
  <2> QED
    BY <1>1, <2>1 DEF BackgroundFormats
<1>10. Formats(CameraFormats)
  <2>1. /\ <<"N", "N", "B", "B", "B", "B", "B", "B">> \in Seq(Letters)
        /\ <<"B", "B", "B", "B", "B", "B", "B">> \in Seq(Letters)
        /\ <<"B">> \in Seq(Letters) /\ <<"B", "B", "B", "B">> \in Seq(Letters)
        /\ <<"N", "w", "B", "B">> \in Seq(Letters)
        /\ <<"N", "s", "s">> \in Seq(Letters) /\ <<>> \in Seq(Letters)
        /\ <<"N", "N", "s", "s", "w">> \in Seq(Letters)
        /\ <<"N", "s", "s", "B">> \in Seq(Letters)
    BY DEF Letters
  <2> QED
    BY <1>1, <2>1 DEF CameraFormats
<1>11. Formats(AudioVideoFormats)
  <2>1. /\ <<"B">> \in Seq(Letters)
        /\ <<"N", "N", "N", "B", "w", "w", "w", "w", "w">> \in Seq(Letters)
        /\ <<"N", "w", "B">> \in Seq(Letters)
        /\ <<"N", "N", "N", "B", "B", "w", "w", "w", "w">> \in Seq(Letters)
        /\ <<"B", "B", "B">> \in Seq(Letters) /\ <<>> \in Seq(Letters)
        /\ <<"N", "B">> \in Seq(Letters)
        /\ <<"B", "B", "B", "B", "B", "B", "B">> \in Seq(Letters)
    BY DEF Letters
  <2> QED
    BY <1>1, <2>1 DEF AudioVideoFormats
<1>12. Formats(UncategorizedFormats)
  <2>1. /\ <<"B">> \in Seq(Letters)
        /\ <<"B", "B", "B", "B", "B", "B">> \in Seq(Letters)
        /\ <<"B", "B", "B", "B", "B", "B", "B", "B", "B", "B">> \in Seq(Letters)
    BY DEF Letters
  <2> QED
    BY <1>1, <2>1 DEF UncategorizedFormats
<1> QED
  BY <1>1, <1>2, <1>3, <1>4, <1>5, <1>6, <1>7, <1>8, <1>9, <1>10, <1>11, <1>12 DEF FieldFormats

\* The formats of the ifs: the distance is the last parameter, and ParamsSize is where
\* it lies.
IfFormats(op, format) ==
  \/ op \in {"IFUB"} /\ format = <<"N", "B", "B", "B", "B">>
  \/ op \in {"IFUBL"} /\ format = <<"N", "B", "B", "B", "w">>
  \/ op \in {"IFSW", "IFUW"} /\ format = <<"N", "w", "w", "B", "B">>
  \/ op \in {"IFSWL", "IFUWL"} /\ format = <<"N", "w", "w", "B", "w">>
  \/ op \in {"IFKEY", "IFKEYON", "IFKEYOFF"} /\ format = <<"w", "B">>
  \/ op \in {"IFPRTYQ", "IFMEMBQ"} /\ format = <<"B", "B">>

LEMMA IfsHaveFormats ==
  ASSUME NEW op, NEW format, IfFormats(op, format)
  PROVE  FieldFormats[op] = format
<1>1. Has(FlowFormats, op, format)
  <2>1. CASE op \in {"IFUB"} /\ format = <<"N", "B", "B", "B", "B">>
    BY <2>1, EntriesOf DEF FlowFormats
  <2>2. CASE op \in {"IFUBL"} /\ format = <<"N", "B", "B", "B", "w">>
    BY <2>2, EntriesOf DEF FlowFormats
  <2>3. CASE op \in {"IFSW", "IFUW"} /\ format = <<"N", "w", "w", "B", "B">>
    BY <2>3, EntriesOf DEF FlowFormats
  <2>4. CASE op \in {"IFSWL", "IFUWL"} /\ format = <<"N", "w", "w", "B", "w">>
    BY <2>4, EntriesOf DEF FlowFormats
  <2>5. CASE op \in {"IFKEY", "IFKEYON", "IFKEYOFF"} /\ format = <<"w", "B">>
    BY <2>5, EntriesOf DEF FlowFormats
  <2>6. CASE op \in {"IFPRTYQ", "IFMEMBQ"} /\ format = <<"B", "B">>
    BY <2>6, EntriesOf DEF FlowFormats
  <2> QED
    BY <2>1, <2>2, <2>3, <2>4, <2>5, <2>6 DEF IfFormats
<1>2. Has(FieldFormats, op, format)
  BY <1>1, EntriesOf DEF FieldFormats
<1> QED
  BY <1>2 DEF Has

LEMMA FrontIs ==
  ASSUME NEW S, NEW s \in Seq(S), NEW n \in Nat, Len(s) = n + 1
  PROVE  /\ Front(s) \in Seq(S) /\ Len(Front(s)) = n
         /\ \A k \in 1 .. n : Front(s)[k] = s[k]
<1>1. n \in Int /\ 1 \in Int /\ 1 .. n \subseteq 1 .. Len(s) /\ \A k \in 1 .. n : s[k] \in S
  OBVIOUS
<1>2. Front(s) = SubSeq(s, 1, n)
  BY DEF Front
<1> QED
  BY <1>1, <1>2, SubSeqProperties

LEMMA FrontBytes ==
  ASSUME NEW format \in Seq(Letters), NEW n \in Nat, Len(format) = n + 1
  PROVE  \E g : /\ g[0] = 0 /\ FormatBytes(Front(format)) = g[n]
                /\ \A k \in 1 .. n : g[k] = g[k - 1] + BytesOf(format[k])
<1> DEFINE p == Front(format)
<1>1. p \in Seq(Letters) /\ Len(p) = n /\ \A k \in 1 .. n : p[k] = format[k]
  BY FrontIs
<1> HIDE DEF p
<1>2. PICK g : Running(g, p) /\ FormatBytes(p) = g[Len(p)]
  BY <1>1, BytesOneByOne
<1> QED
  BY <1>1, <1>2 DEF Running, p

LEMMA OperandsLie ==
  ASSUME NEW op \in CondJumpOpcodes
  PROVE  OperandOffset(op) = ParamsSize(op) /\ ParamsSize(op) \in Nat
<1> DEFINE format == FieldFormats[op]
<1>1. IfFormats(op, format) /\ format \in Seq(Letters)
  <2>1. PICK p \in Seq(Letters) : IfFormats(op, p)
    <3>1. /\ <<"N", "B", "B", "B", "B">> \in Seq(Letters) /\ <<"N", "B", "B", "B", "w">> \in Seq(Letters)
          /\ <<"N", "w", "w", "B", "B">> \in Seq(Letters) /\ <<"N", "w", "w", "B", "w">> \in Seq(Letters)
          /\ <<"w", "B">> \in Seq(Letters) /\ <<"B", "B">> \in Seq(Letters)
      BY DEF Letters
    <3> QED
      BY <3>1 DEF CondJumpOpcodes, IfFormats
  <2> QED
    BY <2>1, IfsHaveFormats
<1>2. OperandOffset(op) = 1 + FormatBytes(Front(format))
  BY DEF OperandOffset
<1> HIDE DEF format
<1>3. BytesOf("N") = 1 /\ BytesOf("B") = 1 /\ BytesOf("w") = 2
  BY DEF BytesOf
<1>4. CASE op \in {"IFUB", "IFUBL"}
  <2>1. /\ Len(format) = 5 /\ format[1] = "N"
        /\ format[2] = "B" /\ format[3] = "B" /\ format[4] = "B"
    BY <1>1, <1>4 DEF IfFormats
  <2>2. PICK g : /\ g[0] = 0 /\ FormatBytes(Front(format)) = g[4]
                 /\ \A k \in 1 .. 4 : g[k] = g[k - 1] + BytesOf(format[k])
    <3>1. format \in Seq(Letters) /\ 4 \in Nat /\ Len(format) = 4 + 1
      BY <1>1, <2>1
    <3> QED
      BY <3>1, FrontBytes
  <2>3. g[1] = 1 /\ g[2] = 2 /\ g[3] = 3 /\ g[4] = 4
    BY <1>3, <2>1, <2>2
  <2> QED
    BY <1>2, <1>4, <2>2, <2>3 DEF ParamsSize
<1>5. CASE op \in {"IFSW", "IFSWL", "IFUW", "IFUWL"}
  <2>1. /\ Len(format) = 5 /\ format[1] = "N"
        /\ format[2] = "w" /\ format[3] = "w" /\ format[4] = "B"
    BY <1>1, <1>5 DEF IfFormats
  <2>2. PICK g : /\ g[0] = 0 /\ FormatBytes(Front(format)) = g[4]
                 /\ \A k \in 1 .. 4 : g[k] = g[k - 1] + BytesOf(format[k])
    <3>1. format \in Seq(Letters) /\ 4 \in Nat /\ Len(format) = 4 + 1
      BY <1>1, <2>1
    <3> QED
      BY <3>1, FrontBytes
  <2>3. g[1] = 1 /\ g[2] = 3 /\ g[3] = 5 /\ g[4] = 6
    BY <1>3, <2>1, <2>2
  <2> QED
    BY <1>2, <1>5, <2>2, <2>3 DEF ParamsSize
<1>6. CASE op \in {"IFKEYON", "IFKEYOFF", "IFKEY"}
  <2>1. Len(format) = 2 /\ format[1] = "w"
    BY <1>1, <1>6 DEF IfFormats
  <2>2. PICK g : /\ g[0] = 0 /\ FormatBytes(Front(format)) = g[1]
                 /\ \A k \in 1 .. 1 : g[k] = g[k - 1] + BytesOf(format[k])
    BY <1>1, <2>1, FrontBytes
  <2>3. g[1] = 2
    BY <1>3, <2>1, <2>2
  <2> QED
    BY <1>2, <1>6, <2>2, <2>3 DEF ParamsSize
<1>7. CASE op \in {"IFPRTYQ", "IFMEMBQ"}
  <2>1. Len(format) = 2 /\ format[1] = "B"
    BY <1>1, <1>7 DEF IfFormats
  <2>2. PICK g : /\ g[0] = 0 /\ FormatBytes(Front(format)) = g[1]
                 /\ \A k \in 1 .. 1 : g[k] = g[k - 1] + BytesOf(format[k])
    BY <1>1, <2>1, FrontBytes
  <2>3. g[1] = 1
    BY <1>3, <2>1, <2>2
  <2> QED
    BY <1>2, <1>7, <2>2, <2>3 DEF ParamsSize
<1> QED
  BY <1>4, <1>5, <1>6, <1>7 DEF CondJumpOpcodes

----------------------------------------------------------------------------
(***************************************************************************)
(* The layout of a file.                                                   *)
(***************************************************************************)
LEMMA InstructionsTakeBytes ==
  ASSUME NEW op \in DOMAIN FieldFormats \cup KawaiOpcodes, NEW length,
         op \in KawaiOpcodes => length \in Nat \ (0 .. 2)
  PROVE  InstBytes(op, length) \in Nat \ {0}
<1>1. FormatOf(op, length) \in Seq(Letters)
  <2>1. CASE op \in KawaiOpcodes
    <3>1. length - 3 \in Nat
      BY <2>1
    <3>2. KawaiFormat(length) \in Seq(Letters)
      <4> DEFINE n == length - 3
      <4>1. [i \in 1 .. n |-> "B"] \in [1 .. n -> Letters]
        BY DEF Letters
      <4>2. KawaiFormat(length) = [i \in 1 .. n |-> "B"]
        BY DEF KawaiFormat
      <4> HIDE DEF n
      <4> QED
        BY <3>1, <4>1, <4>2, SeqDef DEF n
    <3> QED
      BY <2>1, <3>2 DEF FormatOf
  <2>2. CASE op \notin KawaiOpcodes
    BY <2>2, FieldTable DEF FormatOf, Formats, Valued
  <2> QED
    BY <2>1, <2>2
<1>2. FormatBytes(FormatOf(op, length)) \in Nat
  BY <1>1, BytesAddUp
<1> QED
  BY <1>2 DEF InstBytes

Bytes(inst) == InstBytes(inst.op, inst.length)

LEMMA FieldFacts ==
  ASSUME NEW f, IsField(f)
  PROVE  /\ Len(f.code) \in Nat /\ DOMAIN f.code = 1 .. Len(f.code)
         /\ Len(f.names) \in Nat /\ DOMAIN f.names = 1 .. Len(f.names)
         /\ Len(f.entries) = Len(f.names) /\ DOMAIN f.entries = 1 .. Len(f.names)
         /\ \A i \in 1 .. Len(f.code) :
              /\ Bytes(f.code[i]) \in Nat \ {0}
              /\ IsJumpOp(f.code[i].op) => f.code[i].to \in 1 .. Len(f.code) + 1
              /\ f.code[i].op \in CondJumpOpcodes => i < f.code[i].to
         /\ \A e \in DOMAIN f.entries : \A s \in 1 .. ScriptsPerEntity :
              f.entries[e][s] \in 1 .. Len(f.code) + 1
<1>1. /\ Len(f.code) \in Nat /\ DOMAIN f.code = 1 .. Len(f.code)
      /\ Len(f.names) \in Nat /\ DOMAIN f.names = 1 .. Len(f.names)
  BY DEF IsField
<1>2. /\ Len(f.entries) = Len(f.names) /\ DOMAIN f.entries = 1 .. Len(f.names)
      /\ \A e \in DOMAIN f.entries : f.entries[e] \in [1 .. ScriptsPerEntity -> 1 .. Len(f.code) + 1]
  <2>1. /\ f.entries \in Seq([1 .. ScriptsPerEntity -> 1 .. Len(f.code) + 1])
        /\ Len(f.names) = Len(f.entries)
    BY Zenon DEF IsField
  <2> QED
    BY <1>1, <2>1
<1>3. ASSUME NEW i \in 1 .. Len(f.code)
      PROVE  /\ Bytes(f.code[i]) \in Nat \ {0}
             /\ IsJumpOp(f.code[i].op) => f.code[i].to \in 1 .. Len(f.code) + 1
             /\ f.code[i].op \in CondJumpOpcodes => i < f.code[i].to
  <2>1. /\ f.code[i].op \in DOMAIN FieldFormats \cup KawaiOpcodes
        /\ f.code[i].op \in KawaiOpcodes => f.code[i].length \in Nat \ (0 .. 2)
        /\ IsJumpOp(f.code[i].op) =>
             f.code[i].to \in IF IsBackJump(f.code[i].op) THEN 1 .. i ELSE i + 1 .. Len(f.code) + 1
    BY <1>1 DEF IsField
  <2>2. f.code[i].op \in CondJumpOpcodes => IsJumpOp(f.code[i].op) /\ ~IsBackJump(f.code[i].op)
    BY DEF IsJumpOp, IsBackJump, CondJumpOpcodes
  <2> QED
    BY <1>1, <2>1, <2>2, InstructionsTakeBytes DEF Bytes
<1> QED
  BY <1>1, <1>2, <1>3

\* The instructions of a file lie one behind the other.
LEMMA Layout ==
  ASSUME NEW f, IsField(f)
  PROVE  /\ DOMAIN Offsets(f.code) = 1 .. Len(f.code) + 1
         /\ \A i \in 1 .. Len(f.code) + 1 : Offsets(f.code)[i] \in Nat
         /\ \A i \in 1 .. Len(f.code) :
              Offsets(f.code)[i + 1] = Offsets(f.code)[i] + Bytes(f.code[i])
<1> DEFINE n == Len(f.code)
           size(i) == Bytes(f.code[i])
           G == [k \in 2 .. n + 1 |-> [x \in Nat |-> x + size(k - 1)]]
           Eqn(h) == h = [i \in 1 .. Len(f.code) + 1 |->
                            IF i = 1 THEN 0
                            ELSE h[i - 1] + InstBytes(f.code[i - 1].op, f.code[i - 1].length)]
<1>1. n \in Nat /\ 0 \in Nat /\ \A i \in 1 .. n : size(i) \in Nat
  BY FieldFacts
<1>2. \A h : Eqn(h) <=> h = [i \in 1 .. n + 1 |-> IF i = 1 THEN 0 ELSE h[i - 1] + size(i - 1)]
  BY DEF Bytes
<1> HIDE DEF n, size
<1>3. \A k \in 2 .. n + 1 : k - 1 \in 1 .. n
  BY <1>1
<1>4. \A k \in 1 + 1 .. n + 1 : \A x \in Nat : G[k][x] = x + size(k - 1) /\ G[k][x] \in Nat
  BY <1>1, <1>3
<1>5. Solvable(Nat, 0, 1, n + 1, G)
  <2>1. 1 \in Int /\ n + 1 \in Int /\ 1 <= n + 1
    BY <1>1
  <2> HIDE DEF G
  <2> QED
    BY <2>1, <1>1, <1>4, RecursionBetween
<1> HIDE DEF G
<1>6. PICK g \in [1 .. n + 1 -> Nat] : g[1] = 0 /\ \A k \in 1 + 1 .. n + 1 : g[k] = G[k][g[k - 1]]
  BY <1>5 DEF Solvable
<1>7. Eqn(g)
  <2>1. ASSUME NEW i \in 1 + 1 .. n + 1
        PROVE  g[i] = g[i - 1] + size(i - 1)
    <3>1. g[i - 1] \in Nat
      BY <1>1, <1>6
    <3> QED
      BY <3>1, <1>4, <1>6
  <2>2. \A i \in 1 .. n + 1 : i = 1 \/ i \in 1 + 1 .. n + 1
    BY <1>1
  <2>3. \A i \in 1 .. n + 1 : g[i] = IF i = 1 THEN 0 ELSE g[i - 1] + size(i - 1)
    BY <2>1, <2>2, <1>6
  <2>4. g = [i \in 1 .. n + 1 |-> IF i = 1 THEN 0 ELSE g[i - 1] + size(i - 1)]
    BY <2>3, <1>6
  <2> HIDE DEF Eqn
  <2> QED
    BY <2>4, <1>2
<1> DEFINE at == CHOOSE h : Eqn(h)
<1>8. Offsets(f.code) = at
  BY DEF Offsets
<1>9. Eqn(at)
  <2> HIDE DEF Eqn
  <2> QED
    BY <1>7
<1> HIDE DEF at, Eqn
<1>10. at = [i \in 1 .. n + 1 |-> IF i = 1 THEN 0 ELSE at[i - 1] + size(i - 1)]
  BY <1>2, <1>9
<1>11. DOMAIN at = 1 .. n + 1
  BY <1>10
<1>12. \A i \in 1 .. n + 1 : at[i] = IF i = 1 THEN 0 ELSE at[i - 1] + size(i - 1)
  BY <1>10
<1>13. at[1] = 0
  BY <1>1, <1>12
<1>14. \A i \in 1 .. n : at[i + 1] = at[i] + size(i)
  <2>1. \A i \in 1 .. n : i + 1 \in 1 .. n + 1 /\ i + 1 # 1 /\ (i + 1) - 1 = i
    BY <1>1
  <2> QED
    BY <2>1, <1>12
<1>15. \A i \in 1 .. n + 1 : at[i] \in Nat
  <2>1. \A k \in 1 + 1 .. n + 1 : at[k - 1] \in Nat => at[k] \in Nat
    BY <1>1, <1>3, <1>12
  <2>2. 1 \in Int /\ n + 1 \in Int
    BY <1>1
  <2> QED
    BY <2>1, <2>2, <1>1, <1>13, RecursionTyped
<1> QED
  BY <1>8, <1>11, <1>14, <1>15 DEF n, size

\* None begins before the one ahead of it ends.
LEMMA OffsetsAscend ==
  ASSUME NEW f, IsField(f), NEW i \in 1 .. Len(f.code), NEW j \in 1 .. Len(f.code) + 1, i < j
  PROVE  /\ Offsets(f.code)[i] < Offsets(f.code)[i + 1]
         /\ Offsets(f.code)[i + 1] <= Offsets(f.code)[j]
<1> DEFINE n == Len(f.code)
           size(k) == Bytes(f.code[k])
           at(k) == Offsets(f.code)[k]
<1>1. n \in Nat /\ \A k \in 1 .. n : size(k) \in Nat \ {0}
  BY FieldFacts
<1>2. /\ \A k \in 1 .. n + 1 : at(k) \in Nat
      /\ \A k \in 1 .. n : at(k + 1) = at(k) + size(k)
  BY Layout
<1> DEFINE S == {x \in Int : x >= at(i + 1)}
           h == [k \in i + 1 .. n + 1 |-> at(k)]
<1> HIDE DEF n, size, at
<1>3. i \in 1 .. n /\ i + 1 \in i + 1 .. n + 1
  BY <1>1 DEF n
<1>4. h[i + 1] \in S
  BY <1>1, <1>2, <1>3
<1>5. \A k \in (i + 1) + 1 .. n + 1 : h[k - 1] \in S => h[k] \in S
  <2> TAKE k \in (i + 1) + 1 .. n + 1
  <2>1. k - 1 \in 1 .. n /\ (k - 1) + 1 = k /\ k \in i + 1 .. n + 1 /\ k - 1 \in i + 1 .. n + 1
    BY <1>1, <1>3
  <2>2. at(k) = at(k - 1) + size(k - 1)
    BY <2>1, <1>2
  <2> QED
    BY <2>1, <2>2, <1>1, <1>2, <1>3
<1>6. \A k \in i + 1 .. n + 1 : h[k] \in S
  <2>1. i + 1 \in Int /\ n + 1 \in Int
    BY <1>1, <1>3
  <2> HIDE DEF h, S
  <2> QED
    BY <2>1, <1>4, <1>5, RecursionTyped
<1>7. j \in i + 1 .. n + 1
  BY <1>1 DEF n
<1>8. at(j) >= at(i + 1)
  BY <1>6, <1>7
<1>9. at(i) < at(i + 1)
  BY <1>1, <1>2, <1>3
<1>10. at(i + 1) <= at(j)
  BY <1>2, <1>3, <1>7, <1>8, <1>1
<1> QED
  BY <1>9, <1>10 DEF at

\* What lies where an instruction does.
LEMMA StreamHolds ==
  ASSUME NEW f, IsField(f)
  PROVE  LET at == Offsets(f.code)
             k == kSectionPointersSize
         IN /\ DOMAIN StreamOf(f.code) = {k + at[i] : i \in 1 .. Len(f.code)}
            /\ \A i \in 1 .. Len(f.code) :
                 StreamOf(f.code)[k + at[i]] =
                   Stored(f.code[i], at[i], IF IsJumpOp(f.code[i].op) THEN at[f.code[i].to] ELSE 0)
<1> DEFINE at == Offsets(f.code)
           n == Len(f.code)
           k == kSectionPointersSize
           places == {at[i] : i \in DOMAIN f.code}
           index == [a \in places |-> CHOOSE i \in DOMAIN f.code : at[i] = a]
           holds(p) == LET inst == f.code[index[p - k]]
                       IN Stored(inst, p - k, IF IsJumpOp(inst.op) THEN at[inst.to] ELSE 0)
<1>1. n \in Nat /\ DOMAIN f.code = 1 .. n /\ k \in Nat
  BY FieldFacts, FieldAssumption
<1>2. \A i \in 1 .. n : at[i] \in Nat
  BY <1>1, Layout
<1>3. ASSUME NEW i \in 1 .. n
      PROVE  index[at[i]] = i
  <2>1. ASSUME NEW j \in 1 .. n, at[j] = at[i]
        PROVE  j = i
    <3>1. j \in 1 .. n + 1 /\ i \in 1 .. n + 1 /\ j + 1 \in 1 .. n + 1 /\ i + 1 \in 1 .. n + 1
      BY <1>1
    <3>2. at[j] \in Nat /\ at[i] \in Nat /\ at[j + 1] \in Nat /\ at[i + 1] \in Nat
      BY <3>1, Layout
    <3>3. ~ (j < i) /\ ~ (i < j)
      BY <2>1, <3>1, <3>2, OffsetsAscend
    <3> QED
      BY <3>1, <3>3
  <2> HIDE DEF at
  <2> QED
    BY <2>1, <1>1
<1>4. StreamOf(f.code) = [p \in {k + a : a \in DOMAIN index} |-> holds(p)]
  BY DEF StreamOf
<1>5. {k + a : a \in DOMAIN index} = {k + at[i] : i \in 1 .. n}
  BY <1>1
<1>6. ASSUME NEW i \in 1 .. n
      PROVE  holds(k + at[i]) =
               Stored(f.code[i], at[i], IF IsJumpOp(f.code[i].op) THEN at[f.code[i].to] ELSE 0)
  <2>1. (k + at[i]) - k = at[i]
    BY <1>1, <1>2
  <2> HIDE DEF index, at, k
  <2> QED
    BY <2>1, <1>3
<1> HIDE DEF holds, index, at, n, k
<1>7. DOMAIN StreamOf(f.code) = {k + at[i] : i \in 1 .. n}
  BY <1>4, <1>5
<1>8. ASSUME NEW i \in 1 .. n
      PROVE  StreamOf(f.code)[k + at[i]] = holds(k + at[i])
  BY <1>4, <1>5
<1> QED
  BY <1>6, <1>7, <1>8 DEF at, n, k

(***************************************************************************)
(* What the state says of the layout: from each instruction reading gets   *)
(* to the next, the last one ends where the strings begin, and scripts     *)
(* begin in one of these places.  The header and the stream never change.  *)
(***************************************************************************)
Strings == header.strings + kSectionPointersSize
Places == DOMAIN stream \cup {Strings}
EntryOf(e, s) == header.scripts[e][s]
Slots == 1 .. ScriptsPerEntity
Target(p) == DestAddress(stream[p].op, p, stream[p].distance)

LaidOut ==
  /\ Places \subseteq Nat
  /\ \A p \in DOMAIN stream :
       /\ stream[p].bytes \in Nat \ {0}
       /\ p + stream[p].bytes \in Places
       /\ \A q \in Places : p < q => p + stream[p].bytes <= q
       /\ stream[p].op \in CondJumpOpcodes => Target(p) \in Places /\ p < Target(p)
       /\ p < Strings
  /\ header.strings \in Nat
  /\ Len(header.scripts) \in Nat /\ Entities = 1 .. Len(header.scripts)
  /\ \A e \in Entities : \A s \in Slots :
       EntryOf(e, s) \in Nat /\ EntryOf(e, s) + kSectionPointersSize \in Places

\* An if goes to the instruction its distance was counted to.
LEMMA IfsGoWhereStored ==
  ASSUME NEW op \in CondJumpOpcodes, NEW from \in Int, NEW to \in Int, NEW k \in Int
  PROVE  DestAddress(op, k + from, Distance(op, from, to)) = k + to
<1>1. OperandOffset(op) = ParamsSize(op) /\ ParamsSize(op) \in Nat
  BY OperandsLie
<1>2. Distance(op, from, to) = to - (from + OperandOffset(op))
  BY DEF Distance, IsBackJump, CondJumpOpcodes
<1>3. DestAddress(op, k + from, Distance(op, from, to)) = k + from + Distance(op, from, to) + ParamsSize(op)
  BY DEF DestAddress
<1> QED
  BY <1>1, <1>2, <1>3

LEMMA LaidOutInit == FieldInit => LaidOut
<1> SUFFICES ASSUME NEW f \in Files, header = HeaderOf(f), stream = StreamOf(f.code)
             PROVE  LaidOut
  BY DEF FieldInit
<1> DEFINE at == Offsets(f.code)
           n == Len(f.code)
           k == kSectionPointersSize
           m == Len(f.names)
<1>1. IsField(f) /\ k \in Nat
  BY FieldAssumption
<1>2. /\ n \in Nat
      /\ \A i \in 1 .. n + 1 : at[i] \in Nat
      /\ \A i \in 1 .. n : at[i + 1] = at[i] + Bytes(f.code[i]) /\ Bytes(f.code[i]) \in Nat \ {0}
      /\ \A i \in 1 .. n : IsJumpOp(f.code[i].op) => f.code[i].to \in 1 .. n + 1
      /\ \A i \in 1 .. n : f.code[i].op \in CondJumpOpcodes => i < f.code[i].to
  BY <1>1, FieldFacts, Layout
<1>3. \A i \in 1 .. n : \A j \in 1 .. n + 1 : i < j => at[i] < at[i + 1] /\ at[i + 1] <= at[j]
  BY <1>1, OffsetsAscend
<1>4. header.strings = at[n + 1]
  BY DEF HeaderOf
<1>5. /\ DOMAIN stream = {k + at[i] : i \in 1 .. n}
      /\ \A i \in 1 .. n : stream[k + at[i]] =
           Stored(f.code[i], at[i], IF IsJumpOp(f.code[i].op) THEN at[f.code[i].to] ELSE 0)
  BY <1>1, StreamHolds
<1>6. m \in Nat /\ DOMAIN f.entries = 1 .. m
      /\ \A e \in 1 .. m : \A s \in Slots : f.entries[e][s] \in 1 .. n + 1
  BY <1>1, FieldFacts DEF Slots
<1>7. header.scripts = [e \in 1 .. m |-> [s \in Slots |-> at[f.entries[e][s]]]]
  BY <1>6 DEF HeaderOf, Slots
<1>8. \A i \in 1 .. n : f.code[i].op \in DOMAIN FieldFormats \cup KawaiOpcodes
  BY <1>1, FieldFacts DEF IsField
<1> HIDE DEF at, n, m, k
<1>9. Places = {k + at[i] : i \in 1 .. n + 1}
  <2>1. Strings = k + at[n + 1]
    BY <1>1, <1>2, <1>4 DEF Strings, k
  <2>2. \A i \in 1 .. n + 1 : i \in 1 .. n \/ i = n + 1
    BY <1>2
  <2> QED
    BY <2>1, <2>2, <1>2, <1>5 DEF Places
<1>10. \A inst, from, to :
         /\ Stored(inst, from, to).bytes = Bytes(inst)
         /\ Stored(inst, from, to).op = inst.op
         /\ IsJumpOp(inst.op) => Stored(inst, from, to).distance = Distance(inst.op, from, to)
  BY DEF Stored, Bytes
<1>11. Places \subseteq Nat /\ header.strings \in Nat
  BY <1>1, <1>2, <1>4, <1>9
<1>12. ASSUME NEW p \in DOMAIN stream
       PROVE  /\ stream[p].bytes \in Nat \ {0}
              /\ p + stream[p].bytes \in Places
              /\ \A q \in Places : p < q => p + stream[p].bytes <= q
              /\ stream[p].op \in CondJumpOpcodes => Target(p) \in Places /\ p < Target(p)
              /\ p < Strings
  <2>1. PICK i \in 1 .. n : p = k + at[i]
    BY <1>5
  <2>2. /\ stream[p].bytes = Bytes(f.code[i])
        /\ stream[p].op = f.code[i].op
    BY <2>1, <1>5, <1>10
  <2>3. i + 1 \in 1 .. n + 1 /\ at[i] \in Nat /\ at[i + 1] \in Nat
    BY <1>2
  <2>4. p + stream[p].bytes = k + at[i + 1]
    BY <2>1, <2>2, <2>3, <1>1, <1>2
  <2>5. ASSUME NEW q \in Places, p < q
        PROVE  p + stream[p].bytes <= q
    <3>1. PICK j \in 1 .. n + 1 : q = k + at[j]
      BY <1>9
    <3>2. i < j
      <4>1. at[j] \in Nat /\ at[i] < at[j]
        BY <2>1, <2>3, <2>5, <3>1, <1>1, <1>2
      <4>2. ASSUME j < i
            PROVE  FALSE
        <5>1. j \in 1 .. n /\ j + 1 \in 1 .. n + 1
          BY <4>2, <1>2
        <5>2. at[j] < at[j + 1] /\ at[j + 1] <= at[i] /\ at[j + 1] \in Nat
          BY <4>2, <5>1, <1>2, <1>3
        <5> QED
          BY <4>1, <5>2, <2>3
      <4> QED
        BY <4>1, <4>2, <1>2
    <3>3. at[i + 1] <= at[j] /\ at[j] \in Nat
      BY <3>2, <1>2, <1>3
    <3> QED
      BY <2>3, <2>4, <3>1, <3>3, <1>1
  <2>6. stream[p].op \in CondJumpOpcodes => Target(p) \in Places /\ p < Target(p)
    <3> SUFFICES ASSUME stream[p].op \in CondJumpOpcodes
                 PROVE  Target(p) \in Places /\ p < Target(p)
      OBVIOUS
    <3> DEFINE j == f.code[i].to
    <3>1. IsJumpOp(f.code[i].op) /\ j \in 1 .. n + 1 /\ i < j
      BY <2>2, <1>2 DEF IsJumpOp
    <3>2. stream[p].distance = Distance(f.code[i].op, at[i], at[j])
      BY <2>1, <3>1, <1>5, <1>10
    <3>3. at[i] \in Int /\ at[j] \in Int /\ k \in Int
      BY <1>1, <1>2, <3>1
    <3> HIDE DEF j
    <3>4. Target(p) = k + at[j]
      BY <2>1, <2>2, <3>2, <3>3, IfsGoWhereStored DEF Target
    <3>5. at[i] < at[j]
      <4>1. at[i] < at[i + 1] /\ at[i + 1] <= at[j] /\ at[i + 1] \in Int
        BY <3>1, <1>3, <1>2
      <4> QED
        BY <4>1, <3>3
    <3> QED
      BY <2>1, <3>1, <3>3, <3>4, <3>5, <1>9
  <2>7. p < Strings
    <3>1. at[i] < at[i + 1] /\ at[i + 1] <= at[n + 1] /\ n + 1 \in 1 .. n + 1
      BY <1>2, <1>3
    <3>2. at[i] < at[n + 1]
      BY <3>1, <2>3, <1>2
    <3> QED
      BY <2>1, <2>3, <3>1, <3>2, <1>1, <1>2, <1>4 DEF Strings, k
  <2> QED
    BY <2>2, <2>3, <2>4, <2>5, <2>6, <2>7, <1>2, <1>9
<1>13. Len(header.scripts) = m /\ Entities = 1 .. m
  BY <1>6, <1>7 DEF Entities
<1>14. \A e \in 1 .. m : \A s \in Slots :
         EntryOf(e, s) \in Nat /\ EntryOf(e, s) + kSectionPointersSize \in Places
  <2> SUFFICES ASSUME NEW e \in 1 .. m, NEW s \in Slots
               PROVE  EntryOf(e, s) \in Nat /\ EntryOf(e, s) + kSectionPointersSize \in Places
    OBVIOUS
  <2>1. EntryOf(e, s) = at[f.entries[e][s]] /\ f.entries[e][s] \in 1 .. n + 1
    BY <1>6, <1>7 DEF EntryOf
  <2>2. at[f.entries[e][s]] + k = k + at[f.entries[e][s]]
    BY <2>1, <1>1, <1>2
  <2> QED
    BY <2>1, <2>2, <1>2, <1>9 DEF k
<1> QED
  BY <1>6, <1>11, <1>12, <1>13, <1>14 DEF LaidOut

\* Places follow one another.
LEMMA NextPlace ==
  ASSUME LaidOut, NEW p \in Places, NEW q \in Places, p < q
  PROVE  /\ p \in DOMAIN stream
         /\ stream[p].bytes \in Nat \ {0}
         /\ p + stream[p].bytes \in Places
         /\ p < p + stream[p].bytes /\ p + stream[p].bytes <= q
<1>1. p \in Nat /\ q \in Nat /\ q <= Strings
  <2>1. Places \subseteq Nat /\ \A r \in DOMAIN stream : r < Strings
    BY DEF LaidOut
  <2>2. Strings \in Places /\ (q \in DOMAIN stream \/ q = Strings)
    BY DEF Places
  <2> QED
    BY <2>1, <2>2
<1>2. p # Strings
  BY <1>1
<1> QED
  BY <1>1, <1>2 DEF LaidOut, Places

----------------------------------------------------------------------------
(***************************************************************************)
(* The scripts of all entities in one row, and where each of them ends.    *)
(***************************************************************************)
LEMMA LeastOf ==
  ASSUME NEW T, T \subseteq Nat, T # {}
  PROVE  Min(T) \in T /\ \A m \in T : Min(T) <= m
<1>1. \E n \in T : \A m \in T : n <= m
  BY LeastNatural
<1> QED
  BY <1>1 DEF Min

LEMMA ScriptOrder ==
  ASSUME NEW e \in Int, NEW f \in Int, NEW s \in Slots, NEW t \in Slots
  PROVE  /\ NthScript(e, s) \in Int
         /\ NthScript(e, s) < NthScript(f, t) <=> e < f \/ (e = f /\ s < t)
<1> DEFINE w == ScriptsPerEntity
           P == \A x, y \in Int : x < y => x * w + w <= y * w
<1>1. w \in Nat \ {0} /\ s \in 1 .. w /\ t \in 1 .. w
  BY FieldAssumption DEF Slots
<1> HIDE DEF w
<1>2. ASSUME NEW x \in Int, NEW y \in Int, x < y
      PROVE  x * w + w <= y * w
  <2>1. y - x \in Nat /\ y - x >= 1
    BY <1>2
  <2>2. (y - x) * w >= w
    BY <2>1, <1>1, SMT
  <2>3. (y - x) * w = y * w - x * w
    BY <1>1, SMT
  <2> QED
    BY <2>2, <2>3, <1>1, SMT
<1>3. (e - 1) * w \in Int /\ (f - 1) * w \in Int
  BY <1>1, SMT
<1>4. NthScript(e, s) = (e - 1) * w + s /\ NthScript(f, t) = (f - 1) * w + t
  BY DEF NthScript, w
<1> DEFINE a == (e - 1) * w
           b == (f - 1) * w
<1>5. /\ e < f => a + w <= b
      /\ f < e => b + w <= a
      /\ e = f => a = b
  BY <1>2
<1> HIDE DEF a, b
<1>6. a \in Int /\ b \in Int /\ NthScript(e, s) = a + s /\ NthScript(f, t) = b + t
  BY <1>3, <1>4 DEF a, b
<1> QED
  BY <1>1, <1>5, <1>6

LEMMA EntryPoints ==
  ASSUME LaidOut, NEW e \in Entities, NEW s \in Slots
  PROVE  /\ NthScript(e, s) \in 1 .. Len(header.scripts) * ScriptsPerEntity
         /\ EntryPoint(NthScript(e, s)) = EntryOf(e, s)
<1> DEFINE w == ScriptsPerEntity
           n == Len(header.scripts)
           k == NthScript(e, s)
           q == (k - 1) \div w
           r == (k - 1) % w
<1>1. w \in Nat \ {0} /\ s \in 1 .. w /\ n \in Nat /\ e \in 1 .. n
  BY FieldAssumption DEF Slots, LaidOut
<1>2. k = (e - 1) * w + s
  BY DEF NthScript
<1> HIDE DEF w, n
<1>3. (e - 1) * w \in Nat /\ (e - 1) * w + w <= n * w /\ n * w \in Nat
  <2>1. n - e \in Nat /\ (n - e) * w \in Nat
    BY <1>1, SMT
  <2>2. (n - e) * w = n * w - ((e - 1) * w + w) /\ (e - 1) * w \in Nat /\ n * w \in Nat
    BY <1>1, SMT
  <2> QED
    BY <2>1, <2>2, <1>1
<1>4. k \in Nat /\ k - 1 \in Nat /\ k <= n * w /\ k >= 1 /\ k \in Int
  BY <1>1, <1>2, <1>3
<1>5. q \in Int /\ r \in 0 .. w - 1 /\ k - 1 = w * q + r
  <2> HIDE DEF k
  <2> QED
    BY <1>1, <1>4, Divided
<1> HIDE DEF k, q, r
<1>6. q = e - 1 /\ r = s - 1
  <2>1. w * q + r = w * (e - 1) + (s - 1)
    BY <1>1, <1>2, <1>5, SMT
  <2>2. q - (e - 1) \in Int /\ w * (q - (e - 1)) = (s - 1) - r
    BY <2>1, <1>1, <1>5, SMT
  <2>3. (s - 1) - r < w /\ r - (s - 1) < w
    BY <1>1, <1>5
  <2> DEFINE d == q - (e - 1)
  <2>4. ~ (d >= 1)
    <3> SUFFICES ASSUME d >= 1 PROVE FALSE
      OBVIOUS
    <3>1. w * d >= w
      <4> HIDE DEF d
      <4> QED
        BY <1>1, <2>2, SMT DEF d
    <3> QED
      BY <3>1, <2>2, <2>3, <1>1, <1>5
  <2>5. ~ (d <= -1)
    <3> SUFFICES ASSUME d <= -1 PROVE FALSE
      OBVIOUS
    <3>1. w * d <= -w
      <4> HIDE DEF d
      <4> QED
        BY <1>1, <2>2, SMT DEF d
    <3> QED
      BY <3>1, <2>2, <2>3, <1>1, <1>5
  <2>6. d = 0
    BY <2>2, <2>4, <2>5
  <2>7. q = e - 1
    BY <2>6, <1>1, <1>5
  <2> QED
    BY <2>1, <2>7, <1>1, <1>5, SMT
<1>7. EntryPoint(k) = header.scripts[q + 1][r + 1]
  BY DEF EntryPoint, q, r, w
<1> QED
  BY <1>1, <1>4, <1>6, <1>7 DEF EntryOf, k, n, w

LEMMA EveryEntryPoint ==
  ASSUME LaidOut, NEW k \in 1 .. Len(header.scripts) * ScriptsPerEntity
  PROVE  \E e \in Entities : \E s \in Slots : k = NthScript(e, s)
<1> DEFINE w == ScriptsPerEntity
           n == Len(header.scripts)
           q == (k - 1) \div w
           r == (k - 1) % w
<1>1. w \in Nat \ {0} /\ n \in Nat /\ Entities = 1 .. n /\ Slots = 1 .. w
  BY FieldAssumption DEF Slots, LaidOut
<1> HIDE DEF n, w
<1>2. k \in 1 .. n * w /\ n * w \in Nat
  BY <1>1, SMT DEF n, w
<1>3. q \in Int /\ r \in 0 .. w - 1 /\ k - 1 = w * q + r
  BY <1>1, <1>2, Divided
<1> HIDE DEF q, r
<1>4. q >= 0
  <2> SUFFICES ASSUME q <= -1 PROVE FALSE
    BY <1>3
  <2>1. w * q <= -w
    BY <1>1, <1>3, SMT
  <2> QED
    BY <2>1, <1>1, <1>2, <1>3
<1>5. q < n
  <2> SUFFICES ASSUME q >= n PROVE FALSE
    BY <1>1, <1>3
  <2>1. q - n \in Nat /\ w * (q - n) >= 0
    BY <1>1, <1>3, SMT
  <2>2. w * (q - n) = w * q - n * w
    BY <1>1, <1>3, SMT
  <2> QED
    BY <2>1, <2>2, <1>1, <1>2, <1>3
<1>6. k = NthScript(q + 1, r + 1)
  BY <1>1, <1>2, <1>3, SMT DEF NthScript, w
<1>7. q + 1 \in 1 .. n /\ r + 1 \in 1 .. w
  BY <1>1, <1>3, <1>4, <1>5
<1> QED
  BY <1>1, <1>6, <1>7

Later(e, s) ==
  {k \in NthScript(e, s) + 1 .. Len(header.scripts) * ScriptsPerEntity :
     EntryPoint(k) # EntryPoint(NthScript(e, s))}

LEMMA EndOfScriptIs ==
  ASSUME LaidOut, NEW e \in Entities, NEW s \in Slots
  PROVE  \/ Later(e, s) = {} /\ EndOfScript(e, s) = header.strings
         \/ \E f \in Entities : \E t \in Slots :
              /\ EndOfScript(e, s) = EntryOf(f, t) /\ EntryOf(f, t) # EntryOf(e, s)
              /\ e < f \/ (e = f /\ s < t)
              /\ \A k \in Later(e, s) : NthScript(f, t) <= k
<1> DEFINE k == NthScript(e, s)
           n == Len(header.scripts) * ScriptsPerEntity
<1>1. k \in 1 .. n /\ EntryPoint(k) = EntryOf(e, s)
  BY EntryPoints
<1>2. EndOfScript(e, s) = IF Later(e, s) = {} THEN header.strings ELSE EntryPoint(Min(Later(e, s)))
  BY DEF EndOfScript, Later
<1>3. CASE Later(e, s) = {}
  BY <1>2, <1>3
<1>4. CASE Later(e, s) # {}
  <2> DEFINE j == Min(Later(e, s))
  <2>1. Later(e, s) \subseteq Nat
    BY <1>1 DEF Later
  <2>2. j \in Later(e, s) /\ \A m \in Later(e, s) : j <= m
    <3> HIDE DEF j
    <3> QED
      BY <1>4, <2>1, LeastOf DEF j
  <2> HIDE DEF j
  <2>3. j \in k + 1 .. n /\ EntryPoint(j) # EntryPoint(k)
    BY <2>2 DEF Later
  <2>4. PICK f \in Entities, t \in Slots : j = NthScript(f, t)
    <3>1. j \in 1 .. n
      BY <1>1, <2>3
    <3> QED
      BY <3>1, EveryEntryPoint
  <2>5. EntryPoint(j) = EntryOf(f, t)
    BY <2>4, EntryPoints
  <2>6. k < j /\ e \in Int /\ f \in Int
    BY <1>1, <2>3 DEF LaidOut
  <2>7. e < f \/ (e = f /\ s < t)
    BY <2>4, <2>6, ScriptOrder
  <2> QED
    BY <1>1, <1>2, <1>4, <2>2, <2>3, <2>4, <2>5, <2>7 DEF j
<1> QED
  BY <1>3, <1>4

LEMMA EndIsPlace ==
  ASSUME LaidOut, NEW e \in Entities, NEW s \in Slots
  PROVE  EndOfScript(e, s) \in Nat /\ EndOfScript(e, s) + kSectionPointersSize \in Places
<1>1. header.strings \in Nat /\ header.strings + kSectionPointersSize \in Places
  BY DEF LaidOut, Places, Strings
<1> QED
  BY <1>1, EndOfScriptIs DEF LaidOut

\* Entry points in order: a script that has bytes ends behind its start, and no later
\* than a script behind it begins that begins elsewhere.
LEMMA EndInOrder ==
  ASSUME LaidOut, Ordered, NEW e \in Entities, NEW s \in Slots
  PROVE  /\ EndOfScript(e, s) # EntryOf(e, s) => EntryOf(e, s) < EndOfScript(e, s)
         /\ \A f \in Entities : \A t \in Slots :
              (e < f \/ (e = f /\ s < t)) /\ EntryOf(f, t) # EntryOf(e, s)
                => EndOfScript(e, s) <= EntryOf(f, t)
<1>1. ASSUME NEW f \in Entities, NEW g \in Entities, NEW t \in Slots, NEW u \in Slots,
             f < g \/ (f = g /\ t < u)
      PROVE  EntryOf(f, t) <= EntryOf(g, u)
  <2>1. EntryOf(f, t) \in Nat /\ EntryOf(g, u) \in Nat
    BY DEF LaidOut
  <2>2. /\ f < g => EntryOf(f, t) < EntryOf(g, u)
        /\ f = g /\ t < u => EntryOf(f, t) <= EntryOf(g, u)
    BY DEF Ordered, EntryOf, Slots
  <2> QED
    BY <1>1, <2>1, <2>2
<1>2. ASSUME EndOfScript(e, s) # EntryOf(e, s)
      PROVE  EntryOf(e, s) < EndOfScript(e, s)
  <2>1. EntryOf(e, s) \in Nat /\ EndOfScript(e, s) \in Nat
    BY EndIsPlace DEF LaidOut
  <2>2. CASE EndOfScript(e, s) = header.strings
    <3>1. EntryOf(e, s) + kSectionPointersSize \in Places
      BY DEF LaidOut
    <3>2. EntryOf(e, s) + kSectionPointersSize <= Strings
      <4>1. \A p \in DOMAIN stream : p < Strings
        BY DEF LaidOut
      <4>2. Strings \in Nat /\ EntryOf(e, s) + kSectionPointersSize \in Nat
        BY <3>1 DEF LaidOut, Places
      <4> QED
        BY <3>1, <4>1, <4>2 DEF Places
    <3> QED
      BY <1>2, <2>1, <2>2, <3>2, FieldAssumption DEF Strings
  <2>3. CASE EndOfScript(e, s) # header.strings
    <3>1. PICK f \in Entities, t \in Slots :
            /\ EndOfScript(e, s) = EntryOf(f, t)
            /\ e < f \/ (e = f /\ s < t)
      BY <2>3, EndOfScriptIs
    <3>2. EntryOf(e, s) <= EntryOf(f, t)
      BY <3>1, <1>1
    <3> QED
      BY <1>2, <2>1, <3>1, <3>2
  <2> QED
    BY <2>2, <2>3
<1>3. ASSUME NEW f \in Entities, NEW t \in Slots, e < f \/ (e = f /\ s < t),
             EntryOf(f, t) # EntryOf(e, s)
      PROVE  EndOfScript(e, s) <= EntryOf(f, t)
  <2>1. e \in Int /\ f \in Int
    BY DEF LaidOut
  <2>2. NthScript(f, t) \in Later(e, s)
    <3>1. NthScript(e, s) < NthScript(f, t) /\ NthScript(e, s) \in Int
      BY <1>3, <2>1, ScriptOrder
    <3>2. NthScript(f, t) \in 1 .. Len(header.scripts) * ScriptsPerEntity
          /\ EntryPoint(NthScript(f, t)) = EntryOf(f, t)
          /\ EntryPoint(NthScript(e, s)) = EntryOf(e, s)
      BY EntryPoints
    <3> QED
      BY <1>3, <3>1, <3>2 DEF Later
  <2>3. PICK g \in Entities, u \in Slots :
          /\ EndOfScript(e, s) = EntryOf(g, u)
          /\ \A k \in Later(e, s) : NthScript(g, u) <= k
    BY <2>2, EndOfScriptIs
  <2>4. g \in Int /\ NthScript(g, u) <= NthScript(f, t)
    BY <2>2, <2>3 DEF LaidOut
  <2>5. ~ (f < g \/ (f = g /\ t < u))
    BY <2>1, <2>4, ScriptOrder
  <2>6. g < f \/ (g = f /\ u < t) \/ (g = f /\ u = t)
    BY <2>1, <2>4, <2>5 DEF Slots
  <2>7. EntryOf(g, u) \in Nat /\ EntryOf(f, t) \in Nat
    BY DEF LaidOut
  <2> QED
    BY <2>3, <2>6, <2>7, <1>1
<1> QED
  BY <1>2, <1>3

----------------------------------------------------------------------------
(***************************************************************************)
(* Types.  What reading keeps: it goes on from one place of the layout to  *)
(* the next, and ends in one.                                              *)
(***************************************************************************)
Placed(x) == x \in Nat /\ x + kSectionPointersSize \in Places
IsSequence(s) == s \in Seq(ToSet(s))
Reading == phase \in {"read", "returned"}

ScriptsPlaced ==
  /\ entity \in 0 .. Len(header.scripts)
  /\ scriptInfo # {} \/ Reading => entity # 0
  /\ \A r \in scriptInfo : r.index \in Nat /\ Placed(r.entry) /\ Placed(r.next)

FramePlaced ==
  /\ frame = NoFrame \/ frame.entity \in Entities
  /\ Reading => /\ frame.entity \in Entities
                /\ frame.start \in Places /\ frame.end \in Places
                /\ frame.oldNum \in 0 .. Len(insts)
                /\ position \in Places
  /\ position \in Nat

InstsPlaced ==
  /\ exitAddrs \in Seq(Int)
  /\ IsSequence(insts)
  /\ \A i \in DOMAIN insts : insts[i].address \in DOMAIN stream

FunctionsCounted ==
  /\ IsFiniteSet(DOMAIN functions)
  /\ \A a \in DOMAIN functions :
       a \in Nat /\ functions[a].num \in Nat /\ functions[a].end \in Nat
  /\ generated \subseteq DOMAIN functions
  /\ DOMAIN entityFunctions \subseteq Entities

FieldInv ==
  /\ phase \in {"scripts", "read", "returned", "graph", "generate", "done",
               "failed", "undefined"}
  /\ LaidOut /\ ScriptsPlaced /\ FramePlaced /\ InstsPlaced /\ FunctionsCounted

LEMMA Appended ==
  ASSUME NEW s, IsSequence(s), NEW x
  PROVE  /\ IsSequence(Append(s, x))
         /\ Len(s) \in Nat /\ DOMAIN s = 1 .. Len(s)
         /\ Len(Append(s, x)) = Len(s) + 1 /\ DOMAIN Append(s, x) = 1 .. Len(s) + 1
         /\ \A i \in DOMAIN s : Append(s, x)[i] = s[i]
         /\ Append(s, x)[Len(s) + 1] = x
<1> DEFINE S == ToSet(s) \cup {x}
           t == Append(s, x)
<1>1. s \in Seq(S) /\ x \in S
  BY DEF IsSequence
<1>2. Len(s) \in Nat /\ DOMAIN s = 1 .. Len(s)
  BY <1>1
<1>3. /\ t \in Seq(S) /\ Len(t) = Len(s) + 1
      /\ \A i \in 1 .. Len(s) : t[i] = s[i]
      /\ t[Len(s) + 1] = x
  <2> HIDE DEF S
  <2> QED
    BY <1>1, AppendProperties
<1> HIDE DEF t
<1>4. DOMAIN t = 1 .. Len(s) + 1
  BY <1>2, <1>3
<1>5. t \in Seq(ToSet(t))
  <2>1. \A i \in 1 .. Len(t) : t[i] \in ToSet(t)
    BY <1>2, <1>3, <1>4 DEF ToSet
  <2> QED
    BY <1>3, <2>1
<1> QED
  BY <1>2, <1>3, <1>4, <1>5 DEF IsSequence, t

\* Handlers change neither the header nor the stream.
LEMMA LayoutKept ==
  ASSUME UNCHANGED <<header, stream>>
  PROVE  /\ LaidOut => LaidOut'
         /\ Places' = Places /\ Strings' = Strings /\ Entities' = Entities
         /\ \A x : Placed(x)' <=> Placed(x)
BY DEF LaidOut, Places, Strings, Entities, Placed, EntryOf, Target

\* What is read of an entity.
LEMMA ScriptInfosAre ==
  ASSUME LaidOut, NEW e \in Entities, NEW r \in ScriptInfos(e)
  PROVE  \E s \in Slots : /\ r.index = s - 1
                          /\ r.entry = EntryOf(e, s) /\ r.next = EndOfScript(e, s)
                          /\ EndOfScript(e, s) # EntryOf(e, s)
                          /\ \A t \in 1 .. s - 1 : EntryOf(e, t) # EntryOf(e, s)
<1> DEFINE entry == header.scripts[e]
           First(s) == \A t \in 1 .. s - 1 : entry[t] # entry[s]
           kept == {s \in 1 .. ScriptsPerEntity : First(s) /\ EndOfScript(e, s) # entry[s]}
           info(s) == [index |-> s - 1, entry |-> entry[s], next |-> EndOfScript(e, s),
                       isStart |-> s = Min(kept), isEnd |-> s = Max(kept)]
<1>1. ScriptInfos(e) = {info(s) : s \in kept}
  BY DEF ScriptInfos
<1>2. PICK s \in kept : r = info(s)
  <2> HIDE DEF info, kept
  <2> QED
    BY <1>1
<1>3. r.index = s - 1 /\ r.entry = entry[s] /\ r.next = EndOfScript(e, s)
  <2> HIDE DEF kept, entry
  <2> QED
    BY <1>2
<1>4. s \in Slots /\ First(s) /\ EndOfScript(e, s) # entry[s]
  BY DEF Slots
<1> QED
  BY <1>3, <1>4 DEF EntryOf

LEMMA ScriptsArePlaced ==
  ASSUME LaidOut, NEW e \in Entities, NEW r \in ScriptInfos(e)
  PROVE  r.index \in Nat /\ Placed(r.entry) /\ Placed(r.next)
<1>1. PICK s \in Slots : r.index = s - 1 /\ r.entry = EntryOf(e, s) /\ r.next = EndOfScript(e, s)
  BY ScriptInfosAre
<1>2. s - 1 \in Nat
  BY FieldAssumption DEF Slots
<1> QED
  BY <1>1, <1>2, EndIsPlace DEF LaidOut, Placed

LEMMA NextScriptIs ==
  ASSUME scriptInfo # {}, \A r \in scriptInfo : r.index \in Nat
  PROVE  NextScript \in scriptInfo /\ \A r \in scriptInfo : NextScript.index <= r.index
<1> DEFINE T == {r.index : r \in scriptInfo}
<1>1. T \subseteq Nat /\ T # {}
  OBVIOUS
<1>2. PICK n \in T : \A m \in T : n <= m
  <2> HIDE DEF T
  <2> QED
    BY <1>1, LeastNatural
<1>3. PICK s \in scriptInfo : n = s.index
  OBVIOUS
<1>4. \A r \in scriptInfo : s.index <= r.index
  BY <1>2, <1>3
<1> QED
  BY <1>4 DEF NextScript

LEMMA InvInit == CodeInit => FieldInv
<1> SUFFICES ASSUME CodeInit PROVE FieldInv
  OBVIOUS
<1>1. LaidOut
  BY LaidOutInit DEF CodeInit
<1>2. Len(header.scripts) \in Nat
  BY <1>1 DEF LaidOut
<1>3. IsSequence(insts)
  BY DEF CodeInit, FieldInit, IsSequence
<1>4. DOMAIN functions = {} /\ DOMAIN entityFunctions = {} /\ IsFiniteSet({})
  BY FS_EmptySet DEF CodeInit, FieldInit
<1> QED
  BY <1>1, <1>2, <1>3, <1>4
  DEF CodeInit, FieldInit, FieldInv, ScriptsPlaced, FramePlaced, InstsPlaced, FunctionsCounted, Reading

LEMMA NextEntityInv == FieldInv /\ NextEntity /\ UNCHANGED <<generated, lines>> => FieldInv'
<1> SUFFICES ASSUME FieldInv, NextEntity, UNCHANGED <<generated, lines>> PROVE FieldInv'
  OBVIOUS
<1>1. UNCHANGED <<header, stream>> /\ phase = "scripts"
  BY DEF NextEntity
<1>2. /\ LaidOut' /\ Places' = Places /\ Entities' = Entities /\ \A x : Placed(x)' <=> Placed(x)
  BY <1>1, LayoutKept DEF FieldInv
<1>3. /\ Len(header.scripts) \in Nat /\ Entities = 1 .. Len(header.scripts)
      /\ entity \in 0 .. Len(header.scripts)
  BY DEF FieldInv, LaidOut, ScriptsPlaced
<1>4. ~Reading /\ ~Reading'
  BY <1>1 DEF NextEntity, Reading
<1>5. ScriptsPlaced'
  <2>1. CASE entity < Len(header.scripts)
    <3>1. entity' = entity + 1 /\ scriptInfo' = ScriptInfos(entity + 1)
      BY <2>1 DEF NextEntity
    <3>2. entity + 1 \in Entities
      BY <1>3, <2>1
    <3>3. \A r \in scriptInfo' : r.index \in Nat /\ Placed(r.entry) /\ Placed(r.next)
      BY <3>1, <3>2, ScriptsArePlaced DEF FieldInv
    <3> QED
      BY <1>1, <1>2, <1>3, <3>1, <3>2, <3>3 DEF ScriptsPlaced
  <2>2. CASE ~ (entity < Len(header.scripts))
    BY <1>1, <1>2, <1>4, <2>2 DEF NextEntity, FieldInv, ScriptsPlaced
  <2> QED
    BY <2>1, <2>2
<1>6. FramePlaced' /\ InstsPlaced' /\ FunctionsCounted'
  BY <1>1, <1>2, <1>4 DEF NextEntity, FieldInv, FramePlaced, InstsPlaced, FunctionsCounted
<1> QED
  BY <1>2, <1>5, <1>6 DEF NextEntity, FieldInv

LEMMA StartScriptInv == FieldInv /\ StartScript /\ UNCHANGED <<generated, lines>> => FieldInv'
<1> SUFFICES ASSUME FieldInv, StartScript, UNCHANGED <<generated, lines>> PROVE FieldInv'
  OBVIOUS
<1> DEFINE s == NextScript
<1>1. UNCHANGED <<header, stream>>
  BY DEF StartScript
<1>2. /\ LaidOut' /\ Places' = Places /\ Entities' = Entities /\ \A x : Placed(x)' <=> Placed(x)
  BY <1>1, LayoutKept DEF FieldInv
<1>3. /\ s \in scriptInfo /\ Placed(s.entry) /\ Placed(s.next)
  BY NextScriptIs DEF FieldInv, ScriptsPlaced, StartScript
<1>4. entity \in Entities /\ entity' = entity
  BY DEF FieldInv, LaidOut, ScriptsPlaced, StartScript
<1>5. Len(insts) \in Nat
  BY DEF FieldInv, InstsPlaced, IsSequence
<1>6. ScriptsPlaced'
  BY <1>1, <1>2, <1>4 DEF StartScript, FieldInv, ScriptsPlaced, LaidOut
<1>7. FramePlaced'
  <2>1. /\ position' = s.entry + kSectionPointersSize
        /\ frame' = Frame(s.index, s.next + kSectionPointersSize, s.isStart, s.isEnd,
                          FunctionName(s.index), s.index = 0, s.entry + kSectionPointersSize)
        /\ insts' = insts
    BY DEF StartScript
  <2>2. /\ frame'.entity = entity /\ frame'.start = position' /\ frame'.oldNum = Len(insts)
        /\ frame'.end = s.next + kSectionPointersSize
    BY <2>1 DEF Frame
  <2>3. position' \in Places /\ position' \in Nat
    BY <2>1, <1>3, FieldAssumption DEF Placed
  <2> QED
    BY <1>2, <1>3, <1>4, <1>5, <2>1, <2>2, <2>3 DEF FramePlaced, Placed
<1>8. InstsPlaced' /\ FunctionsCounted'
  BY <1>1, <1>2 DEF StartScript, FieldInv, InstsPlaced, FunctionsCounted
<1> QED
  BY <1>2, <1>6, <1>7, <1>8 DEF StartScript, FieldInv

\* The next instruction lies in the stream, and ends in the place of the next one.
LEMMA ReadIs ==
  ASSUME FieldInv, ReadInstruction
  PROVE  /\ phase = "read" /\ phase' \in {"read", "returned"} /\ Reading /\ Reading'
         /\ position \in DOMAIN stream /\ position' = position + stream[position].bytes
         /\ position \in Places /\ frame.end \in Places
         /\ position' \in Places /\ position < position' /\ position' <= frame.end
         /\ position' \in Nat
         /\ \E inst : /\ insts' = Append(insts, inst) /\ exitAddrs' = TrackExits(exitAddrs, inst)
                      /\ inst.address = position /\ inst.op = stream[position].op
                      /\ inst.op \in CondJumpOpcodes => /\ inst.dest = Target(position)
                                                       /\ inst.dest \in Places
                                                       /\ inst.dest \in Int
                                                       /\ position < inst.dest
<1>1. phase = "read" /\ Reading /\ position < frame.end
  BY DEF ReadInstruction, Reading
<1>2. position \in Places /\ frame.end \in Places /\ position \in Nat
  BY <1>1 DEF FieldInv, FramePlaced
<1>3. LaidOut
  BY DEF FieldInv
<1>4. position' = position + stream[position].bytes
  BY DEF ReadInstruction
<1>5. /\ position \in DOMAIN stream
      /\ position' \in Places /\ position < position' /\ position' <= frame.end
  BY <1>1, <1>2, <1>3, <1>4, NextPlace
<1>6. phase' \in {"read", "returned"} /\ Reading'
  BY <1>1 DEF ReadInstruction, Reading
<1>7. position' \in Nat
  BY <1>3, <1>5 DEF LaidOut
<1> DEFINE s == stream[position]
           i == [op |-> s.op, address |-> position, val |-> s.val, to |-> s.to,
                 dest |-> IF IsJumpOp(s.op) THEN DestAddress(s.op, position, s.distance) ELSE 0]
<1>8. insts' = Append(insts, i) /\ exitAddrs' = TrackExits(exitAddrs, i)
  BY DEF ReadInstruction
<1>9. i.address = position /\ i.op = s.op
  OBVIOUS
<1>10. i.op \in CondJumpOpcodes => /\ i.dest = Target(position)
                                   /\ i.dest \in Places
                                   /\ i.dest \in Int
                                   /\ position < i.dest
  <2> SUFFICES ASSUME s.op \in CondJumpOpcodes
               PROVE  /\ i.dest = Target(position) /\ i.dest \in Places
                      /\ i.dest \in Int /\ position < i.dest
    OBVIOUS
  <2>1. i.dest = Target(position)
    BY DEF IsJumpOp, Target
  <2>2. Target(position) \in Places /\ position < Target(position) /\ Places \subseteq Nat
    BY <1>3, <1>5 DEF LaidOut
  <2>3. Target(position) \in Int
    <3>1. \A p \in Places : p \in Int
      BY <2>2
    <3> QED
      BY <2>2, <3>1, Zenon
  <2> HIDE DEF i
  <2> QED
    BY <2>1, <2>2, <2>3, Zenon
<1> HIDE DEF i
<1> QED
  BY <1>1, <1>2, <1>4, <1>5, <1>6, <1>7, <1>8, <1>9, <1>10

\* The exits that are tracked: one that is reached is taken away where it is the last
\* one, and that of an if is added.
Falling(s) == \A i, j \in DOMAIN s : i < j => s[j] < s[i]

LEMMA TrackedExits ==
  ASSUME NEW exits \in Seq(Int), NEW inst, inst.address \in Int,
         inst.op \in CondJumpOpcodes => inst.dest \in Int /\ inst.address < inst.dest
  PROVE  /\ TrackExits(exits, inst) \in Seq(Int)
         /\ Falling(exits) /\ (\A d \in ToSet(exits) : inst.address <= d)
              /\ (inst.op \in CondJumpOpcodes => \A d \in ToSet(exits) : inst.dest < d)
            => /\ Falling(TrackExits(exits, inst))
               /\ \A d : d \in ToSet(TrackExits(exits, inst)) <=>
                         \/ d \in ToSet(exits) /\ d # inst.address
                         \/ inst.op \in CondJumpOpcodes /\ d = inst.dest
<1> DEFINE pushed == IF inst.op \in CondJumpOpcodes THEN Append(exits, inst.dest) ELSE exits
           n == Len(exits)
<1>1. n \in Nat /\ DOMAIN exits = 1 .. n /\ \A i \in 1 .. n : exits[i] \in Int
  OBVIOUS
<1>2. TrackExits(exits, inst) = IF pushed # <<>> /\ Last(pushed) = inst.address THEN Front(pushed)
                                ELSE pushed
  BY DEF TrackExits
<1>3. CASE inst.op \in CondJumpOpcodes
  <2> DEFINE t == Append(exits, inst.dest)
  <2>1. /\ t \in Seq(Int) /\ Len(t) = n + 1 /\ DOMAIN t = 1 .. n + 1
        /\ \A i \in 1 .. n : t[i] = exits[i]
        /\ t[n + 1] = inst.dest
    BY <1>3, AppendProperties
  <2>2. pushed = t
    BY <1>3
  <2> HIDE DEF t, pushed
  <2>3. Last(t) = inst.dest
    BY <2>1 DEF Last
  <2>4. TrackExits(exits, inst) = t
    BY <1>2, <1>3, <2>2, <2>3
  <2>5. \A i \in 1 .. n + 1 : i \in 1 .. n \/ i = n + 1
    BY <1>1
  <2>6. ASSUME Falling(exits), \A d \in ToSet(exits) : inst.address <= d,
               \A d \in ToSet(exits) : inst.dest < d
        PROVE  /\ Falling(t)
               /\ \A d : d \in ToSet(t) <=> \/ d \in ToSet(exits) /\ d # inst.address
                                            \/ d = inst.dest
    <3>1. \A i \in 1 .. n : exits[i] \in ToSet(exits) /\ inst.dest < exits[i]
      BY <1>1, <2>6 DEF ToSet
    <3>2. Falling(t)
      <4>1. ASSUME NEW i \in 1 .. n + 1, NEW j \in 1 .. n + 1, i < j
            PROVE  t[j] < t[i]
        <5>1. i \in 1 .. n
          BY <1>1, <4>1
        <5>2. CASE j \in 1 .. n
          BY <1>1, <2>1, <2>6, <4>1, <5>1, <5>2 DEF Falling
        <5>3. CASE j = n + 1
          BY <2>1, <3>1, <5>1, <5>3
        <5> QED
          BY <2>5, <5>2, <5>3
      <4> QED
        BY <2>1, <4>1 DEF Falling
    <3>3. ASSUME NEW d
          PROVE  d \in ToSet(t) <=> (d \in ToSet(exits) /\ d # inst.address) \/ d = inst.dest
      <4>1. d \in ToSet(t) <=> d \in ToSet(exits) \/ d = inst.dest
        <5>1. d \in ToSet(t) <=> \E i \in 1 .. n + 1 : t[i] = d
          BY <2>1 DEF ToSet
        <5>2. d \in ToSet(exits) <=> \E i \in 1 .. n : exits[i] = d
          BY <1>1 DEF ToSet
        <5>3. n + 1 \in 1 .. n + 1 /\ 1 .. n \subseteq 1 .. n + 1
          BY <1>1
        <5> QED
          BY <2>1, <2>5, <5>1, <5>2, <5>3
      <4>2. d \in ToSet(exits) => d # inst.address
        <5>1. d \in ToSet(exits) => d \in Int /\ inst.dest < d
          BY <1>1, <2>6 DEF ToSet
        <5> QED
          BY <1>3, <5>1
      <4> QED
        BY <4>1, <4>2
    <3> QED
      BY <3>2, <3>3
  <2> QED
    BY <1>3, <2>1, <2>4, <2>6
<1>4. CASE inst.op \notin CondJumpOpcodes /\ (exits = <<>> \/ Last(exits) # inst.address)
  <2>1. TrackExits(exits, inst) = exits
    BY <1>2, <1>4
  <2>2. ASSUME Falling(exits), \A d \in ToSet(exits) : inst.address <= d, NEW d \in ToSet(exits)
        PROVE  d # inst.address
    <3>1. PICK i \in 1 .. n : exits[i] = d
      BY <1>1 DEF ToSet
    <3>2. exits # <<>> /\ n \in 1 .. n /\ Last(exits) = exits[n] /\ exits[n] # inst.address
      BY <1>1, <1>4, <3>1 DEF Last
    <3>3. exits[n] \in ToSet(exits)
      BY <1>1, <3>2 DEF ToSet
    <3>4. inst.address < exits[n] /\ exits[n] \in Int
      BY <1>1, <2>2, <3>2, <3>3
    <3>5. CASE i = n
      BY <3>1, <3>2, <3>5
    <3>6. CASE i # n
      <4> HIDE DEF n
      <4>1. i \in DOMAIN exits /\ n \in DOMAIN exits /\ i < n
        <5>1. n \in Nat /\ i \in Nat /\ i <= n /\ i # n
          BY <1>1, <3>6
        <5> QED
          BY <1>1, <3>2, <5>1
      <4>2. exits[n] < exits[i] /\ exits[i] \in Int
        BY <1>1, <2>2, <4>1 DEF Falling
      <4> QED
        BY <3>1, <3>4, <4>2
    <3> QED
      BY <3>5, <3>6
  <2> QED
    BY <1>4, <2>1, <2>2
<1>5. CASE inst.op \notin CondJumpOpcodes /\ exits # <<>> /\ Last(exits) = inst.address
  <2> DEFINE m == n - 1
             t == Front(exits)
  <2>1. m \in Nat /\ n = m + 1 /\ exits[n] = inst.address
    BY <1>1, <1>5 DEF Last
  <2>2. TrackExits(exits, inst) = t
    BY <1>2, <1>5
  <2> HIDE DEF m
  <2>3. t \in Seq(Int) /\ Len(t) = m /\ \A k \in 1 .. m : t[k] = exits[k]
    BY <2>1, FrontIs
  <2> HIDE DEF t
  <2>4. DOMAIN t = 1 .. m
    BY <2>3
  <2>5. ASSUME Falling(exits)
        PROVE  /\ Falling(t)
               /\ \A d : d \in ToSet(t) <=> d \in ToSet(exits) /\ d # inst.address
    <3>1. 1 .. m \subseteq 1 .. n /\ n \in 1 .. n /\ \A i \in 1 .. n : i \in 1 .. m \/ i = n
      BY <1>1, <2>1
    <3>2. Falling(t)
      BY <1>1, <2>3, <2>4, <2>5, <3>1 DEF Falling
    <3>3. ASSUME NEW d
          PROVE  d \in ToSet(t) <=> d \in ToSet(exits) /\ d # inst.address
      <4>1. d \in ToSet(t) <=> \E i \in 1 .. m : t[i] = d
        BY <2>4 DEF ToSet
      <4>2. d \in ToSet(exits) <=> \E i \in 1 .. n : exits[i] = d
        BY <1>1 DEF ToSet
      <4>3. \A i \in 1 .. m : exits[i] # inst.address
        <5>1. \A i \in 1 .. m : i < n
          BY <2>1
        <5>2. \A i \in 1 .. m : exits[n] < exits[i] /\ exits[i] \in Int
          BY <1>1, <2>5, <3>1, <5>1 DEF Falling
        <5> QED
          BY <2>1, <5>2
      <4> QED
        BY <2>1, <2>3, <3>1, <4>1, <4>2, <4>3
    <3> QED
      BY <3>2, <3>3
  <2> QED
    BY <1>5, <2>2, <2>3, <2>5
<1> QED
  BY <1>3, <1>4, <1>5

LEMMA ReadInstructionInv ==
  FieldInv /\ ReadInstruction /\ UNCHANGED <<generated, lines>> => FieldInv'
<1> SUFFICES ASSUME FieldInv, ReadInstruction, UNCHANGED <<generated, lines>> PROVE FieldInv'
  OBVIOUS
<1>1. UNCHANGED <<header, stream, entity, scriptInfo, frame, functions, entityFunctions>>
  BY DEF ReadInstruction
<1>2. /\ LaidOut' /\ Places' = Places /\ Entities' = Entities /\ \A x : Placed(x)' <=> Placed(x)
  BY <1>1, LayoutKept DEF FieldInv
<1>3. /\ Reading /\ position \in DOMAIN stream /\ position' \in Places /\ position' \in Nat
      /\ phase' \in {"read", "returned"}
  BY ReadIs
<1>4. PICK inst : /\ insts' = Append(insts, inst) /\ exitAddrs' = TrackExits(exitAddrs, inst)
                  /\ inst.address = position
                  /\ inst.op \in CondJumpOpcodes => inst.dest \in Int /\ position < inst.dest
  BY ReadIs
<1>5. /\ IsSequence(insts') /\ Len(insts) \in Nat /\ DOMAIN insts = 1 .. Len(insts)
      /\ Len(insts') = Len(insts) + 1 /\ DOMAIN insts' = 1 .. Len(insts) + 1
      /\ \A i \in DOMAIN insts : insts'[i] = insts[i]
      /\ insts'[Len(insts) + 1] = inst
  <2>1. IsSequence(insts)
    BY DEF FieldInv, InstsPlaced
  <2> QED
    BY <1>4, <2>1, Appended
<1>6. ScriptsPlaced'
  BY <1>1, <1>2, <1>3 DEF FieldInv, ScriptsPlaced
<1>7. FramePlaced'
  BY <1>1, <1>2, <1>3, <1>5 DEF FieldInv, FramePlaced
<1>8. InstsPlaced'
  <2>1. exitAddrs' \in Seq(Int)
    <3>1. exitAddrs \in Seq(Int) /\ position \in Int
      BY <1>3 DEF FieldInv, FramePlaced, InstsPlaced
    <3> QED
      BY <1>4, <3>1, TrackedExits
  <2>2. \A i \in 1 .. Len(insts) + 1 : i \in DOMAIN insts \/ i = Len(insts) + 1
    BY <1>5
  <2>3. \A i \in DOMAIN insts' : insts'[i].address \in DOMAIN stream
    BY <1>3, <1>4, <1>5, <2>2 DEF FieldInv, InstsPlaced
  <2> QED
    BY <1>1, <1>5, <2>1, <2>3 DEF InstsPlaced, IsSequence
<1>9. FunctionsCounted'
  BY <1>1, <1>2 DEF FieldInv, FunctionsCounted
<1> QED
  BY <1>2, <1>3, <1>6, <1>7, <1>8, <1>9 DEF FieldInv

LEMMA ReadAgainInv == FieldInv /\ ReadAgain /\ UNCHANGED <<generated, lines>> => FieldInv'
<1> SUFFICES ASSUME FieldInv, ReadAgain, UNCHANGED <<generated, lines>> PROVE FieldInv'
  OBVIOUS
<1>1. UNCHANGED <<header, stream>>
  BY DEF ReadAgain
<1>2. /\ LaidOut' /\ Places' = Places /\ Entities' = Entities /\ \A x : Placed(x)' <=> Placed(x)
  BY <1>1, LayoutKept DEF FieldInv
<1>3. Reading /\ phase' = "read" /\ exitAddrs' \in Seq(Int)
  BY DEF ReadAgain, BlockRead, Reading
<1>4. ScriptsPlaced'
  BY <1>1, <1>2, <1>3 DEF ReadAgain, FieldInv, ScriptsPlaced
<1>5. FramePlaced'
  BY <1>1, <1>2, <1>3 DEF ReadAgain, FieldInv, FramePlaced
<1>6. InstsPlaced' /\ FunctionsCounted'
  BY <1>1, <1>2, <1>3 DEF ReadAgain, FieldInv, InstsPlaced, FunctionsCounted, IsSequence
<1> QED
  BY <1>2, <1>3, <1>4, <1>5, <1>6 DEF FieldInv

\* A function is added with the instructions from oldNum on; then on_update begins
\* where on_start ended, or the scripts go on.
LEMMA AddIs ==
  ASSUME FieldInv, AddFunction, insts # <<>>
  PROVE  /\ Reading /\ Len(insts) \in Nat \ {0} /\ DOMAIN insts = 1 .. Len(insts)
         /\ \E func : /\ functions' = Each({frame.start}, func) ++ functions
                      /\ func.end = insts[Len(insts)].address
                      /\ func.num = Len(insts) - frame.oldNum
         /\ DOMAIN entityFunctions' = {frame.entity} \cup DOMAIN entityFunctions
         /\ \/ /\ position # frame.end /\ phase' = "read" /\ exitAddrs' = <<>>
               /\ frame' = Frame(0, frame.end, FALSE, frame.isEnd, "on_update", FALSE, position)
            \/ /\ position = frame.end /\ phase' = "scripts" /\ UNCHANGED <<frame, exitAddrs>>
<1>1. Reading
  BY DEF AddFunction, BlockRead, Reading
<1>2. IsSequence(insts)
  BY DEF FieldInv, InstsPlaced
<1>3. Len(insts) \in Nat \ {0} /\ DOMAIN insts = 1 .. Len(insts)
  BY <1>2 DEF IsSequence
<1> DEFINE name == header.names[frame.entity]
           isEnd == frame.isEnd /\ position = frame.end
           end == Last(insts).address
           func == [name |-> frame.name, start |-> frame.start, end |-> end,
                    num |-> NumRead,
                    metadata |-> MetaData(frame.isStart, isEnd,
                                          CharacterId(frame.start, end, name), name)]
           known == IF frame.entity \in DOMAIN entityFunctions
                    THEN entityFunctions[frame.entity]
                    ELSE [name |-> name, funcs |-> <<>>]
           named == [known EXCEPT !.funcs = Each({frame.script}, frame.name) ++ @]
<1>4. /\ functions' = Each({frame.start}, func) ++ functions
      /\ entityFunctions' = Each({frame.entity}, named) ++ entityFunctions
      /\ IF frame.toReturnOnly /\ position # frame.end
         THEN /\ frame' = Frame(0, frame.end, FALSE, frame.isEnd, "on_update", FALSE, position)
              /\ phase' = "read"
              /\ exitAddrs' = <<>>
         ELSE /\ phase' = "scripts"
              /\ UNCHANGED <<frame, exitAddrs>>
  BY DEF AddFunction
<1>5. func.end = insts[Len(insts)].address /\ func.num = Len(insts) - frame.oldNum
  BY DEF Last, NumRead
<1> HIDE DEF func, named
<1>6. DOMAIN entityFunctions' = {frame.entity} \cup DOMAIN entityFunctions
  <2>1. Overlays(entityFunctions', frame.entity, named, entityFunctions)
    BY <1>4, Overlaid
  <2> QED
    BY <2>1 DEF Overlays
<1>7. frame.toReturnOnly \/ position = frame.end
  BY DEF AddFunction
<1> QED
  BY <1>1, <1>3, <1>4, <1>5, <1>6, <1>7

LEMMA AddFunctionInv == FieldInv /\ AddFunction /\ UNCHANGED <<generated, lines>> => FieldInv'
<1> SUFFICES ASSUME FieldInv, AddFunction, UNCHANGED <<generated, lines>> PROVE FieldInv'
  OBVIOUS
<1>1. UNCHANGED <<header, stream, entity, scriptInfo, position, insts, generated>>
  BY DEF AddFunction
<1>2. /\ LaidOut' /\ Places' = Places /\ Entities' = Entities /\ \A x : Placed(x)' <=> Placed(x)
  BY <1>1, LayoutKept DEF FieldInv
<1>3. CASE insts = <<>>
  <2>1. phase' = "undefined" /\ UNCHANGED <<frame, exitAddrs, functions, entityFunctions>>
    BY <1>3 DEF AddFunction
  <2>2. ~Reading'
    BY <2>1 DEF Reading
  <2>3. ScriptsPlaced' /\ FramePlaced'
    BY <1>1, <1>2, <2>1, <2>2 DEF FieldInv, ScriptsPlaced, FramePlaced
  <2>4. InstsPlaced' /\ FunctionsCounted'
    BY <1>1, <1>2, <2>1 DEF FieldInv, InstsPlaced, FunctionsCounted, IsSequence
  <2> QED
    BY <1>2, <2>1, <2>3, <2>4 DEF FieldInv
<1>4. CASE insts # <<>>
  <2>1. Reading /\ Len(insts) \in Nat \ {0} /\ DOMAIN insts = 1 .. Len(insts)
    BY <1>4, AddIs
  <2>2. PICK func : /\ functions' = Each({frame.start}, func) ++ functions
                    /\ func.end = insts[Len(insts)].address
                    /\ func.num = Len(insts) - frame.oldNum
    BY <1>4, AddIs
  <2>3. DOMAIN entityFunctions' = {frame.entity} \cup DOMAIN entityFunctions
    BY <1>4, AddIs
  <2>4. \/ /\ phase' = "read" /\ exitAddrs' = <<>>
           /\ frame' = Frame(0, frame.end, FALSE, frame.isEnd, "on_update", FALSE, position)
        \/ phase' = "scripts" /\ UNCHANGED <<frame, exitAddrs>>
    BY <1>4, AddIs
  <2>5. /\ frame.entity \in Entities /\ frame.start \in Places /\ frame.end \in Places
        /\ frame.oldNum \in 0 .. Len(insts) /\ position \in Places /\ entity # 0
        /\ entity \in Entities
    BY <2>1 DEF FieldInv, FramePlaced, ScriptsPlaced, LaidOut
  <2>6. /\ DOMAIN functions' = {frame.start} \cup DOMAIN functions
        /\ functions'[frame.start] = func
        /\ \A x \in DOMAIN functions : x # frame.start => functions'[x] = functions[x]
    <3>1. Overlays(functions', frame.start, func, functions)
      BY <2>2, Overlaid
    <3> QED
      BY <3>1 DEF Overlays
  <2>7. func.num \in Nat /\ func.end \in Nat /\ frame.start \in Nat
    <3>1. Len(insts) \in DOMAIN insts
      BY <2>1
    <3>2. insts[Len(insts)].address \in Nat
      BY <3>1 DEF FieldInv, InstsPlaced, LaidOut, Places
    <3> QED
      <4>1. frame.start \in Nat
        BY <2>5 DEF FieldInv, LaidOut
      <4>2. Len(insts) - frame.oldNum \in Nat
        BY <2>1, <2>5
      <4> QED
        BY <2>2, <3>2, <4>1, <4>2
  <2>8. FunctionsCounted'
    <3>1. IsFiniteSet(DOMAIN functions')
      BY <2>6, FS_AddElement DEF FieldInv, FunctionsCounted
    <3>2. \A a \in DOMAIN functions' :
            a \in Nat /\ functions'[a].num \in Nat /\ functions'[a].end \in Nat
      BY <2>6, <2>7 DEF FieldInv, FunctionsCounted
    <3> QED
      BY <1>1, <1>2, <2>3, <2>5, <2>6, <3>1, <3>2 DEF FieldInv, FunctionsCounted
  <2>9. ScriptsPlaced'
    BY <1>1, <1>2, <2>5 DEF FieldInv, ScriptsPlaced
  <2>10. FramePlaced'
    <3>1. CASE frame' = Frame(0, frame.end, FALSE, frame.isEnd, "on_update", FALSE, position)
      <4>1. /\ frame'.entity = entity /\ frame'.start = position /\ frame'.end = frame.end
            /\ frame'.oldNum = Len(insts)
        BY <3>1 DEF Frame
      <4> QED
        BY <1>1, <1>2, <2>1, <2>5, <4>1 DEF FieldInv, FramePlaced
    <3>2. CASE phase' = "scripts" /\ UNCHANGED frame
      BY <1>1, <1>2, <3>2 DEF FieldInv, FramePlaced, Reading
    <3> QED
      BY <2>4, <3>1, <3>2
  <2>11. InstsPlaced'
    <3>1. exitAddrs' \in Seq(Int)
      <4>1. <<>> \in Seq(Int) /\ exitAddrs \in Seq(Int)
        BY DEF FieldInv, InstsPlaced
      <4> QED
        BY <2>4, <4>1
    <3> QED
      BY <1>1, <3>1 DEF FieldInv, InstsPlaced, IsSequence
  <2> QED
    BY <1>2, <2>4, <2>8, <2>9, <2>10, <2>11 DEF FieldInv
<1> QED
  BY <1>3, <1>4

LEMMA InvNext == FieldInv /\ [CodeNext]_codeVars => FieldInv'
<1> SUFFICES ASSUME FieldInv, [CodeNext]_codeVars PROVE FieldInv'
  OBVIOUS
<1>1. ASSUME UNCHANGED <<header, stream, entity, scriptInfo, frame, position, exitAddrs, insts,
                         functions, entityFunctions>>,
             phase' = phase \/ phase' \in {"undefined", "generate", "failed", "done"},
             generated' \subseteq DOMAIN functions
      PROVE  FieldInv'
  <2>1. /\ LaidOut' /\ Places' = Places /\ Entities' = Entities /\ \A x : Placed(x)' <=> Placed(x)
    BY <1>1, LayoutKept DEF FieldInv
  <2>2. Reading' => Reading
    BY <1>1 DEF Reading
  <2>3. ScriptsPlaced' /\ FramePlaced'
    BY <1>1, <2>1, <2>2 DEF FieldInv, ScriptsPlaced, FramePlaced
  <2>4. InstsPlaced' /\ FunctionsCounted'
    BY <1>1, <2>1 DEF FieldInv, InstsPlaced, FunctionsCounted, IsSequence
  <2> QED
    BY <1>1, <2>1, <2>3, <2>4 DEF FieldInv
<1>2. CASE Disassemble /\ UNCHANGED <<generated, lines>>
  BY <1>2, NextEntityInv, StartScriptInv, ReadInstructionInv, ReadAgainInv, AddFunctionInv
  DEF Disassemble
<1>3. CASE BuildGraph
  BY <1>1, <1>3 DEF BuildGraph, FieldInv, FunctionsCounted
<1>4. CASE GenerateFunction
  <2>1. /\ UNCHANGED <<header, stream, entity, scriptInfo, frame, position, exitAddrs, insts,
                       functions, entityFunctions>>
        /\ phase' = phase \/ phase' = "failed"
        /\ \/ generated' = generated
           \/ generated' = generated \cup {Min(DOMAIN functions \ generated)}
        /\ generated # DOMAIN functions
    BY <1>4 DEF GenerateFunction
  <2>2. DOMAIN functions \ generated \subseteq Nat /\ DOMAIN functions \ generated # {}
        /\ generated \subseteq DOMAIN functions
    BY <2>1 DEF FieldInv, FunctionsCounted
  <2>3. Min(DOMAIN functions \ generated) \in DOMAIN functions
    BY <2>2, LeastOf
  <2>4. generated' \subseteq DOMAIN functions
    BY <2>1, <2>2, <2>3
  <2> QED
    BY <1>1, <2>1, <2>4
<1>5. CASE GenerationDone
  BY <1>1, <1>5 DEF GenerationDone, FieldInv, FunctionsCounted
<1>6. CASE UNCHANGED codeVars
  BY <1>1, <1>6 DEF codeVars, fieldVars, FieldInv, FunctionsCounted
<1> QED
  BY <1>2, <1>3, <1>4, <1>5, <1>6 DEF CodeNext

LEMMA FieldInvariant == FieldSpec => []FieldInv
<1>1. CodeInit => FieldInv
  BY InvInit
<1>2. FieldInv /\ [CodeNext]_codeVars => FieldInv'
  BY InvNext
<1> QED
  BY <1>1, <1>2, PTL DEF FieldSpec

\* For every file the state keeps its types: in particular each instruction is read
\* where one lies in the stream, and no function has a negative number of them
\* (mNumInstructions), whatever the entry points and the jumps.
THEOREM FieldTypeCorrect == FieldSpec => []FieldTypeOK
<1>1. FieldInv => FieldTypeOK
  <2> SUFFICES ASSUME FieldInv PROVE FieldTypeOK
    OBVIOUS
  <2>1. \A i \in DOMAIN exitAddrs : exitAddrs[i] \in Int
    BY DEF FieldInv, InstsPlaced
  <2> QED
    BY <2>1 DEF FieldInv, ScriptsPlaced, FramePlaced, InstsPlaced, FunctionsCounted, FieldTypeOK
<1> QED
  BY <1>1, FieldInvariant, PTL

----------------------------------------------------------------------------
(***************************************************************************)
(* Sums over finite sets.  MapThenSumSet takes the elements away in an     *)
(* order of its own; the sum does not depend on it.                        *)
(***************************************************************************)
Total(f, S) == MapThenSumSet(LAMBDA b : f[b].num, S)
Picked(s) == CHOOSE x \in s : TRUE
IsSum(h, f, S) ==
  /\ h \in [SUBSET S -> Nat]
  /\ \A s \in SUBSET S : h[s] = IF s = {} THEN 0 ELSE f[Picked(s)].num + h[s \ {Picked(s)}]
Counted(f, S) == IsFiniteSet(S) /\ \A b \in S : f[b].num \in Nat

LEMMA SmallerSubset ==
  ASSUME NEW S, IsFiniteSet(S), NEW s \in SUBSET S, NEW x \in s
  PROVE  /\ Cardinality(s) \in Nat /\ Cardinality(s) \in 0 .. Cardinality(S)
         /\ s \ {x} \in SUBSET S /\ Cardinality(s \ {x}) \in Nat
         /\ Cardinality(s \ {x}) < Cardinality(s)
<1>1. IsFiniteSet(s) /\ Cardinality(s) <= Cardinality(S) /\ Cardinality(S) \in Nat
  BY FS_Subset, FS_CardinalityType
<1>2. Cardinality(s) \in Nat /\ Cardinality(s \ {x}) = Cardinality(s) - 1
      /\ Cardinality(s \ {x}) \in Nat
  BY <1>1, FS_RemoveElement, FS_CardinalityType
<1> QED
  BY <1>1, <1>2

LEMMA PickedIs ==
  ASSUME NEW s, s # {}
  PROVE  Picked(s) \in s
BY DEF Picked

LEMMA SumIs ==
  ASSUME NEW f, NEW S, Counted(f, S)
  PROVE  \E h : IsSum(h, f, S) /\ Total(f, S) = h[S]
<1> DEFINE D == SUBSET S
           bound == Cardinality(S)
           rank == [s \in D |-> Cardinality(s)]
           stop == [s \in D |-> s = {}]
           base == [s \in D |-> 0]
           next == [s \in D |-> s \ {Picked(s)}]
           G == [s \in D |-> [x \in Nat |-> IF s = {} THEN 0 ELSE f[Picked(s)].num + x]]
<1>1. bound \in Nat /\ \A s \in D : rank[s] \in 0 .. bound
  <2>1. ASSUME NEW s \in D PROVE Cardinality(s) \in 0 .. bound
    BY FS_Subset, FS_CardinalityType DEF Counted
  <2> QED
    BY <2>1, FS_CardinalityType DEF Counted
<1>2. \A s \in D : ~stop[s] => next[s] \in D /\ rank[next[s]] < rank[s]
  BY PickedIs, SmallerSubset DEF Counted
<1>3. \A s \in D : base[s] \in Nat
  OBVIOUS
<1>4. ASSUME NEW s \in D, s # {}
      PROVE  f[Picked(s)].num \in Nat
  BY <1>4, PickedIs DEF Counted
<1>5. \A s \in D : \A x \in Nat : G[s][x] = IF s = {} THEN 0 ELSE f[Picked(s)].num + x
  OBVIOUS
<1>7. /\ \A s \in D : (stop[s] <=> s = {}) /\ next[s] = s \ {Picked(s)} /\ base[s] = 0
  OBVIOUS
<1> HIDE DEF rank, stop, base, next, G, bound
<1>6. ASSUME NEW s \in D, NEW x \in Nat
      PROVE  G[s][x] \in Nat
  <2>1. CASE s = {}
    BY <2>1, <1>5
  <2>2. CASE s # {}
    <3>1. f[Picked(s)].num \in Nat
      BY <2>2, <1>4
    <3>2. G[s][x] = f[Picked(s)].num + x
      BY <2>2, <1>5
    <3> QED
      BY <3>1, <3>2
  <2> QED
    BY <2>1, <2>2
<1>8. PICK h \in [D -> Nat] : Unfolds(h, D, stop, base, next, G)
  BY <1>1, <1>2, <1>3, <1>6, RecursionByRank
<1>9. \A s \in D : h[s] = IF s = {} THEN 0 ELSE f[Picked(s)].num + h[s \ {Picked(s)}]
  <2>1. ASSUME NEW s \in D, s # {}
        PROVE  h[s] = f[Picked(s)].num + h[s \ {Picked(s)}]
    <3>1. h[s] = G[s][h[next[s]]] /\ next[s] \in D
      BY <2>1, <1>2, <1>7, <1>8 DEF Unfolds
    <3>2. h[next[s]] \in Nat
      BY <3>1, <1>8
    <3>3. G[s][h[next[s]]] = f[Picked(s)].num + h[next[s]]
      BY <2>1, <3>2, <1>5
    <3> QED
      BY <3>1, <3>3, <1>7
  <2> QED
    BY <2>1, <1>7, <1>8 DEF Unfolds
<1>10. IsSum(h, f, S)
  BY <1>8, <1>9 DEF IsSum
<1> DEFINE Eqn(k) == k = [s \in D |-> IF s = {} THEN 0 ELSE f[Picked(s)].num + k[s \ {Picked(s)}]]
           iter == CHOOSE k : Eqn(k)
<1>11. Eqn(iter)
  <2>1. Eqn(h)
    BY <1>8, <1>9
  <2> HIDE DEF Eqn
  <2> QED
    BY <2>1
<1>12. Total(f, S) = iter[S]
  BY DEF Total, MapThenSumSet, MapThenFoldSet, Picked
<1> HIDE DEF iter
<1>13. \A s \in D : iter[s] = IF s = {} THEN 0 ELSE f[Picked(s)].num + iter[s \ {Picked(s)}]
  BY <1>11
<1> DEFINE T == {s \in D : iter[s] = h[s]}
           card == [s \in D |-> Cardinality(s)]
<1>14. ASSUME NEW s \in D \ T
       PROVE  \E r \in D \ T : card[r] < card[s]
  <2>1. s # {}
    BY <1>9, <1>13
  <2>2. Picked(s) \in s /\ s \ {Picked(s)} \in D /\ Cardinality(s \ {Picked(s)}) < Cardinality(s)
    BY <2>1, PickedIs, SmallerSubset DEF Counted
  <2>3. iter[s \ {Picked(s)}] # h[s \ {Picked(s)}]
    BY <2>1, <1>9, <1>13
  <2> QED
    BY <2>2, <2>3
<1>15. \A s \in D : card[s] \in Nat
  BY FS_Subset, FS_CardinalityType DEF Counted
<1>16. D \subseteq T
  <2> HIDE DEF T, card
  <2> QED
    BY <1>14, <1>15, NoDescent
<1>17. iter[S] = h[S]
  BY <1>16
<1> QED
  BY <1>10, <1>12, <1>17

LEMMA SumRemoves ==
  ASSUME NEW f, NEW S, Counted(f, S), NEW h, IsSum(h, f, S)
  PROVE  \A y \in S : h[S] = f[y].num + h[S \ {y}]
<1> DEFINE D == SUBSET S
           T == {t \in D : \A y \in t : h[t] = f[y].num + h[t \ {y}]}
           card == [t \in D |-> Cardinality(t)]
<1>1. \A t \in D : t # {} => h[t] = f[Picked(t)].num + h[t \ {Picked(t)}]
  BY DEF IsSum
<1>2. ASSUME NEW t \in D, NEW y \in t, h[t] # f[y].num + h[t \ {y}]
      PROVE  \E r \in D \ T : card[r] < card[t]
  <2> DEFINE c == Picked(t)
             u == (t \ {c}) \ {y}
  <2>1. c \in t
    BY PickedIs
  <2> HIDE DEF c
  <2>2. c # y /\ h[t] = f[c].num + h[t \ {c}]
    BY <1>1, <1>2 DEF c
  <2>3. y \in t \ {c} /\ c \in t \ {y} /\ u = (t \ {y}) \ {c}
        /\ t \ {c} \in D /\ t \ {y} \in D /\ u \in D
    BY <2>1, <2>2
  <2>4. card[t \ {c}] < card[t] /\ card[t \ {y}] < card[t]
    BY <2>1, <2>3, SmallerSubset DEF Counted
  <2>5. CASE h[t \ {c}] # f[y].num + h[u] \/ h[t \ {y}] # f[c].num + h[u]
    <3>1. t \ {c} \notin T \/ t \ {y} \notin T
      BY <2>3, <2>5
    <3> QED
      BY <2>3, <2>4, <3>1
  <2>6. CASE h[t \ {c}] = f[y].num + h[u] /\ h[t \ {y}] = f[c].num + h[u]
    <3> HIDE DEF u
    <3>1. f[c].num \in Nat /\ f[y].num \in Nat /\ h[u] \in Nat
      BY <2>1, <2>3 DEF Counted, IsSum
    <3> QED
      BY <1>2, <2>2, <2>6, <3>1
  <2> QED
    BY <2>5, <2>6
<1>3. \A t \in D \ T : \E r \in D \ T : card[r] < card[t]
  BY <1>2
<1>4. \A t \in D : card[t] \in Nat
  BY FS_Subset, FS_CardinalityType DEF Counted
<1>5. D \subseteq T
  <2> HIDE DEF D, T, card
  <2> QED
    BY <1>3, <1>4, NoDescent
<1> QED
  BY <1>5

LEMMA SumsAgree ==
  ASSUME NEW f, NEW S, NEW h, IsSum(h, f, S), IsFiniteSet(S), NEW g, NEW R, NEW k, IsSum(k, g, R),
         R \subseteq S, \A x \in R : f[x].num = g[x].num
  PROVE  h[R] = k[R]
<1> DEFINE D == SUBSET R
           T == {t \in D : h[t] = k[t]}
           card == [t \in D |-> Cardinality(t)]
<1>1. \A t \in D : t \in SUBSET S
  OBVIOUS
<1>2. \A t \in D : t # {} => /\ h[t] = f[Picked(t)].num + h[t \ {Picked(t)}]
                             /\ k[t] = g[Picked(t)].num + k[t \ {Picked(t)}]
  BY <1>1 DEF IsSum
<1>3. h[{}] = 0 /\ k[{}] = 0
  BY DEF IsSum
<1>4. ASSUME NEW t \in D, h[t] # k[t]
      PROVE  \E r \in D \ T : card[r] < card[t]
  <2> DEFINE c == Picked(t)
  <2>1. t # {}
    BY <1>3, <1>4
  <2>2. c \in t
    BY <2>1, PickedIs
  <2> HIDE DEF c
  <2>3. f[c].num = g[c].num /\ t \ {c} \in D
    BY <2>2
  <2>4. h[t \ {c}] # k[t \ {c}]
    BY <1>2, <1>4, <2>1, <2>3 DEF c
  <2>5. card[t \ {c}] < card[t]
    BY <1>1, <2>2, <2>3, SmallerSubset
  <2> QED
    BY <2>3, <2>4, <2>5
<1>5. \A t \in D \ T : \E r \in D \ T : card[r] < card[t]
  BY <1>4
<1>6. \A t \in D : card[t] \in Nat
  BY <1>1, FS_Subset, FS_CardinalityType
<1>7. D \subseteq T
  <2> HIDE DEF D, T, card
  <2> QED
    BY <1>5, <1>6, NoDescent
<1> QED
  BY <1>7

LEMMA TotalFacts ==
  ASSUME NEW f, NEW S, Counted(f, S)
  PROVE  Total(f, S) \in Nat /\ (S = {} => Total(f, S) = 0)
<1>1. PICK h : IsSum(h, f, S) /\ Total(f, S) = h[S]
  BY SumIs
<1>2. S = {} => h[S] = 0
  BY <1>1 DEF IsSum
<1> QED
  BY <1>1, <1>2 DEF IsSum

LEMMA TotalKept ==
  ASSUME NEW f, NEW g, NEW S, Counted(f, S), \A x \in S : f[x].num = g[x].num
  PROVE  Total(g, S) = Total(f, S)
<1>1. PICK h : IsSum(h, f, S) /\ Total(f, S) = h[S]
  BY SumIs
<1>2. Counted(g, S)
  BY DEF Counted
<1>3. PICK k : IsSum(k, g, S) /\ Total(g, S) = k[S]
  BY <1>2, SumIs
<1> QED
  BY <1>1, <1>3, SumsAgree DEF Counted

LEMMA TotalAdds ==
  ASSUME NEW f, NEW S, Counted(f, S)
  PROVE  \A y \in S : Total(f, S) = f[y].num + Total(f, S \ {y})
<1> SUFFICES ASSUME NEW x \in S PROVE Total(f, S) = f[x].num + Total(f, S \ {x})
  OBVIOUS
<1> DEFINE R == S \ {x}
<1>1. PICK h : IsSum(h, f, S) /\ Total(f, S) = h[S]
  BY SumIs
<1>2. Counted(f, R)
  BY FS_Subset DEF Counted
<1>3. h[S] = f[x].num + h[R]
  <2>1. \A y \in S : h[S] = f[y].num + h[S \ {y}]
    BY <1>1, SumRemoves
  <2> QED
    BY <2>1
<1> HIDE DEF R
<1>4. PICK k : IsSum(k, f, R) /\ Total(f, R) = k[R]
  BY <1>2, SumIs
<1>5. h[R] = k[R]
  <2>1. R \subseteq S
    BY DEF R
  <2> QED
    BY <1>1, <1>4, <2>1, SumsAgree DEF Counted
<1> QED
  BY <1>1, <1>3, <1>4, <1>5 DEF R

LEMMA TotalExtends ==
  ASSUME NEW f, NEW D, Counted(f, D), NEW g, NEW x, x \notin D, g[x].num \in Nat,
         \A b \in D : g[b].num = f[b].num
  PROVE  Total(g, {x} \cup D) = g[x].num + Total(f, D)
<1> DEFINE S == {x} \cup D
<1>1. x \in S /\ S \ {x} = D
  OBVIOUS
<1>2. IsFiniteSet(S)
  BY FS_AddElement DEF Counted
<1>3. \A b \in S : g[b].num \in Nat
  BY DEF Counted
<1>4. Counted(g, S)
  BY <1>2, <1>3 DEF Counted
<1>5. Total(g, D) = Total(f, D)
  BY TotalKept
<1> HIDE DEF S
<1>6. Total(g, S) = g[x].num + Total(g, S \ {x})
  <2>1. \A y \in S : Total(g, S) = g[y].num + Total(g, S \ {y})
    BY <1>4, TotalAdds
  <2> QED
    BY <1>1, <2>1
<1> QED
  BY <1>1, <1>5, <1>6 DEF S

----------------------------------------------------------------------------
(***************************************************************************)
(* Entry points in order.  Reading then goes through the stream once, from *)
(* front to back, so that what a function is dealt, the instructions that  *)
(* were read for it, and the instructions between its start and its end    *)
(* are the same.  The scripts still to come lie behind what is being read. *)
(***************************************************************************)
Border == IF Reading THEN frame.start ELSE position
Bound == IF Reading THEN frame.end ELSE position

InstsAscend ==
  /\ \A i, j \in DOMAIN insts : i < j => insts[i].address < insts[j].address
  /\ \A i \in DOMAIN insts : insts[i].address < position

FrameReads ==
  Reading =>
    /\ frame.start < frame.end
    /\ frame.start <= position /\ position <= frame.end
    /\ phase = "returned" => frame.start < position
    /\ position # frame.start => frame.oldNum < Len(insts)
    /\ \A k \in DOMAIN insts : k <= frame.oldNum <=> insts[k].address < frame.start

ScriptsAhead ==
  /\ \A r \in scriptInfo : r.entry < r.next /\ Bound <= r.entry + kSectionPointersSize
  /\ \A q, r \in scriptInfo :
       q # r => q.index # r.index /\ (q.index < r.index => q.next <= r.entry)
  /\ \A f \in Entities : \A t \in Slots :
       entity < f => /\ Bound <= EntryOf(f, t) + kSectionPointersSize
                     /\ \A r \in scriptInfo : r.next <= EntryOf(f, t)

BodyIs(a) ==
  /\ Before(a) + functions[a].num <= Len(insts)
  /\ \A k \in DOMAIN insts :
       k \in Before(a) + 1 .. Before(a) + functions[a].num
         <=> insts[k].address \in a .. functions[a].end

FunctionsDealt ==
  /\ \A a \in DOMAIN functions :
       a <= functions[a].end /\ functions[a].end < Border /\ BodyIs(a)
  /\ Dealt(DOMAIN functions) = IF Reading THEN frame.oldNum ELSE Len(insts)

OrderInv == Ordered => InstsAscend /\ FrameReads /\ ScriptsAhead /\ FunctionsDealt

LEMMA OrderedKept == UNCHANGED header => (Ordered' <=> Ordered)
BY DEF Ordered, Entities

SumsDealt ==
  /\ \A S : Dealt(S) = Total(functions, S)
  /\ \A a : Before(a) = Total(functions, {b \in DOMAIN functions : b < a})

LEMMA DealtIs == SumsDealt
BY DEF SumsDealt, Before, Dealt, Total

LEMMA DealtNextIs ==
  /\ Dealt(DOMAIN functions)' = Total(functions', DOMAIN functions')
  /\ \A a : Before(a)' = Total(functions', {b \in DOMAIN functions' : b < a})
<1>1. SumsDealt'
  BY DealtIs, PTL
<1> QED
  BY <1>1 DEF SumsDealt

LEMMA DealtKept ==
  ASSUME UNCHANGED <<insts, functions>>
  PROVE  /\ Dealt(DOMAIN functions)' = Dealt(DOMAIN functions)
         /\ \A a : BodyIs(a)' <=> BodyIs(a)
<1>1. \A a : Before(a)' = Before(a)
  BY DealtIs, DealtNextIs DEF SumsDealt
<1>2. Dealt(DOMAIN functions)' = Dealt(DOMAIN functions)
  BY DealtIs, DealtNextIs DEF SumsDealt
<1> QED
  BY <1>1, <1>2 DEF BodyIs

LEMMA OrderInit == CodeInit => OrderInv
<1> SUFFICES ASSUME CodeInit PROVE InstsAscend /\ FrameReads /\ ScriptsAhead /\ FunctionsDealt
  BY DEF OrderInv
<1>1. /\ phase = "scripts" /\ position = 0 /\ scriptInfo = {} /\ insts = <<>>
      /\ functions = <<>> /\ entity = 0
  BY DEF CodeInit, FieldInit
<1>2. ~Reading /\ Border = 0 /\ Bound = 0
  BY <1>1 DEF Reading, Border, Bound
<1>3. DOMAIN insts = {} /\ DOMAIN functions = {} /\ Len(insts) = 0
  BY <1>1
<1>4. Dealt(DOMAIN functions) = 0
  <2>1. Counted(functions, {})
    BY FS_EmptySet DEF Counted
  <2> QED
    BY <1>3, <2>1, DealtIs, TotalFacts DEF SumsDealt
<1>5. \A f \in Entities : \A t \in Slots : 0 <= EntryOf(f, t) + kSectionPointersSize
  <2>1. LaidOut
    BY LaidOutInit DEF CodeInit
  <2> QED
    BY <2>1, FieldAssumption DEF LaidOut
<1> QED
  BY <1>1, <1>2, <1>3, <1>4, <1>5 DEF InstsAscend, FrameReads, ScriptsAhead, FunctionsDealt

LEMMA ScriptInfosDiffer ==
  ASSUME NEW e, NEW q \in ScriptInfos(e), NEW r \in ScriptInfos(e), q.index = r.index
  PROVE  q = r
<1> DEFINE entry == header.scripts[e]
           First(s) == \A t \in 1 .. s - 1 : entry[t] # entry[s]
           kept == {s \in 1 .. ScriptsPerEntity : First(s) /\ EndOfScript(e, s) # entry[s]}
           info(s) == [index |-> s - 1, entry |-> entry[s], next |-> EndOfScript(e, s),
                       isStart |-> s = Min(kept), isEnd |-> s = Max(kept)]
<1>1. ScriptInfos(e) = {info(s) : s \in kept}
  BY DEF ScriptInfos
<1>2. \A s \in kept : s \in Int
  BY FieldAssumption
<1>3. \A s : info(s).index = s - 1
  OBVIOUS
<1> HIDE DEF info, kept
<1>4. PICK s \in kept : q = info(s)
  BY <1>1
<1>5. PICK t \in kept : r = info(t)
  BY <1>1
<1>6. s = t
  BY <1>2, <1>3, <1>4, <1>5
<1> QED
  BY <1>4, <1>5, <1>6

LEMMA ScriptsInOrder ==
  ASSUME LaidOut, Ordered, NEW e \in Entities
  PROVE  /\ \A r \in ScriptInfos(e) :
              /\ r.entry < r.next
              /\ \E s \in Slots : r.entry = EntryOf(e, s)
              /\ \A f \in Entities : \A t \in Slots : e < f => r.next <= EntryOf(f, t)
         /\ \A q, r \in ScriptInfos(e) :
              q # r => q.index # r.index /\ (q.index < r.index => q.next <= r.entry)
<1>1. ASSUME NEW r \in ScriptInfos(e)
      PROVE  /\ r.entry < r.next
             /\ \E s \in Slots : r.entry = EntryOf(e, s)
             /\ \A f \in Entities : \A t \in Slots : e < f => r.next <= EntryOf(f, t)
  <2>1. PICK s \in Slots : /\ r.entry = EntryOf(e, s) /\ r.next = EndOfScript(e, s)
                           /\ EndOfScript(e, s) # EntryOf(e, s)
    BY ScriptInfosAre
  <2>2. ASSUME NEW f \in Entities, NEW t \in Slots, e < f
        PROVE  r.next <= EntryOf(f, t)
    <3>1. EntryOf(e, s) < EntryOf(f, t)
      BY <2>2 DEF Ordered, EntryOf, Slots
    <3>2. EntryOf(e, s) \in Nat /\ EntryOf(f, t) \in Nat
      BY DEF LaidOut
    <3> QED
      BY <2>1, <2>2, <3>1, <3>2, EndInOrder
  <2> QED
    BY <2>1, <2>2, EndInOrder
<1>2. ASSUME NEW q \in ScriptInfos(e), NEW r \in ScriptInfos(e), q # r
      PROVE  q.index # r.index /\ (q.index < r.index => q.next <= r.entry)
  <2>1. PICK s \in Slots : q.index = s - 1 /\ q.next = EndOfScript(e, s)
    BY ScriptInfosAre
  <2>2. PICK t \in Slots : /\ r.index = t - 1 /\ r.entry = EntryOf(e, t)
                           /\ \A u \in 1 .. t - 1 : EntryOf(e, u) # EntryOf(e, t)
    BY ScriptInfosAre
  <2>3. ASSUME q.index < r.index
        PROVE  q.next <= r.entry
    <3>1. s \in 1 .. t - 1 /\ s < t
      BY <2>1, <2>2, <2>3, FieldAssumption DEF Slots
    <3>2. EntryOf(e, t) # EntryOf(e, s)
      BY <2>2, <3>1
    <3> QED
      BY <2>1, <2>2, <3>1, <3>2, EndInOrder
  <2> QED
    BY <1>2, <2>3, ScriptInfosDiffer
<1> QED
  BY <1>1, <1>2

\* What holds of the functions stays as long as nothing is read or added.
LEMMA FunctionsDealtKept ==
  ASSUME FunctionsDealt, UNCHANGED <<insts, functions>>, Border' = Border,
         (IF Reading THEN frame.oldNum ELSE Len(insts))'
           = IF Reading THEN frame.oldNum ELSE Len(insts)
  PROVE  FunctionsDealt'
BY DealtKept DEF FunctionsDealt

LEMMA NextEntityOrder == FieldInv /\ Ordered /\ OrderInv /\ NextEntity => OrderInv'
<1> SUFFICES ASSUME FieldInv, Ordered, OrderInv, NextEntity
             PROVE  InstsAscend' /\ FrameReads' /\ ScriptsAhead' /\ FunctionsDealt'
  BY DEF OrderInv
<1>1. /\ UNCHANGED <<header, position, frame, insts, functions>>
      /\ Entities' = Entities /\ \A f, t : EntryOf(f, t)' = EntryOf(f, t)
  BY DEF NextEntity, Entities, EntryOf
<1>2. ~Reading /\ ~Reading' /\ Border' = Border /\ Bound = position /\ Bound' = position
  BY <1>1 DEF NextEntity, Reading, Border, Bound
<1>3. InstsAscend /\ FrameReads /\ ScriptsAhead /\ FunctionsDealt
  BY DEF OrderInv
<1>4. InstsAscend' /\ FrameReads' /\ FunctionsDealt'
  BY <1>1, <1>2, <1>3, FunctionsDealtKept DEF InstsAscend, FrameReads
<1>5. CASE entity < Len(header.scripts)
  <2> DEFINE e == entity + 1
  <2>1. /\ LaidOut /\ entity \in Nat /\ position \in Nat /\ e \in Entities
        /\ \A f \in Entities : f \in Int
    BY <1>5 DEF FieldInv, LaidOut, ScriptsPlaced, FramePlaced
  <2>2. entity' = e /\ scriptInfo' = ScriptInfos(e)
    BY <1>5 DEF NextEntity
  <2> HIDE DEF e
  <2>3. \A r \in ScriptInfos(e) :
          /\ r.entry < r.next
          /\ \E s \in Slots : r.entry = EntryOf(e, s)
          /\ \A f \in Entities : \A t \in Slots : e < f => r.next <= EntryOf(f, t)
    BY <2>1, ScriptsInOrder
  <2>4. \A q, r \in ScriptInfos(e) :
          q # r => q.index # r.index /\ (q.index < r.index => q.next <= r.entry)
    BY <2>1, ScriptsInOrder
  <2>5. \A f \in Entities : \A t \in Slots :
          entity < f => position <= EntryOf(f, t) + kSectionPointersSize
    BY <1>2, <1>3 DEF ScriptsAhead
  <2>6. entity < e /\ \A f \in Entities : e < f => entity < f
    BY <2>1 DEF e
  <2>7. \A r \in ScriptInfos(e) : position <= r.entry + kSectionPointersSize
    BY <2>1, <2>3, <2>5, <2>6
  <2> QED
    BY <1>1, <1>2, <1>4, <2>2, <2>3, <2>4, <2>5, <2>6, <2>7 DEF ScriptsAhead
<1>6. CASE ~ (entity < Len(header.scripts))
  <2>1. UNCHANGED <<entity, scriptInfo>>
    BY <1>6 DEF NextEntity
  <2> QED
    BY <1>1, <1>2, <1>3, <1>4, <2>1 DEF ScriptsAhead
<1> QED
  BY <1>5, <1>6

LEMMA StartScriptOrder == FieldInv /\ Ordered /\ OrderInv /\ StartScript => OrderInv'
<1> SUFFICES ASSUME FieldInv, Ordered, OrderInv, StartScript
             PROVE  InstsAscend' /\ FrameReads' /\ ScriptsAhead' /\ FunctionsDealt'
  BY DEF OrderInv
<1> DEFINE s == NextScript
<1>1. /\ UNCHANGED <<header, entity, insts, functions>>
      /\ Entities' = Entities /\ \A f, t : EntryOf(f, t)' = EntryOf(f, t)
      /\ scriptInfo' = scriptInfo \ {s}
  BY DEF StartScript, Entities, EntryOf
<1>2. /\ position' = s.entry + kSectionPointersSize
      /\ frame' = Frame(s.index, s.next + kSectionPointersSize, s.isStart, s.isEnd,
                        FunctionName(s.index), s.index = 0, s.entry + kSectionPointersSize)
      /\ phase = "scripts" /\ phase' = "read"
  BY DEF StartScript
<1>3. /\ frame'.start = position' /\ frame'.oldNum = Len(insts)
      /\ frame'.end = s.next + kSectionPointersSize
  BY <1>2 DEF Frame
<1>4. s \in scriptInfo /\ \A r \in scriptInfo : s.index <= r.index
  BY NextScriptIs DEF StartScript, FieldInv, ScriptsPlaced
<1> HIDE DEF s
<1>5. /\ s.entry \in Nat /\ s.next \in Nat /\ kSectionPointersSize \in Nat
      /\ \A r \in scriptInfo : r.entry \in Nat /\ r.next \in Nat /\ r.index \in Nat
  BY <1>4, FieldAssumption DEF FieldInv, ScriptsPlaced, Placed
<1>6. \A f \in Entities : \A t \in Slots : EntryOf(f, t) \in Nat
  BY DEF FieldInv, LaidOut
<1>7. /\ ~Reading /\ Reading' /\ Border = position /\ Border' = position' /\ Bound = position
      /\ Bound' = s.next + kSectionPointersSize
  BY <1>2, <1>3 DEF Reading, Border, Bound
<1>8. InstsAscend /\ FrameReads /\ ScriptsAhead /\ FunctionsDealt
  BY DEF OrderInv
<1>9. /\ s.entry < s.next /\ position <= position' /\ position \in Nat /\ position' \in Nat
  BY <1>2, <1>4, <1>5, <1>7, <1>8 DEF ScriptsAhead, FieldInv, FramePlaced
<1>10. /\ Len(insts) \in Nat /\ DOMAIN insts = 1 .. Len(insts)
       /\ \A i \in DOMAIN insts : insts[i].address \in Nat /\ insts[i].address < position'
  <2>1. Len(insts) \in Nat /\ DOMAIN insts = 1 .. Len(insts)
    BY DEF FieldInv, InstsPlaced, IsSequence
  <2>2. \A i \in DOMAIN insts : insts[i].address \in Nat
    BY DEF FieldInv, InstsPlaced, LaidOut, Places
  <2> QED
    BY <2>1, <2>2, <1>8, <1>9 DEF InstsAscend
<1>11. InstsAscend'
  BY <1>1, <1>8, <1>10 DEF InstsAscend
<1>12. FrameReads'
  <2>1. frame'.start < frame'.end
    BY <1>2, <1>3, <1>5, <1>9
  <2> QED
    BY <1>1, <1>2, <1>3, <1>5, <1>9, <1>10, <2>1 DEF FrameReads
<1>13. ScriptsAhead'
  <2>1. \A r \in scriptInfo' : r \in scriptInfo /\ r # s
    BY <1>1
  <2>2. \A r \in scriptInfo' : s.next <= r.entry
    <3> SUFFICES ASSUME NEW r \in scriptInfo' PROVE s.next <= r.entry
      OBVIOUS
    <3>1. r \in scriptInfo /\ s # r
      BY <2>1
    <3>2. s.index # r.index /\ (s.index < r.index => s.next <= r.entry)
      BY <3>1, <1>4, <1>8 DEF ScriptsAhead
    <3>3. s.index \in Nat /\ r.index \in Nat /\ s.index <= r.index
      BY <3>1, <1>4, <1>5
    <3> QED
      BY <3>2, <3>3
  <2>3. \A r \in scriptInfo' : Bound' <= r.entry + kSectionPointersSize
    BY <1>5, <1>7, <2>1, <2>2
  <2>4. \A f \in Entities : \A t \in Slots :
          entity < f => Bound' <= EntryOf(f, t) + kSectionPointersSize
    <3>1. \A f \in Entities : \A t \in Slots : entity < f => s.next <= EntryOf(f, t)
      BY <1>4, <1>8 DEF ScriptsAhead
    <3> QED
      BY <1>5, <1>6, <1>7, <3>1
  <2> QED
    BY <1>1, <1>8, <2>1, <2>3, <2>4 DEF ScriptsAhead
<1>14. FunctionsDealt'
  <2>1. \A a \in DOMAIN functions :
          a <= functions[a].end /\ functions[a].end < Border' /\ BodyIs(a)
    BY <1>7, <1>8, <1>9 DEF FunctionsDealt, FieldInv, FunctionsCounted
  <2>2. Dealt(DOMAIN functions)' = Len(insts)
    BY <1>1, <1>7, <1>8, DealtKept DEF FunctionsDealt
  <2> QED
    BY <1>1, <1>3, <1>7, <2>1, <2>2, DealtKept DEF FunctionsDealt
<1> QED
  BY <1>11, <1>12, <1>13, <1>14

LEMMA InstsAre ==
  ASSUME FieldInv
  PROVE  /\ Len(insts) \in Nat /\ DOMAIN insts = 1 .. Len(insts)
         /\ \A i \in DOMAIN insts : insts[i].address \in Nat
BY DEF FieldInv, InstsPlaced, IsSequence, LaidOut, Places

LEMMA DealtBefore ==
  ASSUME FieldInv, NEW a
  PROVE  /\ Counted(functions, DOMAIN functions)
         /\ Counted(functions, {b \in DOMAIN functions : b < a})
         /\ Before(a) \in Nat
<1>1. Counted(functions, DOMAIN functions)
  BY DEF FieldInv, FunctionsCounted, Counted
<1> DEFINE S == {b \in DOMAIN functions : b < a}
<1>2. S \subseteq DOMAIN functions
  OBVIOUS
<1>3. Before(a) = Total(functions, S)
  BY DealtIs DEF SumsDealt
<1> HIDE DEF S
<1>4. Counted(functions, S)
  BY <1>1, <1>2, FS_Subset DEF Counted
<1>5. Total(functions, S) \in Nat
  BY <1>4, TotalFacts
<1> QED
  BY <1>1, <1>3, <1>4, <1>5 DEF S

LEMMA ReadInstructionOrder == FieldInv /\ Ordered /\ OrderInv /\ ReadInstruction => OrderInv'
<1> SUFFICES ASSUME FieldInv, Ordered, OrderInv, ReadInstruction
             PROVE  InstsAscend' /\ FrameReads' /\ ScriptsAhead' /\ FunctionsDealt'
  BY DEF OrderInv
<1>1. /\ UNCHANGED <<header, entity, scriptInfo, frame, functions>>
      /\ Entities' = Entities /\ \A f, t : EntryOf(f, t)' = EntryOf(f, t)
  BY DEF ReadInstruction, Entities, EntryOf
<1>2. /\ Reading /\ Reading' /\ position < position' /\ position' <= frame.end
      /\ position \in Places /\ position' \in Nat
  BY ReadIs
<1>3. PICK inst : insts' = Append(insts, inst) /\ inst.address = position
  BY ReadIs
<1>4. /\ Len(insts) \in Nat /\ DOMAIN insts = 1 .. Len(insts)
      /\ \A i \in DOMAIN insts : insts[i].address \in Nat
  BY InstsAre
<1>5. /\ Len(insts') = Len(insts) + 1 /\ DOMAIN insts' = 1 .. Len(insts) + 1
      /\ \A i \in DOMAIN insts : insts'[i] = insts[i]
      /\ insts'[Len(insts) + 1] = inst
  <2>1. IsSequence(insts)
    BY DEF FieldInv, InstsPlaced
  <2> QED
    BY <1>3, <2>1, Appended
<1>6. InstsAscend /\ FrameReads /\ ScriptsAhead /\ FunctionsDealt
  BY DEF OrderInv
<1>7. /\ position \in Nat /\ frame.start \in Nat /\ frame.end \in Nat
      /\ frame.oldNum \in 0 .. Len(insts) /\ frame.start <= position
  BY <1>2, <1>6 DEF FieldInv, FramePlaced, LaidOut, FrameReads
<1>8. \A i \in DOMAIN insts' : i \in DOMAIN insts \/ i = Len(insts) + 1
  BY <1>4, <1>5
<1>9. InstsAscend'
  <2>1. \A i \in DOMAIN insts : insts[i].address < position
    BY <1>6 DEF InstsAscend
  <2>2. \A i \in DOMAIN insts' : insts'[i].address < position'
    BY <1>2, <1>3, <1>4, <1>5, <1>7, <1>8, <2>1
  <2>3. ASSUME NEW i \in DOMAIN insts', NEW j \in DOMAIN insts', i < j
        PROVE  insts'[i].address < insts'[j].address
    <3>1. i \in DOMAIN insts
      BY <1>4, <1>5, <2>3
    <3>2. CASE j \in DOMAIN insts
      BY <1>5, <1>6, <2>3, <3>1, <3>2 DEF InstsAscend
    <3>3. CASE j = Len(insts) + 1
      BY <1>3, <1>5, <2>1, <3>1, <3>3
    <3> QED
      BY <1>8, <3>2, <3>3
  <2> QED
    BY <2>2, <2>3 DEF InstsAscend
<1>10. FrameReads'
  <2>1. \A k \in DOMAIN insts : k <= frame.oldNum <=> insts[k].address < frame.start
    BY <1>2, <1>6 DEF FrameReads
  <2>2. \A k \in DOMAIN insts' : k <= frame.oldNum <=> insts'[k].address < frame.start
    <3>1. ~ (Len(insts) + 1 <= frame.oldNum) /\ ~ (position < frame.start)
      BY <1>4, <1>7
    <3> QED
      BY <1>3, <1>5, <1>8, <2>1, <3>1
  <2>3. frame.start < frame.end /\ frame.start < position' /\ frame.oldNum < Len(insts')
    BY <1>2, <1>4, <1>5, <1>6, <1>7 DEF FrameReads
  <2>4. frame.start <= position'
    BY <1>2, <1>7, <2>3
  <2> QED
    BY <1>1, <1>2, <2>2, <2>3, <2>4 DEF FrameReads
<1>11. Border = frame.start /\ Border' = frame.start /\ Bound = frame.end /\ Bound' = frame.end
  BY <1>1, <1>2 DEF Border, Bound
<1>12. ScriptsAhead'
  BY <1>1, <1>6, <1>11 DEF ScriptsAhead
<1>13. FunctionsDealt'
  <2>1. \A a : Before(a)' = Before(a)
    BY <1>1, DealtIs, DealtNextIs DEF SumsDealt
  <2>2. Dealt(DOMAIN functions)' = Dealt(DOMAIN functions)
    BY <1>1, DealtIs, DealtNextIs DEF SumsDealt
  <2>3. ASSUME NEW a \in DOMAIN functions
        PROVE  BodyIs(a)'
    <3>1. /\ functions[a].end < frame.start /\ BodyIs(a)
          /\ functions[a].num \in Nat /\ functions[a].end \in Nat /\ a \in Nat
      BY <1>6, <1>11 DEF FunctionsDealt, FieldInv, FunctionsCounted
    <3>2. Before(a) \in Nat
      BY DealtBefore
    <3>3. Before(a) + functions[a].num <= Len(insts)
      BY <3>1 DEF BodyIs
    <3>4. ASSUME NEW k \in DOMAIN insts'
          PROVE  k \in Before(a) + 1 .. Before(a) + functions[a].num
                   <=> insts'[k].address \in a .. functions[a].end
      <4>1. CASE k \in DOMAIN insts
        BY <1>5, <3>1, <4>1 DEF BodyIs
      <4>2. CASE k = Len(insts) + 1
        <5>1. k \notin Before(a) + 1 .. Before(a) + functions[a].num
          BY <1>4, <3>1, <3>2, <3>3, <4>2
        <5>2. insts'[k].address \notin a .. functions[a].end
          BY <1>3, <1>5, <1>7, <3>1, <4>2
        <5> QED
          BY <5>1, <5>2
      <4> QED
        BY <1>8, <4>1, <4>2
    <3>5. Before(a) + functions[a].num <= Len(insts')
      BY <1>4, <1>5, <3>1, <3>2, <3>3
    <3> QED
      BY <1>1, <2>1, <3>4, <3>5 DEF BodyIs
  <2> QED
    BY <1>1, <1>2, <1>6, <1>11, <2>2, <2>3 DEF FunctionsDealt
<1> QED
  BY <1>9, <1>10, <1>12, <1>13

LEMMA ReadAgainOrder == FieldInv /\ Ordered /\ OrderInv /\ ReadAgain => OrderInv'
<1> SUFFICES ASSUME FieldInv, Ordered, OrderInv, ReadAgain
             PROVE  InstsAscend' /\ FrameReads' /\ ScriptsAhead' /\ FunctionsDealt'
  BY DEF OrderInv
<1>1. /\ UNCHANGED <<header, entity, scriptInfo, frame, position, insts, functions>>
      /\ Entities' = Entities /\ \A f, t : EntryOf(f, t)' = EntryOf(f, t)
      /\ Reading /\ Reading' /\ phase' = "read"
  BY DEF ReadAgain, BlockRead, Reading, Entities, EntryOf
<1>2. Border' = Border /\ Bound' = Bound
  BY <1>1 DEF Border, Bound
<1>3. InstsAscend /\ FrameReads /\ ScriptsAhead /\ FunctionsDealt
  BY DEF OrderInv
<1>4. InstsAscend' /\ FrameReads' /\ ScriptsAhead'
  BY <1>1, <1>2, <1>3 DEF InstsAscend, FrameReads, ScriptsAhead
<1>5. FunctionsDealt'
  BY <1>1, <1>2, <1>3, FunctionsDealtKept
<1> QED
  BY <1>4, <1>5

LEMMA AddFunctionOrder == FieldInv /\ Ordered /\ OrderInv /\ AddFunction => OrderInv'
<1> SUFFICES ASSUME FieldInv, Ordered, OrderInv, AddFunction
             PROVE  InstsAscend' /\ FrameReads' /\ ScriptsAhead' /\ FunctionsDealt'
  BY DEF OrderInv
<1> DEFINE n == Len(insts)
           last == insts[n].address
           D == DOMAIN functions
<1>1. /\ UNCHANGED <<header, entity, scriptInfo, position, insts>>
      /\ Entities' = Entities /\ \A f, t : EntryOf(f, t)' = EntryOf(f, t)
  BY DEF AddFunction, Entities, EntryOf
<1>2. InstsAscend /\ FrameReads /\ ScriptsAhead /\ FunctionsDealt
  BY DEF OrderInv
<1>3. /\ n \in Nat /\ DOMAIN insts = 1 .. n
      /\ \A i \in DOMAIN insts : insts[i].address \in Nat
  BY InstsAre
<1>4. Reading /\ (phase = "returned" \/ position >= frame.end)
  BY DEF AddFunction, BlockRead, Reading
<1>5. /\ position \in Nat /\ frame.start \in Nat /\ frame.end \in Nat
      /\ frame.oldNum \in 0 .. n
  BY <1>4 DEF FieldInv, FramePlaced, LaidOut
<1>6. /\ frame.start < position /\ position <= frame.end /\ frame.oldNum < n
      /\ \A k \in DOMAIN insts : k <= frame.oldNum <=> insts[k].address < frame.start
  <2>1. /\ frame.start < frame.end /\ frame.start <= position /\ position <= frame.end
        /\ phase = "returned" => frame.start < position
        /\ position # frame.start => frame.oldNum < n
    BY <1>2, <1>4 DEF FrameReads
  <2>2. frame.start < position
    BY <1>4, <1>5, <2>1
  <2> QED
    BY <1>2, <1>4, <1>5, <2>1, <2>2 DEF FrameReads
<1>7. insts # <<>> /\ n \in DOMAIN insts
  BY <1>3, <1>5, <1>6
<1>8. last \in Nat /\ frame.start <= last /\ last < position
  BY <1>2, <1>3, <1>5, <1>6, <1>7 DEF InstsAscend
<1>9. PICK func : /\ functions' = Each({frame.start}, func) ++ functions
                  /\ func.end = last
                  /\ func.num = n - frame.oldNum
  BY <1>7, AddIs
<1>10. \/ /\ position # frame.end /\ phase' = "read"
          /\ frame' = Frame(0, frame.end, FALSE, frame.isEnd, "on_update", FALSE, position)
       \/ position = frame.end /\ phase' = "scripts" /\ UNCHANGED frame
  BY <1>7, AddIs
<1> HIDE DEF n, last, D
<1>11. /\ DOMAIN functions' = {frame.start} \cup D
       /\ functions'[frame.start] = func
       /\ \A x \in D : x # frame.start => functions'[x] = functions[x]
  <2>1. Overlays(functions', frame.start, func, functions)
    BY <1>9, Overlaid
  <2> QED
    BY <2>1 DEF Overlays, D
<1>12. \A a \in D : /\ a \in Nat /\ functions[a].num \in Nat /\ functions[a].end \in Nat
                    /\ a <= functions[a].end /\ functions[a].end < frame.start /\ BodyIs(a)
  BY <1>2, <1>4 DEF FieldInv, FunctionsCounted, FunctionsDealt, Border, D
<1>13. frame.start \notin D /\ \A a \in D : a < frame.start /\ functions'[a] = functions[a]
  BY <1>5, <1>11, <1>12
<1>14. Counted(functions, D) /\ Total(functions, D) = frame.oldNum /\ Total(functions', D) = frame.oldNum
  <2>1. Counted(functions, D)
    BY DealtBefore DEF D
  <2>2. Total(functions, D) = frame.oldNum
    BY <1>2, <1>4, DealtIs DEF SumsDealt, FunctionsDealt, D
  <2> QED
    BY <2>1, <2>2, <1>13, TotalKept
<1>15. func.num \in Nat /\ frame.oldNum + func.num = n
  BY <1>3, <1>5, <1>6, <1>9
<1>16. Border' = position
  <2>1. CASE phase' = "read" /\ frame' = Frame(0, frame.end, FALSE, frame.isEnd, "on_update",
                                               FALSE, position)
    BY <2>1 DEF Border, Reading, Frame
  <2>2. CASE phase' = "scripts"
    BY <1>1, <2>2 DEF Border, Reading
  <2> QED
    BY <1>10, <2>1, <2>2
<1>17. (IF Reading THEN frame.oldNum ELSE Len(insts))' = n
  <2>1. CASE phase' = "read" /\ frame' = Frame(0, frame.end, FALSE, frame.isEnd, "on_update",
                                               FALSE, position)
    BY <2>1 DEF Reading, Frame, n
  <2>2. CASE phase' = "scripts"
    BY <1>1, <2>2 DEF Reading, n
  <2> QED
    BY <1>10, <2>1, <2>2
<1>18. Bound = frame.end /\ Bound' = frame.end
  <2>1. CASE phase' = "read" /\ frame' = Frame(0, frame.end, FALSE, frame.isEnd, "on_update",
                                               FALSE, position)
    BY <1>4, <2>1 DEF Bound, Reading, Frame
  <2>2. CASE position = frame.end /\ phase' = "scripts"
    BY <1>1, <1>4, <2>2 DEF Bound, Reading
  <2> QED
    BY <1>10, <2>1, <2>2
<1>19. InstsAscend'
  BY <1>1, <1>2 DEF InstsAscend
<1>20. ScriptsAhead'
  BY <1>1, <1>2, <1>18 DEF ScriptsAhead
<1>21. FrameReads'
  <2>1. CASE /\ position # frame.end /\ phase' = "read"
             /\ frame' = Frame(0, frame.end, FALSE, frame.isEnd, "on_update", FALSE, position)
    <3>1. frame'.start = position /\ frame'.end = frame.end /\ frame'.oldNum = n
      BY <2>1 DEF Frame, n
    <3>2. position < frame.end
      BY <2>1, <1>5, <1>6
    <3>3. \A k \in DOMAIN insts : k <= n <=> insts[k].address < position
      BY <1>2, <1>3 DEF InstsAscend
    <3>4. position' = position /\ insts' = insts /\ phase' # "returned" /\ position <= position
      BY <1>1, <1>5, <2>1
    <3>5. frame'.start < frame'.end /\ frame'.start <= position' /\ position' <= frame'.end
      BY <1>6, <3>1, <3>2, <3>4
    <3> HIDE <2>1
    <3> QED
      BY <3>1, <3>3, <3>4, <3>5 DEF FrameReads
  <2>2. CASE phase' = "scripts"
    BY <2>2 DEF FrameReads, Reading
  <2> QED
    BY <1>10, <2>1, <2>2
<1>22. Dealt(DOMAIN functions)' = n
  <2>1. Dealt(DOMAIN functions)' = Total(functions', {frame.start} \cup D)
    BY <1>11, DealtNextIs
  <2>2. /\ functions'[frame.start].num \in Nat
        /\ \A b \in D : functions'[b].num = functions[b].num
    BY <1>11, <1>13, <1>15
  <2>3. Total(functions', {frame.start} \cup D)
          = functions'[frame.start].num + Total(functions, D)
    BY <1>13, <1>14, <2>2, TotalExtends
  <2>4. functions'[frame.start].num + Total(functions, D) = n
    BY <1>5, <1>11, <1>14, <1>15
  <2> QED
    BY <2>1, <2>3, <2>4
<1>23. ASSUME NEW a, a = frame.start
       PROVE  BodyIs(a)'
  <2>1. {b \in DOMAIN functions' : b < a} = D
    BY <1>5, <1>11, <1>13, <1>23
  <2>2. Before(a)' = frame.oldNum
    BY <1>14, <2>1, DealtNextIs
  <2>3. functions'[a].num = n - frame.oldNum /\ functions'[a].end = last
    BY <1>9, <1>11, <1>23
  <2>4. ASSUME NEW k \in DOMAIN insts
        PROVE  k \in frame.oldNum + 1 .. n <=> insts[k].address \in frame.start .. last
    <3>1. k \in 1 .. n /\ insts[k].address \in Nat
      BY <1>3
    <3>2. insts[k].address <= last
      BY <1>2, <1>3, <1>7, <1>8, <3>1 DEF InstsAscend, last
    <3> QED
      BY <1>5, <1>6, <1>8, <3>1, <3>2
  <2>5. /\ frame.oldNum + (n - frame.oldNum) <= Len(insts)
        /\ frame.oldNum + (n - frame.oldNum) = n
    BY <1>3, <1>5 DEF n
  <2> QED
    BY <1>1, <1>23, <2>2, <2>3, <2>4, <2>5 DEF BodyIs
<1>24. ASSUME NEW a \in D
       PROVE  BodyIs(a)'
  <2> DEFINE S == {b \in D : b < a}
  <2>1. {b \in DOMAIN functions' : b < a} = S
    BY <1>5, <1>11, <1>12, <1>13
  <2>2. Counted(functions, S) /\ Before(a) = Total(functions, S)
    BY DealtBefore, DealtIs DEF SumsDealt, D
  <2>3. \A b \in S : functions[b].num = functions'[b].num
    BY <1>13
  <2>4. Before(a)' = Total(functions', S)
    BY <2>1, DealtNextIs
  <2> HIDE DEF S
  <2>5. Before(a)' = Before(a)
    BY <2>2, <2>3, <2>4, TotalKept
  <2> QED
    BY <1>1, <1>12, <1>13, <2>5 DEF BodyIs
<1>25. FunctionsDealt'
  <2>1. ASSUME NEW a \in DOMAIN functions'
        PROVE  a <= functions'[a].end /\ functions'[a].end < position /\ BodyIs(a)'
    <3>1. CASE a = frame.start
      BY <1>8, <1>9, <1>11, <1>23, <3>1
    <3>2. CASE a \in D
      BY <1>5, <1>6, <1>12, <1>13, <1>24, <3>2
    <3> QED
      BY <1>11, <3>1, <3>2
  <2> QED
    BY <1>16, <1>17, <1>22, <2>1 DEF FunctionsDealt
<1> QED
  BY <1>19, <1>20, <1>21, <1>25

LEMMA OrderNext == FieldInv /\ OrderInv /\ [CodeNext]_codeVars => OrderInv'
<1> SUFFICES ASSUME FieldInv, OrderInv, [CodeNext]_codeVars, Ordered'
             PROVE  OrderInv'
  BY DEF OrderInv
<1>1. header' = header
  BY DEF CodeNext, Disassemble, NextEntity, StartScript, ReadInstruction, ReadAgain, AddFunction,
         BuildGraph, GenerateFunction, GenerationDone, codeVars, fieldVars
<1>2. Ordered
  BY <1>1, OrderedKept
<1>3. ASSUME UNCHANGED <<header, stream, entity, scriptInfo, frame, position, exitAddrs, insts,
                         functions, entityFunctions>>,
             phase' = phase \/ (~Reading /\ ~Reading')
      PROVE  OrderInv'
  <2>1. /\ Reading' <=> Reading
        /\ phase' = "returned" => phase = "returned"
    BY <1>3 DEF Reading
  <2>2. Border' = Border /\ Bound' = Bound
    BY <1>3, <2>1 DEF Border, Bound
  <2>3. InstsAscend /\ FrameReads /\ ScriptsAhead /\ FunctionsDealt
    BY <1>2 DEF OrderInv
  <2>4. Entities' = Entities /\ \A f, t : EntryOf(f, t)' = EntryOf(f, t)
    BY <1>3 DEF Entities, EntryOf
  <2>5. InstsAscend' /\ FrameReads' /\ ScriptsAhead'
    BY <1>3, <2>1, <2>2, <2>3, <2>4 DEF InstsAscend, FrameReads, ScriptsAhead
  <2>6. FunctionsDealt'
    BY <1>3, <2>1, <2>2, <2>3, FunctionsDealtKept
  <2> QED
    BY <2>5, <2>6 DEF OrderInv
<1>4. CASE Disassemble
  BY <1>2, <1>4, NextEntityOrder, StartScriptOrder, ReadInstructionOrder, ReadAgainOrder,
     AddFunctionOrder DEF Disassemble
<1>5. CASE BuildGraph
  BY <1>3, <1>5 DEF BuildGraph, Reading
<1>6. CASE GenerateFunction
  BY <1>3, <1>6 DEF GenerateFunction, Reading
<1>7. CASE GenerationDone
  BY <1>3, <1>7 DEF GenerationDone, Reading
<1>8. CASE UNCHANGED codeVars
  BY <1>3, <1>8 DEF codeVars, fieldVars
<1> QED
  BY <1>4, <1>5, <1>6, <1>7, <1>8 DEF CodeNext

\* For every file whose entry points ascend: once its scripts are read, the numbers of
\* instructions of the functions deal out the whole sequence, to each function exactly
\* the instructions between its start and its end.  The jumps in it may go anywhere,
\* and scripts may share their entry points or have no bytes.
THEOREM BodiesAlwaysMatch == FieldSpec => []BodiesMatch
<1>1. CodeInit => OrderInv
  BY OrderInit
<1>2. FieldInv /\ OrderInv /\ [CodeNext]_codeVars => OrderInv'
  BY OrderNext
<1>3. OrderInv => BodiesMatch
  BY DEF OrderInv, FunctionsDealt, BodyIs, BodiesMatch
<1> QED
  BY <1>1, <1>2, <1>3, FieldInvariant, PTL DEF FieldSpec

----------------------------------------------------------------------------
(***************************************************************************)
(* on_start.  While the first script of an entity is read, the exit        *)
(* addresses that are tracked are those of the ifs read before, as far as  *)
(* they are not reached, and no return outside of an if lies behind.       *)
(***************************************************************************)
StartOf(e) == EntryOf(e, 1) + kSectionPointersSize
EndOf(e) == EndOfScript(e, 1) + kSectionPointersSize
Free(e) == FreeReturns(StartOf(e), EndOf(e))
LastOf(e) == IF Free(e) # {} THEN Min(Free(e)) ELSE Max({p \in DOMAIN stream : p < EndOf(e)})
LastAddress == insts[Len(insts)].address

IsExit(e, p, d) ==
  /\ p <= d
  /\ \E q \in DOMAIN stream :
       stream[q].op \in CondJumpOpcodes /\ StartOf(e) <= q /\ q < p /\ d = Target(q)

OnStart == Reading /\ frame.toReturnOnly
TracksExits(e) ==
  /\ Falling(exitAddrs)
  /\ \A d : d \in ToSet(exitAddrs) <=> IsExit(e, position, d)
  /\ \A q \in Free(e) : position <= q
OnStartRead ==
  OnStart => \A e \in Entities : e = entity =>
    /\ frame.start = StartOf(e) /\ frame.end = EndOf(e)
    /\ \A r \in scriptInfo : r.index # 0
    /\ ExitsApart(e) /\ phase = "read" => TracksExits(e)
    /\ ExitsApart(e) /\ phase = "returned" =>
         LastAddress \in Free(e) /\ \A q \in Free(e) : LastAddress <= q

\* What has been read of a script ends with the last instruction.
LastRead ==
  Reading /\ position # frame.start =>
    \A p \in DOMAIN stream : p < position <=> p <= LastAddress

StartsFirst ==
  \A e \in Entities : e = entity =>
    \A r \in scriptInfo : r.index = 0 =>
      r.entry = EntryOf(e, 1) /\ r.next = EndOfScript(e, 1)

AllRead == phase \in {"graph", "generate"} => entity = Len(header.scripts) /\ scriptInfo = {}

DoneWith(e) ==
  e < entity \/ (e = entity /\ ~OnStart /\ \A r \in scriptInfo : r.index # 0)
OnStartIs(e) == StartOf(e) \in DOMAIN functions /\ functions[StartOf(e)].end = LastOf(e)
OnStartsEnd ==
  \A e \in Entities :
    ExitsApart(e) /\ StartOf(e) < EndOf(e) /\ DoneWith(e) => OnStartIs(e)

StartInv == Ordered => OnStartRead /\ LastRead /\ StartsFirst /\ AllRead /\ OnStartsEnd

LEMMA StartKept ==
  ASSUME UNCHANGED <<header, stream>>, NEW e
  PROVE  /\ StartOf(e)' = StartOf(e) /\ EndOf(e)' = EndOf(e) /\ Free(e)' = Free(e)
         /\ LastOf(e)' = LastOf(e) /\ ExitsApart(e)' = ExitsApart(e)
         /\ EntryOf(e, 1)' = EntryOf(e, 1) /\ EndOfScript(e, 1)' = EndOfScript(e, 1)
         /\ Entities' = Entities
<1>1. EndOfScript(e, 1)' = EndOfScript(e, 1) /\ EntryOf(e, 1)' = EntryOf(e, 1) /\ Entities' = Entities
  BY DEF EndOfScript, EntryPoint, NthScript, EntryOf, Entities
<1>2. StartOf(e)' = StartOf(e) /\ EndOf(e)' = EndOf(e)
  BY <1>1 DEF StartOf, EndOf
<1>3. Free(e)' = Free(e)
  BY <1>2 DEF Free, FreeReturns
<1>4. ExitsApart(e)' = ExitsApart(e)
  BY <1>1 DEF ExitsApart
<1>5. LastOf(e)' = LastOf(e)
  BY <1>2, <1>3 DEF LastOf
<1> QED
  BY <1>1, <1>2, <1>3, <1>4, <1>5

LEMMA StartIsPlace ==
  ASSUME LaidOut, NEW e \in Entities
  PROVE  /\ 1 \in Slots /\ EntryOf(e, 1) \in Nat /\ EndOfScript(e, 1) \in Nat
         /\ StartOf(e) \in Places /\ EndOf(e) \in Places /\ StartOf(e) \in Nat /\ EndOf(e) \in Nat
         /\ Places \subseteq Nat /\ DOMAIN stream \subseteq Places
<1>1. 1 \in Slots
  BY FieldAssumption DEF Slots
<1>2. EndOfScript(e, 1) \in Nat /\ EndOf(e) \in Places
  BY <1>1, EndIsPlace DEF EndOf
<1>3. EntryOf(e, 1) \in Nat /\ StartOf(e) \in Places
  BY <1>1 DEF LaidOut, StartOf
<1> QED
  BY <1>1, <1>2, <1>3 DEF LaidOut, Places

\* A return of script 0 is free unless an if before it goes behind it.
LEMMA FreeIs ==
  ASSUME NEW e, NEW q
  PROVE  q \in Free(e) <=>
           /\ q \in DOMAIN stream /\ StartOf(e) <= q /\ q < EndOf(e) /\ stream[q].op = "RET"
           /\ ~\E p \in DOMAIN stream :
                /\ stream[p].op \in CondJumpOpcodes /\ StartOf(e) <= p /\ p < EndOf(e)
                /\ p < q /\ q < Target(p)
BY DEF Free, FreeReturns, Target

\* Where the exits are apart, an if is read with no exit tracked that its own reaches.
LEMMA ApartIs ==
  ASSUME LaidOut, NEW e \in Entities, ExitsApart(e), NEW p \in DOMAIN stream, NEW q \in DOMAIN stream,
         stream[p].op \in CondJumpOpcodes, stream[q].op \in CondJumpOpcodes,
         StartOf(e) <= p, p < q, q < EndOf(e)
  PROVE  Target(p) < q \/ Target(q) < Target(p)
<1>1. /\ p \in Nat /\ q \in Nat /\ StartOf(e) \in Nat /\ EndOf(e) \in Nat
      /\ EntryOf(e, 1) \in Nat
  BY StartIsPlace
<1> DEFINE ifs == {i \in DOMAIN stream : stream[i].op \in CondJumpOpcodes
                     /\ header.scripts[e][1] <= i - kSectionPointersSize
                     /\ i < EndOfScript(e, 1) + kSectionPointersSize}
<1>2. \A i, j \in ifs : i < j => Target(i) < j \/ Target(j) < Target(i)
  BY DEF ExitsApart, Target
<1>3. p \in ifs /\ q \in ifs
  <2>1. p < EndOf(e) /\ StartOf(e) <= q
    BY <1>1
  <2>2. \A i \in Nat : StartOf(e) <= i => EntryOf(e, 1) <= i - kSectionPointersSize
    BY <1>1, FieldAssumption DEF StartOf
  <2> QED
    BY <1>1, <2>1, <2>2 DEF EndOf, EntryOf
<1> HIDE DEF ifs
<1> QED
  BY <1>2, <1>3

\* The first script of an entity is read unless it has no bytes.
LEMMA FirstIsRead ==
  ASSUME NEW e, 1 \in Slots, EndOfScript(e, 1) # EntryOf(e, 1)
  PROVE  \E r \in ScriptInfos(e) : r.index = 0
<1> DEFINE entry == header.scripts[e]
           First(s) == \A t \in 1 .. s - 1 : entry[t] # entry[s]
           kept == {s \in 1 .. ScriptsPerEntity : First(s) /\ EndOfScript(e, s) # entry[s]}
           info(s) == [index |-> s - 1, entry |-> entry[s], next |-> EndOfScript(e, s),
                       isStart |-> s = Min(kept), isEnd |-> s = Max(kept)]
<1>1. ScriptInfos(e) = {info(s) : s \in kept}
  BY DEF ScriptInfos
<1>2. 1 \in kept
  <2>1. First(1)
    OBVIOUS
  <2> QED
    BY <2>1 DEF Slots, EntryOf
<1>3. info(1).index = 0
  OBVIOUS
<1> HIDE DEF info, kept
<1> QED
  BY <1>1, <1>2, <1>3

\* What holds of the on_starts stays as long as no function is added and the same
\* entities are done with.
LEMMA OnStartsEndKept ==
  ASSUME OnStartsEnd, UNCHANGED <<header, stream, functions>>, \A e : DoneWith(e)' => DoneWith(e)
  PROVE  OnStartsEnd'
<1> SUFFICES ASSUME NEW e \in Entities', ExitsApart(e)', (StartOf(e) < EndOf(e))', DoneWith(e)'
             PROVE  OnStartIs(e)'
  BY DEF OnStartsEnd
<1>1. e \in Entities /\ ExitsApart(e) /\ StartOf(e) < EndOf(e) /\ DoneWith(e)
  BY StartKept
<1>2. OnStartIs(e)
  BY <1>1 DEF OnStartsEnd
<1> QED
  BY <1>2, StartKept DEF OnStartIs

LEMMA NextEntityStart == FieldInv /\ Ordered /\ OrderInv /\ StartInv /\ NextEntity => StartInv'
<1> SUFFICES ASSUME FieldInv, Ordered, OrderInv, StartInv, NextEntity
             PROVE  OnStartRead' /\ LastRead' /\ StartsFirst' /\ AllRead' /\ OnStartsEnd'
  BY DEF StartInv
<1>1. /\ UNCHANGED <<header, stream, position, frame, insts, functions>>
      /\ scriptInfo = {} /\ phase = "scripts" /\ phase' \in {"scripts", "graph"}
  BY DEF NextEntity
<1>2. ~Reading /\ ~Reading' /\ ~OnStart /\ ~OnStart'
  BY <1>1 DEF Reading, OnStart
<1>3. OnStartRead' /\ LastRead'
  BY <1>2 DEF OnStartRead, LastRead
<1>4. LaidOut /\ entity \in 0 .. Len(header.scripts) /\ Len(header.scripts) \in Nat
      /\ Entities = 1 .. Len(header.scripts) /\ OnStartsEnd
  BY DEF FieldInv, ScriptsPlaced, LaidOut, StartInv
<1>5. CASE entity < Len(header.scripts)
  <2> DEFINE n == entity + 1
  <2>1. entity' = n /\ scriptInfo' = ScriptInfos(n) /\ phase' = "scripts"
    BY <1>1, <1>5 DEF NextEntity
  <2>2. n \in Entities /\ entity < n /\ \A e \in Entities : e < n => e < entity \/ e = entity
    BY <1>4, <1>5
  <2> HIDE DEF n
  <2>3. AllRead'
    BY <2>1 DEF AllRead
  <2>4. StartsFirst'
    <3> SUFFICES ASSUME NEW e \in Entities', e = entity', NEW r \in scriptInfo', r.index = 0
                 PROVE  r.entry = EntryOf(e, 1)' /\ r.next = EndOfScript(e, 1)'
      BY DEF StartsFirst
    <3>1. PICK s \in Slots : r.index = s - 1 /\ r.entry = EntryOf(n, s) /\ r.next = EndOfScript(n, s)
      BY <1>4, <2>1, <2>2, ScriptInfosAre
    <3>2. s = 1
      BY <3>1, FieldAssumption DEF Slots
    <3> QED
      BY <1>1, <2>1, <3>1, <3>2, StartKept
  <2>5. OnStartsEnd'
    <3> SUFFICES ASSUME NEW e \in Entities', ExitsApart(e)', (StartOf(e) < EndOf(e))', DoneWith(e)'
                 PROVE  OnStartIs(e)'
      BY DEF OnStartsEnd
    <3>1. e \in Entities /\ ExitsApart(e) /\ StartOf(e) < EndOf(e)
      BY <1>1, StartKept
    <3>2. e < n
      <4>1. e < n \/ (e = n /\ \A r \in ScriptInfos(n) : r.index # 0)
        BY <2>1 DEF DoneWith
      <4>2. ASSUME e = n
            PROVE  \E r \in ScriptInfos(n) : r.index = 0
        <5>1. EndOfScript(n, 1) # EntryOf(n, 1) /\ 1 \in Slots
          BY <1>4, <3>1, <4>2, StartIsPlace DEF StartOf, EndOf
        <5> QED
          BY <5>1, FirstIsRead
      <4> QED
        BY <4>1, <4>2
    <3>3. DoneWith(e)
      BY <1>1, <1>2, <2>2, <3>1, <3>2 DEF DoneWith
    <3>4. OnStartIs(e)
      BY <1>4, <3>1, <3>3 DEF OnStartsEnd
    <3> QED
      BY <1>1, <3>4, StartKept DEF OnStartIs
  <2> QED
    BY <1>3, <2>3, <2>4, <2>5
<1>6. CASE ~ (entity < Len(header.scripts))
  <2>1. entity' = entity /\ scriptInfo' = scriptInfo /\ entity = Len(header.scripts)
    BY <1>4, <1>6 DEF NextEntity
  <2>2. StartsFirst' /\ AllRead'
    BY <1>1, <2>1 DEF StartsFirst, AllRead
  <2>3. \A e : DoneWith(e)' <=> DoneWith(e)
    BY <1>2, <2>1 DEF DoneWith
  <2> QED
    BY <1>1, <1>3, <1>4, <2>2, <2>3, OnStartsEndKept
<1> QED
  BY <1>5, <1>6

LEMMA StartScriptStart == FieldInv /\ Ordered /\ OrderInv /\ StartInv /\ StartScript => StartInv'
<1> SUFFICES ASSUME FieldInv, Ordered, OrderInv, StartInv, StartScript
             PROVE  OnStartRead' /\ LastRead' /\ StartsFirst' /\ AllRead' /\ OnStartsEnd'
  BY DEF StartInv
<1> DEFINE s == NextScript
<1>1. /\ UNCHANGED <<header, stream, entity, insts, functions>>
      /\ scriptInfo' = scriptInfo \ {s} /\ phase = "scripts" /\ phase' = "read"
      /\ exitAddrs' = <<>>
  BY DEF StartScript
<1>2. /\ position' = s.entry + kSectionPointersSize
      /\ frame' = Frame(s.index, s.next + kSectionPointersSize, s.isStart, s.isEnd,
                        FunctionName(s.index), s.index = 0, s.entry + kSectionPointersSize)
  BY DEF StartScript
<1>3. /\ frame'.start = position' /\ frame'.end = s.next + kSectionPointersSize
      /\ frame'.toReturnOnly = (s.index = 0)
  BY <1>2 DEF Frame
<1>4. s \in scriptInfo /\ \A r \in scriptInfo : s.index <= r.index
  BY NextScriptIs DEF StartScript, FieldInv, ScriptsPlaced
<1> HIDE DEF s
<1>5. s.index \in Nat /\ \A r \in scriptInfo : r.index \in Nat
  BY <1>4 DEF FieldInv, ScriptsPlaced
<1>6. ~OnStart /\ Reading' /\ (OnStart' <=> s.index = 0)
  BY <1>1, <1>3 DEF OnStart, Reading
<1>7. LaidOut /\ StartsFirst /\ OnStartsEnd
  BY DEF FieldInv, StartInv
<1>8. LastRead' /\ AllRead'
  BY <1>1, <1>3 DEF LastRead, AllRead
<1>9. StartsFirst'
  BY <1>1, <1>7, StartKept DEF StartsFirst
<1>10. OnStartRead'
  <2> SUFFICES ASSUME s.index = 0, NEW e \in Entities', e = entity'
               PROVE  /\ frame'.start = StartOf(e)' /\ frame'.end = EndOf(e)'
                      /\ \A r \in scriptInfo' : r.index # 0
                      /\ TracksExits(e)'
    BY <1>1, <1>6 DEF OnStartRead
  <2>1. e \in Entities /\ e = entity
    BY <1>1, StartKept
  <2>2. s.entry = EntryOf(e, 1) /\ s.next = EndOfScript(e, 1)
    BY <1>4, <1>7, <2>1 DEF StartsFirst
  <2>3. frame'.start = StartOf(e) /\ frame'.end = EndOf(e) /\ position' = StartOf(e)
    BY <1>2, <1>3, <2>2 DEF StartOf, EndOf
  <2>4. \A r \in scriptInfo' : r.index # 0
    <3>1. \A r \in scriptInfo : s # r => s.index # r.index
      BY <1>4 DEF OrderInv, ScriptsAhead
    <3> QED
      BY <1>1, <3>1
  <2>5. Falling(exitAddrs') /\ ToSet(exitAddrs') = {}
    BY <1>1 DEF Falling, ToSet
  <2>6. \A d : ~IsExit(e, position, d)'
    <3>1. \A q \in DOMAIN stream : ~ (StartOf(e) <= q /\ q < StartOf(e))
      BY <1>7, <2>1, StartIsPlace
    <3> QED
      BY <1>1, <2>3, <3>1, StartKept DEF IsExit
  <2>7. \A q \in Free(e)' : position' <= q
    BY <1>1, <2>3, FreeIs, StartKept
  <2> QED
    BY <1>1, <2>3, <2>4, <2>5, <2>6, <2>7, StartKept DEF TracksExits
<1>11. OnStartsEnd'
  <2>1. ASSUME s.index # 0
        PROVE  \A r \in scriptInfo : r.index # 0
    BY <1>4, <1>5, <2>1
  <2>2. \A e : DoneWith(e)' => DoneWith(e)
    BY <1>1, <1>6, <2>1 DEF DoneWith
  <2> QED
    BY <1>1, <1>7, <2>2, OnStartsEndKept
<1> QED
  BY <1>8, <1>9, <1>10, <1>11

\* The next place is the end of the instruction.
LEMMA PlacesBehind ==
  ASSUME FieldInv, ReadInstruction
  PROVE  \A p \in Places : /\ p < position' <=> p <= position
                           /\ position' <= p <=> position < p
<1>1. /\ position \in DOMAIN stream /\ position' = position + stream[position].bytes
      /\ position < position' /\ position' \in Nat /\ position \in Places
  BY ReadIs
<1>2. LaidOut /\ Places \subseteq Nat
  BY DEF FieldInv, LaidOut
<1> SUFFICES ASSUME NEW p \in Places
             PROVE  /\ p < position' <=> p <= position
                    /\ position' <= p <=> position < p
  OBVIOUS
<1>3. p \in Nat /\ position \in Nat
  BY <1>1, <1>2
<1>4. position < p => position' <= p
  BY <1>1, <1>2 DEF LaidOut
<1> QED
  BY <1>1, <1>3, <1>4

LEMMA GreatestIs ==
  ASSUME NEW T, T \subseteq Nat, NEW n \in T, \A m \in T : m <= n
  PROVE  Max(T) = n
<1>1. \A m \in T : n >= m
  OBVIOUS
<1>2. Max(T) \in T /\ \A m \in T : Max(T) >= m
  BY <1>1 DEF Max
<1>3. Max(T) \in Nat /\ n \in Nat /\ Max(T) >= n /\ n >= Max(T)
  BY <1>1, <1>2
<1> HIDE DEF Max
<1> QED
  BY <1>3

\* One more instruction of on_start.
LEMMA ExitsGoOn ==
  ASSUME FieldInv, ReadInstruction, NEW e \in Entities, ExitsApart(e), TracksExits(e),
         StartOf(e) <= position, position < EndOf(e), frame.end = EndOf(e)
  PROVE  /\ Falling(exitAddrs')
         /\ \A d : d \in ToSet(exitAddrs') <=> IsExit(e, position', d)
         /\ phase' = IF position \in Free(e) THEN "returned" ELSE "read"
<1>1. /\ phase = "read" /\ position \in DOMAIN stream /\ position' = position + stream[position].bytes
      /\ position' \in Places /\ position < position' /\ position' \in Nat /\ position \in Places
  BY ReadIs
<1>2. PICK inst : /\ exitAddrs' = TrackExits(exitAddrs, inst)
                  /\ inst.address = position /\ inst.op = stream[position].op
                  /\ inst.op \in CondJumpOpcodes => /\ inst.dest = Target(position)
                                                   /\ inst.dest \in Places
                                                   /\ inst.dest \in Int
                                                   /\ position < inst.dest
  BY ReadIs
<1>3. /\ LaidOut /\ exitAddrs \in Seq(Int) /\ Places \subseteq Nat /\ DOMAIN stream \subseteq Places
      /\ StartOf(e) \in Nat /\ EndOf(e) \in Nat /\ position \in Nat
  BY <1>1, StartIsPlace DEF FieldInv, InstsPlaced
<1>4. \A p \in Places : p < position' <=> p <= position
  BY PlacesBehind
<1>5. \A p \in Places : position' <= p <=> position < p
  BY PlacesBehind
<1>6. /\ Falling(exitAddrs) /\ (\A d : d \in ToSet(exitAddrs) <=> IsExit(e, position, d))
      /\ \A q \in Free(e) : position <= q
  BY DEF TracksExits
<1>7. \A q \in DOMAIN stream : stream[q].op \in CondJumpOpcodes =>
        Target(q) \in Places /\ Target(q) \in Nat /\ q < Target(q)
  BY <1>3 DEF LaidOut
<1>8. \A d \in ToSet(exitAddrs) : inst.address <= d
  BY <1>2, <1>6 DEF IsExit
<1>9. ASSUME inst.op \in CondJumpOpcodes, NEW d \in ToSet(exitAddrs)
      PROVE  inst.dest < d
  <2>1. position <= d /\ IsExit(e, position, d)
    BY <1>6 DEF IsExit
  <2>2. PICK q \in DOMAIN stream :
          stream[q].op \in CondJumpOpcodes /\ StartOf(e) <= q /\ q < position /\ d = Target(q)
    BY <2>1 DEF IsExit
  <2>3. Target(q) < position \/ Target(position) < Target(q)
    BY <1>1, <1>2, <1>3, <1>9, <2>2, ApartIs
  <2>4. d \in Nat
    BY <1>7, <2>2
  <2> QED
    BY <1>2, <1>3, <1>9, <2>1, <2>2, <2>3, <2>4
<1>10. /\ Falling(exitAddrs')
       /\ \A d : d \in ToSet(exitAddrs') <=>
                   \/ d \in ToSet(exitAddrs) /\ d # position
                   \/ inst.op \in CondJumpOpcodes /\ d = inst.dest
  <2>1. inst.address \in Int /\ (inst.op \in CondJumpOpcodes => inst.dest \in Int /\ inst.address < inst.dest)
    BY <1>2, <1>3
  <2> QED
    BY <1>2, <1>3, <1>6, <1>8, <1>9, <2>1, TrackedExits
<1>11. ASSUME NEW d
       PROVE  d \in ToSet(exitAddrs') <=> IsExit(e, position', d)
  <2>1. ASSUME d \in ToSet(exitAddrs), d # position
        PROVE  IsExit(e, position', d)
    <3>1. PICK q \in DOMAIN stream :
            stream[q].op \in CondJumpOpcodes /\ StartOf(e) <= q /\ q < position /\ d = Target(q)
      BY <1>6, <2>1 DEF IsExit
    <3>2. d \in Places /\ d \in Nat /\ position <= d
      BY <1>6, <1>7, <2>1, <3>1 DEF IsExit
    <3>3. position' <= d
      BY <1>3, <1>5, <2>1, <3>2
    <3>4. q < position'
      BY <1>1, <1>3, <3>1
    <3> QED
      BY <3>1, <3>3, <3>4 DEF IsExit
  <2>2. ASSUME inst.op \in CondJumpOpcodes, d = inst.dest
        PROVE  IsExit(e, position', d)
    <3>1. d = Target(position) /\ d \in Places /\ position < d /\ d \in Nat
      BY <1>2, <1>3, <2>2
    <3>2. position' <= d
      BY <1>5, <3>1
    <3> QED
      BY <1>1, <1>2, <2>2, <3>1, <3>2 DEF IsExit
  <2>3. ASSUME IsExit(e, position', d)
        PROVE  \/ d \in ToSet(exitAddrs) /\ d # position
               \/ inst.op \in CondJumpOpcodes /\ d = inst.dest
    <3>1. PICK q \in DOMAIN stream :
            stream[q].op \in CondJumpOpcodes /\ StartOf(e) <= q /\ q < position' /\ d = Target(q)
      BY <2>3 DEF IsExit
    <3>2. position' <= d /\ d \in Nat /\ position <= d /\ d # position
      BY <1>1, <1>3, <1>7, <2>3, <3>1 DEF IsExit
    <3>3. q \in Nat /\ q <= position
      BY <1>3, <1>4, <3>1
    <3>4. CASE q = position
      BY <1>2, <3>1, <3>4
    <3>5. CASE q # position
      <4>1. q < position
        BY <1>3, <3>3, <3>5
      <4>2. IsExit(e, position, d)
        BY <3>1, <3>2, <4>1 DEF IsExit
      <4> QED
        BY <1>6, <3>2, <4>2
    <3> QED
      BY <3>4, <3>5
  <2> QED
    BY <1>10, <2>1, <2>2, <2>3
<1>12. phase' = IF position \in Free(e) THEN "returned" ELSE "read"
  <2>1. phase' = IF stream[position].op = "RET" /\ exitAddrs' = <<>> THEN "returned" ELSE "read"
    BY <1>1 DEF ReadInstruction
  <2>2. exitAddrs' = <<>> <=> \A d : ~IsExit(e, position', d)
    <3>1. exitAddrs' \in Seq(Int)
      BY <1>2, <1>3, TrackedExits
    <3>2. exitAddrs' = <<>> <=> ToSet(exitAddrs') = {}
      BY <3>1 DEF ToSet
    <3> QED
      BY <1>11, <3>2
  <2>3. ASSUME stream[position].op = "RET"
        PROVE  position \in Free(e) <=> \A d : ~IsExit(e, position', d)
    <3>1. stream[position].op \notin CondJumpOpcodes
      BY <2>3 DEF CondJumpOpcodes
    <3>2. ASSUME NEW d, IsExit(e, position', d)
          PROVE  \E p \in DOMAIN stream :
                   /\ stream[p].op \in CondJumpOpcodes /\ StartOf(e) <= p /\ p < EndOf(e)
                   /\ p < position /\ position < Target(p)
      <4>1. PICK q \in DOMAIN stream :
              stream[q].op \in CondJumpOpcodes /\ StartOf(e) <= q /\ q < position' /\ d = Target(q)
        BY <3>2 DEF IsExit
      <4>2. q \in Nat /\ q <= position /\ q # position
        <5>1. q \in Places /\ q \in Nat
          BY <1>3
        <5>2. q <= position
          BY <1>4, <4>1, <5>1
        <5> QED
          BY <3>1, <4>1, <5>1, <5>2
      <4>3. position' <= d /\ d \in Nat
        BY <1>7, <3>2, <4>1 DEF IsExit
      <4>4. q < position /\ q < EndOf(e) /\ position < Target(q)
        BY <1>1, <1>3, <4>1, <4>2, <4>3
      <4> QED
        BY <4>1, <4>4
    <3>3. ASSUME NEW p \in DOMAIN stream,
                 stream[p].op \in CondJumpOpcodes, StartOf(e) <= p, p < position, position < Target(p)
          PROVE  IsExit(e, position', Target(p))
      <4>1. position' <= Target(p) /\ p < position'
        <5>1. p \in Places /\ p \in Nat /\ Target(p) \in Places
          BY <1>3, <1>7, <3>3
        <5>2. position' <= Target(p)
          BY <1>5, <3>3, <5>1
        <5> QED
          BY <1>1, <1>3, <3>3, <5>1, <5>2
      <4> QED
        BY <3>3, <4>1 DEF IsExit
    <3> QED
      BY <1>1, <2>3, <3>2, <3>3, FreeIs
  <2>4. stream[position].op # "RET" => position \notin Free(e)
    BY FreeIs
  <2> QED
    BY <2>1, <2>2, <2>3, <2>4
<1> QED
  BY <1>10, <1>11, <1>12

LEMMA ReadInstructionStart ==
  FieldInv /\ Ordered /\ OrderInv /\ StartInv /\ ReadInstruction => StartInv'
<1> SUFFICES ASSUME FieldInv, Ordered, OrderInv, StartInv, ReadInstruction
             PROVE  OnStartRead' /\ LastRead' /\ StartsFirst' /\ AllRead' /\ OnStartsEnd'
  BY DEF StartInv
<1>1. UNCHANGED <<header, stream, entity, scriptInfo, frame, functions>>
  BY DEF ReadInstruction
<1>2. /\ phase = "read" /\ phase' \in {"read", "returned"} /\ Reading /\ Reading'
      /\ position \in DOMAIN stream /\ position < frame.end /\ position' \in Nat
      /\ position \in Places /\ position < position'
  BY ReadIs DEF ReadInstruction
<1>3. PICK inst : insts' = Append(insts, inst) /\ inst.address = position
  BY ReadIs
<1>4. LastAddress' = position
  <2>1. IsSequence(insts)
    BY DEF FieldInv, InstsPlaced
  <2>2. insts'[Len(insts')] = inst
    BY <1>3, <2>1, Appended
  <2> QED
    BY <1>3, <2>2 DEF LastAddress
<1>5. LaidOut /\ OnStartRead /\ StartsFirst /\ OnStartsEnd
  BY DEF FieldInv, StartInv
<1>6. OnStart' <=> OnStart
  BY <1>1, <1>2 DEF OnStart
<1>7. StartsFirst' /\ AllRead'
  BY <1>1, <1>2, <1>5, StartKept DEF StartsFirst, AllRead
<1>8. OnStartsEnd'
  <2>1. \A e : DoneWith(e)' => DoneWith(e)
    BY <1>1, <1>6 DEF DoneWith
  <2> QED
    BY <1>1, <1>5, <2>1, OnStartsEndKept
<1>9. LastRead'
  <2>1. \A p \in DOMAIN stream : p < position' <=> p <= position
    BY PlacesBehind DEF Places
  <2> QED
    BY <1>1, <1>4, <2>1 DEF LastRead
<1>10. OnStartRead'
  <2> SUFFICES ASSUME OnStart, NEW e \in Entities', e = entity'
               PROVE  /\ frame'.start = StartOf(e)' /\ frame'.end = EndOf(e)'
                      /\ \A r \in scriptInfo' : r.index # 0
                      /\ ExitsApart(e)' /\ phase' = "read" => TracksExits(e)'
                      /\ ExitsApart(e)' /\ phase' = "returned" =>
                           LastAddress' \in Free(e)' /\ \A q \in Free(e)' : LastAddress' <= q
    BY <1>6 DEF OnStartRead
  <2>1. e \in Entities /\ e = entity
    BY <1>1, StartKept
  <2>2. /\ frame.start = StartOf(e) /\ frame.end = EndOf(e)
        /\ \A r \in scriptInfo : r.index # 0
        /\ ExitsApart(e) => TracksExits(e)
    BY <1>2, <1>5, <2>1 DEF OnStartRead
  <2>3. frame'.start = StartOf(e)' /\ frame'.end = EndOf(e)' /\ \A r \in scriptInfo' : r.index # 0
    BY <1>1, <2>2, StartKept
  <2>4. ASSUME ExitsApart(e)
        PROVE  /\ phase' = "read" => TracksExits(e)'
               /\ phase' = "returned" => position \in Free(e) /\ \A q \in Free(e) : position <= q
    <3>1. TracksExits(e) /\ StartOf(e) <= position /\ position < EndOf(e)
      BY <1>2, <2>2, <2>4 DEF OrderInv, FrameReads
    <3>2. /\ Falling(exitAddrs') /\ (\A d : d \in ToSet(exitAddrs') <=> IsExit(e, position', d))
          /\ phase' = IF position \in Free(e) THEN "returned" ELSE "read"
      BY <2>1, <2>2, <2>4, <3>1, ExitsGoOn
    <3>3. \A q \in Free(e) : position <= q
      BY <3>1 DEF TracksExits
    <3>4. ASSUME phase' = "read"
          PROVE  TracksExits(e)'
      <4>1. position \notin Free(e)
        BY <3>2, <3>4
      <4>2. \A q \in Free(e) : q \in Places /\ q \in Nat
        BY <1>5, <2>1, FreeIs, StartIsPlace
      <4>3. \A q \in Free(e) : position < q
        BY <1>5, <2>1, <3>3, <4>1, <4>2, StartIsPlace, <1>2
      <4>4. \A q \in Free(e)' : position' <= q
        BY <1>1, <4>2, <4>3, StartKept, PlacesBehind
      <4>5. \A d : IsExit(e, position, d)' <=> IsExit(e, position', d)
        BY <1>1, StartKept DEF IsExit, Target
      <4> QED
        BY <3>2, <4>4, <4>5 DEF TracksExits
    <3> QED
      BY <3>2, <3>3, <3>4
  <2> QED
    BY <1>1, <1>4, <2>3, <2>4, StartKept
<1> QED
  BY <1>7, <1>8, <1>9, <1>10

LEMMA ReadAgainStart == FieldInv /\ Ordered /\ OrderInv /\ StartInv /\ ReadAgain => StartInv'
<1> SUFFICES ASSUME FieldInv, Ordered, OrderInv, StartInv, ReadAgain
             PROVE  OnStartRead' /\ LastRead' /\ StartsFirst' /\ AllRead' /\ OnStartsEnd'
  BY DEF StartInv
<1>1. /\ UNCHANGED <<header, stream, entity, scriptInfo, frame, position, insts, functions>>
      /\ phase' = "read" /\ Reading /\ Reading' /\ ~OnStart /\ ~OnStart'
  BY DEF ReadAgain, BlockRead, Reading, OnStart
<1>2. LastRead /\ StartsFirst /\ OnStartsEnd
  BY DEF StartInv
<1>3. OnStartRead' /\ AllRead'
  BY <1>1 DEF OnStartRead, AllRead
<1>4. LastRead' /\ StartsFirst'
  BY <1>1, <1>2, StartKept DEF LastRead, LastAddress, StartsFirst
<1>5. OnStartsEnd'
  <2>1. \A e : DoneWith(e)' => DoneWith(e)
    BY <1>1 DEF DoneWith
  <2> QED
    BY <1>1, <1>2, <2>1, OnStartsEndKept
<1> QED
  BY <1>3, <1>4, <1>5

LEMMA AddFunctionStart == FieldInv /\ Ordered /\ OrderInv /\ StartInv /\ AddFunction => StartInv'
<1> SUFFICES ASSUME FieldInv, Ordered, OrderInv, StartInv, AddFunction
             PROVE  OnStartRead' /\ LastRead' /\ StartsFirst' /\ AllRead' /\ OnStartsEnd'
  BY DEF StartInv
<1>1. UNCHANGED <<header, stream, entity, scriptInfo, position, insts>>
  BY DEF AddFunction
<1>2. LaidOut /\ OnStartRead /\ LastRead /\ StartsFirst /\ OnStartsEnd
  BY DEF FieldInv, StartInv
<1>3. Reading /\ (phase = "returned" \/ (phase = "read" /\ position >= frame.end))
  BY DEF AddFunction, BlockRead, Reading
<1>4. /\ position \in Nat /\ frame.start \in Nat /\ frame.end \in Nat
      /\ Len(insts) \in Nat /\ DOMAIN insts = 1 .. Len(insts)
      /\ frame.start < position /\ position <= frame.end /\ insts # <<>>
  <2>1. /\ position \in Nat /\ frame.start \in Nat /\ frame.end \in Nat
        /\ frame.oldNum \in 0 .. Len(insts)
    BY <1>3 DEF FieldInv, FramePlaced, LaidOut
  <2>2. /\ frame.start < frame.end /\ frame.start <= position /\ position <= frame.end
        /\ phase = "returned" => frame.start < position
        /\ position # frame.start => frame.oldNum < Len(insts)
    BY <1>3 DEF OrderInv, FrameReads
  <2>3. frame.start < position
    BY <1>3, <2>1, <2>2
  <2>4. Len(insts) \in Nat /\ DOMAIN insts = 1 .. Len(insts) /\ frame.oldNum < Len(insts)
    BY <2>1, <2>2, <2>3, InstsAre
  <2> QED
    BY <2>1, <2>2, <2>3, <2>4
<1>5. PICK func : functions' = Each({frame.start}, func) ++ functions /\ func.end = LastAddress
  BY <1>4, AddIs DEF LastAddress
<1>6. \/ /\ phase' = "read"
         /\ frame' = Frame(0, frame.end, FALSE, frame.isEnd, "on_update", FALSE, position)
      \/ position = frame.end /\ phase' = "scripts" /\ UNCHANGED frame
  BY <1>4, AddIs
<1>7. /\ DOMAIN functions' = {frame.start} \cup DOMAIN functions
      /\ functions'[frame.start] = func
      /\ \A x \in DOMAIN functions : x # frame.start => functions'[x] = functions[x]
  <2>1. Overlays(functions', frame.start, func, functions)
    BY <1>5, Overlaid
  <2> QED
    BY <2>1 DEF Overlays
<1>8. frame.start \notin DOMAIN functions
  <2>1. \A a \in DOMAIN functions : /\ a \in Nat /\ functions[a].end \in Nat
                                    /\ a <= functions[a].end /\ functions[a].end < frame.start
    BY <1>3 DEF FieldInv, FunctionsCounted, OrderInv, FunctionsDealt, Border
  <2> QED
    BY <1>4, <2>1
<1>9. ~OnStart' /\ phase' \in {"read", "scripts"}
  BY <1>6 DEF OnStart, Reading, Frame
<1>10. OnStartRead' /\ AllRead'
  BY <1>9 DEF OnStartRead, AllRead
<1>11. StartsFirst'
  BY <1>1, <1>2, StartKept DEF StartsFirst
<1>12. LastRead'
  <2>1. CASE frame' = Frame(0, frame.end, FALSE, frame.isEnd, "on_update", FALSE, position)
    BY <1>1, <2>1 DEF LastRead, Frame
  <2>2. CASE phase' = "scripts"
    BY <2>2 DEF LastRead, Reading
  <2> QED
    BY <1>6, <2>1, <2>2
<1>13. ASSUME NEW e \in Entities, OnStart, e = entity, ExitsApart(e)
       PROVE  frame.start = StartOf(e) /\ LastAddress = LastOf(e)
  <2>1. /\ frame.start = StartOf(e) /\ frame.end = EndOf(e)
        /\ phase = "read" => TracksExits(e)
        /\ phase = "returned" => LastAddress \in Free(e) /\ \A q \in Free(e) : LastAddress <= q
    BY <1>2, <1>13 DEF OnStartRead
  <2>2. /\ Free(e) \subseteq DOMAIN stream /\ DOMAIN stream \subseteq Nat
        /\ \A q \in Free(e) : q < EndOf(e)
    BY <1>2, FreeIs, StartIsPlace
  <2>3. CASE phase = "returned"
    <3>1. Free(e) \subseteq Nat /\ Free(e) # {}
      BY <2>1, <2>2, <2>3
    <3>2. Min(Free(e)) \in Free(e) /\ \A q \in Free(e) : Min(Free(e)) <= q
      BY <3>1, LeastOf
    <3>3. LastOf(e) = Min(Free(e))
      BY <3>1 DEF LastOf
    <3>4. LastAddress \in Nat /\ Min(Free(e)) \in Nat
      BY <2>1, <2>3, <3>1, <3>2
    <3>5. LastAddress <= Min(Free(e)) /\ Min(Free(e)) <= LastAddress
      BY <2>1, <2>3, <3>2
    <3> HIDE DEF LastAddress
    <3> QED
      BY <2>1, <3>3, <3>4, <3>5
  <2>4. CASE phase = "read"
    <3> DEFINE before == {p \in DOMAIN stream : p < EndOf(e)}
    <3>1. position = EndOf(e)
      BY <1>3, <1>4, <2>1, <2>4
    <3>2. Free(e) = {}
      <4>1. \A q \in Free(e) : position <= q /\ q < position /\ q \in Nat
        BY <2>1, <2>2, <2>4, <3>1 DEF TracksExits
      <4> QED
        BY <1>4, <4>1
    <3>3. \A p \in DOMAIN stream : p < position <=> p <= LastAddress
      BY <1>2, <1>3, <1>4 DEF LastRead
    <3>4. LastAddress \in DOMAIN stream /\ LastAddress \in Nat
      <4>1. Len(insts) \in DOMAIN insts
        BY <1>4
      <4>2. LastAddress \in DOMAIN stream
        BY <4>1 DEF FieldInv, InstsPlaced, LastAddress
      <4> QED
        BY <2>2, <4>2
    <3>5. before \subseteq Nat /\ LastAddress \in before /\ \A p \in before : p <= LastAddress
      BY <2>2, <3>1, <3>3, <3>4
    <3>6. LastOf(e) = Max(before)
      BY <3>2 DEF LastOf
    <3> HIDE DEF before
    <3>7. Max(before) = LastAddress
      BY <3>5, GreatestIs
    <3> QED
      BY <2>1, <3>6, <3>7
  <2> QED
    BY <1>3, <2>3, <2>4
<1>14. OnStartsEnd'
  <2> SUFFICES ASSUME NEW e \in Entities', ExitsApart(e)', (StartOf(e) < EndOf(e))', DoneWith(e)'
               PROVE  OnStartIs(e)'
    BY DEF OnStartsEnd
  <2>1. e \in Entities /\ ExitsApart(e) /\ StartOf(e) < EndOf(e)
    BY <1>1, StartKept
  <2>2. DoneWith(e) \/ (e = entity /\ OnStart)
    BY <1>1 DEF DoneWith
  <2>3. CASE DoneWith(e)
    <3>1. OnStartIs(e)
      BY <1>2, <2>1, <2>3 DEF OnStartsEnd
    <3>2. StartOf(e) \in DOMAIN functions /\ functions'[StartOf(e)].end = LastOf(e)
      BY <1>7, <1>8, <3>1 DEF OnStartIs
    <3> QED
      BY <1>1, <1>7, <3>2, StartKept DEF OnStartIs
  <2>4. CASE e = entity /\ OnStart
    <3>1. frame.start = StartOf(e) /\ LastAddress = LastOf(e)
      BY <1>13, <2>1, <2>4
    <3> QED
      BY <1>1, <1>5, <1>7, <3>1, StartKept DEF OnStartIs
  <2> QED
    BY <2>2, <2>3, <2>4
<1> QED
  BY <1>10, <1>11, <1>12, <1>14

LEMMA StartNext == FieldInv /\ OrderInv /\ StartInv /\ [CodeNext]_codeVars => StartInv'
<1> SUFFICES ASSUME FieldInv, OrderInv, StartInv, [CodeNext]_codeVars, Ordered'
             PROVE  StartInv'
  BY DEF StartInv
<1>1. header' = header
  BY DEF CodeNext, Disassemble, NextEntity, StartScript, ReadInstruction, ReadAgain, AddFunction,
         BuildGraph, GenerateFunction, GenerationDone, codeVars, fieldVars
<1>2. Ordered
  BY <1>1, OrderedKept
<1>3. ASSUME UNCHANGED <<header, stream, entity, scriptInfo, frame, position, exitAddrs, insts,
                         functions, entityFunctions>>,
             phase' = phase \/ (~Reading /\ ~Reading'),
             phase' \in {"graph", "generate"} => phase \in {"graph", "generate"}
      PROVE  StartInv'
  <2>1. (Reading' <=> Reading) /\ (Reading => phase' = phase)
    BY <1>3 DEF Reading
  <2>2. OnStart' <=> OnStart
    BY <1>3, <2>1 DEF OnStart
  <2>3. OnStartRead /\ LastRead /\ StartsFirst /\ AllRead /\ OnStartsEnd
    BY <1>2 DEF StartInv
  <2>4. \A e : TracksExits(e)' <=> TracksExits(e)
    <3>1. \A e, d : IsExit(e, position, d)' <=> IsExit(e, position, d)
      BY <1>3, StartKept DEF IsExit, Target
    <3> QED
      BY <1>3, <3>1, StartKept DEF TracksExits
  <2>5. OnStartRead'
    <3>1. LastAddress' = LastAddress /\ (OnStart => phase' = phase)
      BY <1>3, <2>1 DEF LastAddress, OnStart
    <3> QED
      BY <1>3, <2>2, <2>3, <2>4, <3>1, StartKept DEF OnStartRead
  <2>6. LastRead' /\ StartsFirst' /\ AllRead'
    BY <1>3, <2>1, <2>3, StartKept DEF LastRead, LastAddress, StartsFirst, AllRead
  <2>7. OnStartsEnd'
    <3>1. \A e : DoneWith(e)' => DoneWith(e)
      BY <1>3, <2>2 DEF DoneWith
    <3> QED
      BY <1>3, <2>3, <3>1, OnStartsEndKept
  <2> QED
    BY <2>5, <2>6, <2>7 DEF StartInv
<1>4. CASE Disassemble
  BY <1>2, <1>4, NextEntityStart, StartScriptStart, ReadInstructionStart, ReadAgainStart,
     AddFunctionStart DEF Disassemble
<1>5. CASE BuildGraph
  BY <1>3, <1>5 DEF BuildGraph, Reading
<1>6. CASE GenerateFunction
  BY <1>3, <1>6 DEF GenerateFunction, Reading
<1>7. CASE GenerationDone
  BY <1>3, <1>7 DEF GenerationDone, Reading
<1>8. CASE UNCHANGED codeVars
  BY <1>3, <1>8 DEF codeVars, fieldVars
<1> QED
  BY <1>4, <1>5, <1>6, <1>7, <1>8 DEF CodeNext

\* For every file whose entry points ascend: the on_start of an entity whose ifs nest or
\* follow each other without a shared exit, whatever is jumped to otherwise, ends at the
\* first return of script 0 that no if encloses, or with the script.
THEOREM OnStartAlwaysEndsAtReturn == FieldSpec => []OnStartEndsAtReturnApart
<1>1. CodeInit => StartInv
  <2> SUFFICES ASSUME CodeInit
               PROVE  OnStartRead /\ LastRead /\ StartsFirst /\ AllRead /\ OnStartsEnd
    BY DEF StartInv
  <2>1. phase = "scripts" /\ entity = 0 /\ scriptInfo = {} /\ ~Reading /\ ~OnStart
    BY DEF CodeInit, FieldInit, Reading, OnStart
  <2>2. \A e \in Entities : ~DoneWith(e)
    BY <2>1, LaidOutInit DEF CodeInit, LaidOut, DoneWith
  <2> QED
    BY <2>1, <2>2 DEF OnStartRead, LastRead, StartsFirst, AllRead, OnStartsEnd
<1>2. FieldInv /\ OrderInv /\ StartInv /\ [CodeNext]_codeVars => StartInv'
  BY StartNext
<1>3. FieldInv /\ StartInv => OnStartEndsAtReturnApart
  <2> SUFFICES ASSUME FieldInv, StartInv, phase = "generate", Ordered,
                      NEW e \in Entities, ExitsApart(e)
               PROVE  EndsAtReturn(e)
    BY DEF OnStartEndsAtReturnApart
  <2>1. /\ ~OnStart /\ scriptInfo = {} /\ entity = Len(header.scripts)
        /\ e \in 1 .. Len(header.scripts) /\ Len(header.scripts) \in Nat
    BY DEF StartInv, AllRead, OnStart, Reading, FieldInv, LaidOut
  <2>2. DoneWith(e)
    BY <2>1 DEF DoneWith
  <2>3. StartOf(e) < EndOf(e) => OnStartIs(e)
    BY <2>2 DEF StartInv, OnStartsEnd
  <2> QED
    BY <2>3 DEF EndsAtReturn, OnStartIs, LastOf, Free, StartOf, EndOf, EntryOf
<1>4. CodeInit => OrderInv
  BY OrderInit
<1>5. FieldInv /\ OrderInv /\ [CodeNext]_codeVars => OrderInv'
  BY OrderNext
<1> QED
  BY <1>1, <1>2, <1>3, <1>4, <1>5, FieldInvariant, PTL DEF FieldSpec
----------------------------------------------------------------------------
(***************************************************************************)
(* Requests.  An entity is known by its name in the header, and a script   *)
(* by the name of the function at its entry point; the functions that come *)
(* later never take its place.                                             *)
(***************************************************************************)
Entry(e, s) == EntryOf(e, s + 1) + kSectionPointersSize

ScriptNamed(e, s, name) ==
  /\ s \in Nat /\ s + 1 \in Slots /\ Entry(e, s) \in DOMAIN functions
  /\ name = functions[Entry(e, s)].name \/ (s = 0 /\ name = "on_update")

EntitiesNamed ==
  \A e \in DOMAIN entityFunctions :
    /\ DOMAIN entityFunctions[e] = {"name", "funcs"}
    /\ entityFunctions[e].name = header.names[e]
    /\ \A s \in DOMAIN entityFunctions[e].funcs :
         ScriptNamed(e, s, entityFunctions[e].funcs[s])

\* The function that is read begins at an entry point, or it is an on_update and
\* the on_start ahead of it has been added.
FrameNamed ==
  Reading =>
    /\ frame.entity = entity /\ frame.script \in Nat /\ frame.script + 1 \in Slots
    /\ frame.toReturnOnly => frame.script = 0
    /\ \/ frame.start = Entry(entity, frame.script)
       \/ /\ frame.script = 0 /\ frame.name = "on_update" /\ ~frame.toReturnOnly
          /\ Entry(entity, 0) \in DOMAIN functions

ScriptsNamed ==
  \A r \in scriptInfo : /\ r.index \in Nat /\ r.index + 1 \in Slots
                        /\ r.entry + kSectionPointersSize = Entry(entity, r.index)

NameInv == Ordered => EntitiesNamed /\ FrameNamed /\ ScriptsNamed

LEMMA NamesKept ==
  ASSUME UNCHANGED <<header, functions, entityFunctions>>
  PROVE  /\ \A e, s : Entry(e, s)' = Entry(e, s)
         /\ \A e, s, name : ScriptNamed(e, s, name)' <=> ScriptNamed(e, s, name)
         /\ EntitiesNamed => EntitiesNamed'
<1>1. \A e, s : Entry(e, s)' = Entry(e, s)
  BY DEF Entry, EntryOf
<1>2. \A e, s, name : ScriptNamed(e, s, name)' <=> ScriptNamed(e, s, name)
  BY <1>1 DEF ScriptNamed, Slots
<1> QED
  BY <1>1, <1>2 DEF EntitiesNamed

LEMMA AddNames ==
  ASSUME FieldInv, Ordered, OrderInv, NameInv, AddFunction, insts # <<>>
  PROVE  EntitiesNamed' /\ FrameNamed' /\ ScriptsNamed'
<1> DEFINE name == header.names[frame.entity]
           isEnd == frame.isEnd /\ position = frame.end
           end == Last(insts).address
           func == [name |-> frame.name, start |-> frame.start, end |-> end,
                    num |-> NumRead,
                    metadata |-> MetaData(frame.isStart, isEnd,
                                          CharacterId(frame.start, end, name), name)]
           known == IF frame.entity \in DOMAIN entityFunctions
                    THEN entityFunctions[frame.entity]
                    ELSE [name |-> name, funcs |-> <<>>]
           named == [known EXCEPT !.funcs = Each({frame.script}, frame.name) ++ @]
<1>1. /\ functions' = Each({frame.start}, func) ++ functions
      /\ entityFunctions' = Each({frame.entity}, named) ++ entityFunctions
      /\ IF frame.toReturnOnly /\ position # frame.end
         THEN /\ frame' = Frame(0, frame.end, FALSE, frame.isEnd, "on_update", FALSE, position)
              /\ phase' = "read"
         ELSE /\ phase' = "scripts"
      /\ UNCHANGED <<header, entity, scriptInfo>>
  BY DEF AddFunction
<1>2. func.name = frame.name
  OBVIOUS
<1>3. EntitiesNamed /\ FrameNamed /\ ScriptsNamed /\ Reading
  BY DEF NameInv, AddFunction, BlockRead, Reading
<1>4. /\ DOMAIN known = {"name", "funcs"} /\ known.name = name
      /\ \A s \in DOMAIN known.funcs : ScriptNamed(frame.entity, s, known.funcs[s])
  BY <1>3 DEF EntitiesNamed
<1> HIDE DEF known, func
<1>5. /\ DOMAIN named = {"name", "funcs"} /\ named.name = name
      /\ named.funcs = Each({frame.script}, frame.name) ++ known.funcs
  BY <1>4
<1> HIDE DEF named
<1>6. Overlays(functions', frame.start, func, functions)
  BY <1>1, Overlaid
<1>7. Overlays(entityFunctions', frame.entity, named, entityFunctions)
  BY <1>1, Overlaid
<1>8. Overlays(named.funcs, frame.script, frame.name, known.funcs)
  BY <1>5, Overlaid
<1>9. frame.start \notin DOMAIN functions
  <2>1. \A a \in DOMAIN functions : a \in Nat /\ functions[a].end \in Nat
    BY DEF FieldInv, FunctionsCounted
  <2>2. \A a \in DOMAIN functions : a <= functions[a].end /\ functions[a].end < frame.start
    BY <1>3 DEF OrderInv, FunctionsDealt, Border
  <2>3. frame.start \in Nat
    BY <1>3 DEF FieldInv, FramePlaced, LaidOut
  <2> QED
    BY <2>1, <2>2, <2>3
<1>10. \A e, s : Entry(e, s)' = Entry(e, s)
  BY <1>1 DEF Entry, EntryOf
<1>11. \A e, s, n : ScriptNamed(e, s, n) => ScriptNamed(e, s, n)'
  BY <1>6, <1>9, <1>10 DEF ScriptNamed, Overlays, Slots
<1>12. ASSUME NEW e, e = frame.entity, NEW s, s = frame.script, NEW n, n = frame.name
       PROVE  ScriptNamed(e, s, n)'
  <2>1. /\ frame.script \in Nat /\ frame.script + 1 \in Slots /\ frame.entity = entity
        /\ \/ frame.start = Entry(entity, frame.script)
           \/ /\ frame.script = 0 /\ frame.name = "on_update"
              /\ Entry(entity, 0) \in DOMAIN functions
    BY <1>3 DEF FrameNamed
  <2>2. /\ Entry(e, s) \in DOMAIN functions'
        /\ n = functions'[Entry(e, s)].name \/ (s = 0 /\ n = "on_update")
    BY <1>2, <1>6, <1>12, <2>1 DEF Overlays
  <2> QED
    BY <1>10, <1>12, <2>1, <2>2 DEF ScriptNamed, Slots
<1>13. EntitiesNamed'
  <2>1. ASSUME NEW e \in DOMAIN entityFunctions', e # frame.entity
        PROVE  /\ DOMAIN entityFunctions'[e] = {"name", "funcs"}
               /\ entityFunctions'[e].name = header.names[e]
               /\ \A s \in DOMAIN entityFunctions'[e].funcs :
                    ScriptNamed(e, s, entityFunctions[e].funcs[s])'
    <3>1. e \in DOMAIN entityFunctions /\ entityFunctions'[e] = entityFunctions[e]
      BY <1>7, <2>1 DEF Overlays
    <3>2. \A s \in DOMAIN entityFunctions[e].funcs : ScriptNamed(e, s, entityFunctions[e].funcs[s])
      BY <1>3, <3>1 DEF EntitiesNamed
    <3>3. \A s \in DOMAIN entityFunctions[e].funcs : \A n :
            n = entityFunctions[e].funcs[s] => ScriptNamed(e, s, n)'
      BY <1>11, <3>2
    <3>4. \A s \in DOMAIN entityFunctions'[e].funcs : ScriptNamed(e, s, entityFunctions[e].funcs[s])'
      BY <3>1, <3>3
    <3> QED
      BY <1>3, <3>1, <3>4 DEF EntitiesNamed
  <2>2. ASSUME NEW e \in DOMAIN entityFunctions', e = frame.entity
        PROVE  /\ DOMAIN entityFunctions'[e] = {"name", "funcs"}
               /\ entityFunctions'[e].name = header.names[e]
               /\ \A s \in DOMAIN entityFunctions'[e].funcs :
                    ScriptNamed(e, s, entityFunctions[e].funcs[s])'
    <3>1. entityFunctions'[e] = named
      BY <1>7, <2>2 DEF Overlays
    <3>2. ASSUME NEW s \in DOMAIN named.funcs, NEW n, n = named.funcs[s]
          PROVE  ScriptNamed(e, s, n)'
      <4>1. CASE s = frame.script
        BY <1>8, <1>12, <2>2, <3>2, <4>1 DEF Overlays
      <4>2. CASE s # frame.script
        <5>1. s \in DOMAIN known.funcs /\ n = known.funcs[s]
          BY <1>8, <3>2, <4>2 DEF Overlays
        <5> QED
          BY <1>4, <1>11, <2>2, <5>1
      <4> QED
        BY <4>1, <4>2
    <3>3. \A s \in DOMAIN entityFunctions'[e].funcs : ScriptNamed(e, s, entityFunctions[e].funcs[s])'
      BY <3>1, <3>2
    <3> QED
      BY <1>5, <2>2, <3>1, <3>3
  <2> QED
    BY <1>1, <2>1, <2>2 DEF EntitiesNamed
<1>14. FrameNamed'
  <2>1. CASE /\ frame.toReturnOnly /\ phase' = "read"
             /\ frame' = Frame(0, frame.end, FALSE, frame.isEnd, "on_update", FALSE, position)
    <3>1. /\ frame'.entity = entity /\ frame'.script = 0 /\ frame'.name = "on_update"
          /\ frame'.toReturnOnly = FALSE
      BY <2>1 DEF Frame
    <3>2. frame.script = 0 /\ frame.entity = entity /\ frame.start = Entry(entity, 0)
      BY <1>3, <2>1 DEF FrameNamed
    <3>3. Entry(entity, 0) \in DOMAIN functions'
      BY <1>6, <3>2 DEF Overlays
    <3>4. 0 + 1 \in Slots
      BY FieldAssumption DEF Slots
    <3>5. Entry(entity, 0)' = Entry(entity, 0)
      BY <1>1, <1>10 DEF Entry, EntryOf
    <3> QED
      BY <1>1, <3>1, <3>3, <3>4, <3>5 DEF FrameNamed, Slots
  <2>2. CASE phase' = "scripts"
    BY <2>2 DEF FrameNamed, Reading
  <2> QED
    BY <1>1, <2>1, <2>2
<1>15. ScriptsNamed'
  <2>1. \A r : Entry(entity, r.index)' = Entry(entity, r.index)
    BY <1>1 DEF Entry, EntryOf
  <2> QED
    BY <1>1, <1>3, <2>1 DEF ScriptsNamed, Slots
<1> QED
  BY <1>13, <1>14, <1>15

LEMMA StartNames ==
  ASSUME FieldInv, Ordered, NameInv, StartScript
  PROVE  EntitiesNamed' /\ FrameNamed' /\ ScriptsNamed'
<1> DEFINE s == NextScript
<1>1. /\ UNCHANGED <<header, entity, functions, entityFunctions>>
      /\ scriptInfo' = scriptInfo \ {s}
      /\ frame' = Frame(s.index, s.next + kSectionPointersSize, s.isStart, s.isEnd,
                        FunctionName(s.index), s.index = 0, s.entry + kSectionPointersSize)
  BY DEF StartScript
<1>2. s \in scriptInfo
  BY NextScriptIs DEF StartScript, FieldInv, ScriptsPlaced
<1> HIDE DEF s
<1>3. EntitiesNamed /\ ScriptsNamed
  BY DEF NameInv
<1>4. /\ EntitiesNamed' /\ \A e, t : Entry(e, t)' = Entry(e, t)
  BY <1>1, <1>3, NamesKept
<1>5. /\ frame'.entity = entity /\ frame'.script = s.index /\ frame'.toReturnOnly = (s.index = 0)
      /\ frame'.start = s.entry + kSectionPointersSize
  BY <1>1 DEF Frame
<1>6. \A t : Entry(entity, t)' = Entry(entity, t)
  BY <1>1, <1>4 DEF Entry, EntryOf
<1>7. /\ s.index \in Nat /\ s.index + 1 \in Slots
      /\ s.entry + kSectionPointersSize = Entry(entity, s.index)
  BY <1>2, <1>3 DEF ScriptsNamed
<1>8. FrameNamed'
  <2>1. \A t : t = s.index => Entry(entity, t)' = Entry(entity, s.index)
    BY <1>6
  <2>2. frame'.start = Entry(entity, frame.script)'
    BY <1>1, <1>5, <1>7, <2>1 DEF Entry, EntryOf
  <2> QED
    BY <1>1, <1>5, <1>7, <2>2 DEF FrameNamed, Slots
<1>9. ScriptsNamed'
  <2>1. \A r : Entry(entity, r.index)' = Entry(entity, r.index)
    BY <1>1 DEF Entry, EntryOf
  <2> QED
    BY <1>1, <1>3, <2>1 DEF ScriptsNamed, Slots
<1> QED
  BY <1>4, <1>8, <1>9

LEMMA EntityNames ==
  ASSUME FieldInv, Ordered, NameInv, NextEntity
  PROVE  EntitiesNamed' /\ FrameNamed' /\ ScriptsNamed'
<1>1. /\ UNCHANGED <<header, functions, entityFunctions>> /\ ~Reading'
      /\ scriptInfo = {}
      /\ \/ entity + 1 \in Entities /\ entity' = entity + 1 /\ scriptInfo' = ScriptInfos(entity')
         \/ UNCHANGED <<entity, scriptInfo>>
  BY DEF NextEntity, Reading, FieldInv, ScriptsPlaced, LaidOut
<1>2. EntitiesNamed' /\ FrameNamed'
  BY <1>1, NamesKept DEF NameInv, FrameNamed
<1>3. ASSUME NEW r \in scriptInfo'
      PROVE  /\ r.index \in Nat /\ r.index + 1 \in Slots
             /\ r.entry = header.scripts[entity'][r.index + 1]
  <2>1. entity' \in Entities /\ r \in ScriptInfos(entity') /\ LaidOut
    BY <1>1, <1>3 DEF FieldInv
  <2>2. PICK s \in Slots : r.index = s - 1 /\ r.entry = EntryOf(entity', s)
    <3>1. ASSUME NEW e \in Entities, NEW q \in ScriptInfos(e)
          PROVE  \E s \in Slots : q.index = s - 1 /\ q.entry = EntryOf(e, s)
      BY <2>1, <3>1, ScriptInfosAre
    <3> QED
      BY <2>1, <3>1
  <2>3. s - 1 \in Nat /\ s - 1 + 1 = s
    BY FieldAssumption DEF Slots
  <2> QED
    BY <2>2, <2>3 DEF EntryOf
<1>4. ScriptsNamed'
  BY <1>1, <1>3 DEF ScriptsNamed, Entry, EntryOf, Slots
<1> QED
  BY <1>2, <1>4

LEMMA NameInit == CodeInit => NameInv
<1> SUFFICES ASSUME CodeInit PROVE EntitiesNamed /\ FrameNamed /\ ScriptsNamed
  BY DEF NameInv
<1>1. phase = "scripts" /\ scriptInfo = {} /\ DOMAIN entityFunctions = {}
  BY DEF CodeInit, FieldInit
<1> QED
  BY <1>1 DEF EntitiesNamed, FrameNamed, ScriptsNamed, Reading

LEMMA NameNext == FieldInv /\ OrderInv /\ NameInv /\ [CodeNext]_codeVars => NameInv'
<1> SUFFICES ASSUME FieldInv, OrderInv, NameInv, [CodeNext]_codeVars, Ordered'
             PROVE  EntitiesNamed' /\ FrameNamed' /\ ScriptsNamed'
  BY DEF NameInv
<1>1. header' = header
  BY DEF CodeNext, Disassemble, NextEntity, StartScript, ReadInstruction, ReadAgain, AddFunction,
         BuildGraph, GenerateFunction, GenerationDone, codeVars, fieldVars
<1>2. Ordered
  BY <1>1, OrderedKept
<1>3. ASSUME UNCHANGED <<header, entity, scriptInfo, frame, functions, entityFunctions>>,
             Reading' => Reading
      PROVE  EntitiesNamed' /\ FrameNamed' /\ ScriptsNamed'
  <2>1. EntitiesNamed /\ FrameNamed /\ ScriptsNamed
    BY <1>2 DEF NameInv
  <2>2. EntitiesNamed'
    BY <1>3, <2>1, NamesKept
  <2>3. FrameNamed' /\ ScriptsNamed'
    BY <1>3, <2>1 DEF FrameNamed, ScriptsNamed, Entry, EntryOf, Slots
  <2> QED
    BY <2>2, <2>3
<1>4. CASE NextEntity
  BY <1>2, <1>4, EntityNames
<1>5. CASE StartScript
  BY <1>2, <1>5, StartNames
<1>6. CASE ReadInstruction
  BY <1>3, <1>6 DEF ReadInstruction, Reading
<1>7. CASE ReadAgain
  BY <1>3, <1>7 DEF ReadAgain, BlockRead, Reading
<1>8. CASE AddFunction
  <2>1. CASE insts = <<>>
    BY <1>3, <1>8, <2>1 DEF AddFunction, Reading
  <2> QED
    BY <1>2, <1>8, <2>1, AddNames
<1>9. CASE BuildGraph
  BY <1>3, <1>9 DEF BuildGraph, Reading
<1>10. CASE GenerateFunction
  BY <1>3, <1>10 DEF GenerateFunction, Reading
<1>11. CASE GenerationDone
  BY <1>3, <1>11 DEF GenerationDone, Reading
<1>12. CASE UNCHANGED codeVars
  BY <1>3, <1>12 DEF codeVars, fieldVars, Reading
<1> QED
  BY <1>4, <1>5, <1>6, <1>7, <1>8, <1>9, <1>10, <1>11, <1>12 DEF CodeNext, Disassemble

----------------------------------------------------------------------------
(***************************************************************************)
(* The lines.  Those of an instruction are for it alone; a request is for  *)
(* one whose entity and script are known, and prints their names.          *)
(***************************************************************************)
Known(i) == FunctionKnown(insts[i].to, insts[i].val)
NamesOf(i) == <<entityFunctions[insts[i].to].name,
                entityFunctions[insts[i].to].funcs[insts[i].val]>>
LineFor(kind, at, dest, text) == [kind |-> kind, at |-> at, dest |-> dest, text |-> text]

Requesting == {LineFor("request", insts[i].address, 0, NamesOf(i)) :
                 i \in {j \in DOMAIN insts : Known(j)}}
Bodily == {LineFor(k, insts[i].address, d, <<>>) :
             k \in {"end", "label", "if", "goto", "statement"}, i \in DOMAIN insts,
             d \in {0} \cup {insts[j].dest : j \in DOMAIN insts}}
Titles == {<<>>} \cup {functions[b].name : b \in DOMAIN functions}
            \cup {ParseMetaData(functions[b].metadata).name : b \in DOMAIN functions}
Framing == {LineFor(k, a, 0, t) : k \in {"class", "function", "endfunction", "endclass"},
                                  a \in DOMAIN functions, t \in Titles}
Printable == Requesting \cup Bodily \cup Framing

LineInv ==
  /\ phase \in {"scripts", "read", "returned", "graph"} => lines = <<>>
  /\ Ordered => lines \in Seq(Printable)

LEMMA EndsAre ==
  ASSUME NEW n \in Nat, NEW i \in DOMAIN insts
  PROVE  Ends(n, insts[i].address) \in Seq(Printable)
<1>1. Line("end", insts[i].address) = LineFor("end", insts[i].address, 0, <<>>)
  BY DEF Line, LineFor
<1>2. LineFor("end", insts[i].address, 0, <<>>) \in Bodily
  BY DEF Bodily
<1>3. Line("end", insts[i].address) \in Printable
  BY <1>1, <1>2 DEF Printable
<1> DEFINE l == Line("end", insts[i].address)
<1>4. Ends(n, insts[i].address) = [e \in 1 .. n |-> l]
  BY DEF Ends
<1> HIDE DEF l
<1> QED
  BY <1>3, <1>4 DEF l

LEMMA BodyHolds ==
  ASSUME FieldInv, Ordered, OrderInv, NEW a \in DOMAIN functions
  PROVE  /\ functions[a].num \in Nat
         /\ Body(a) \in Seq(ToSet(insts)) /\ DOMAIN Body(a) = 1 .. functions[a].num
         /\ \A i \in DOMAIN Body(a) : \E j \in DOMAIN insts : Body(a)[i] = insts[j]
<1> DEFINE m == Before(a)
           n == functions[a].num
<1>1. m \in Nat /\ n \in Nat
  BY DealtBefore DEF FieldInv, FunctionsCounted
<1>2. m + n <= Len(insts) /\ Len(insts) \in Nat /\ DOMAIN insts = 1 .. Len(insts)
  BY InstsAre DEF OrderInv, FunctionsDealt, BodyIs
<1>3. Body(a) = SubSeq(insts, m + 1, m + n)
  BY DEF Body
<1> HIDE DEF m, n
<1>4. \A k \in m + 1 .. m + n : k \in DOMAIN insts /\ insts[k] \in ToSet(insts)
  BY <1>1, <1>2 DEF ToSet
<1>5. Body(a) \in Seq(ToSet(insts)) /\ Len(Body(a)) = n
  <2> DEFINE p == m + 1
             q == m + n
             T == ToSet(insts)
  <2>1. p \in Int /\ q \in Int /\ \A k \in p .. q : insts[k] \in T
    BY <1>1, <1>4
  <2>2. Body(a) = SubSeq(insts, p, q)
    BY <1>3
  <2>3. (IF p <= q THEN q - p + 1 ELSE 0) = n
    BY <1>1
  <2>4. T = ToSet(insts)
    OBVIOUS
  <2> HIDE DEF p, q, T
  <2>5. /\ SubSeq(insts, p, q) \in Seq(T)
        /\ Len(SubSeq(insts, p, q)) = IF p <= q THEN q - p + 1 ELSE 0
    BY <2>1, SubSeqProperties
  <2> QED
    BY <2>2, <2>3, <2>4, <2>5
<1>6. DOMAIN Body(a) = 1 .. n
  BY <1>1, <1>5
<1>7. \A i \in DOMAIN Body(a) : \E j \in DOMAIN insts : Body(a)[i] = insts[j]
  <2>1. \A i \in DOMAIN Body(a) : Body(a)[i] \in ToSet(insts)
    BY <1>5
  <2> QED
    BY <2>1 DEF ToSet
<1> QED
  BY <1>1, <1>5, <1>6, <1>7 DEF n

LEMMA LabelsAre ==
  ASSUME NEW body, NEW n \in Nat, DOMAIN body = 1 .. n, NEW i \in 1 .. n,
         NEW j \in DOMAIN insts, body[i] = insts[j]
  PROVE  LabelLines(body, i) \in Seq(Printable)
<1> DEFINE ifs == {o \in Origins(body, i) : IsCond(body[o])}
           label == IF ifs # Origins(body, i) THEN <<Line("label", body[i].address)>> ELSE <<>>
<1>1. ifs \subseteq 1 .. n
  BY DEF Origins
<1>2. Cardinality(ifs) \in Nat
  <2> HIDE DEF ifs
  <2>1. IsFiniteSet(1 .. n)
    BY FS_Interval
  <2>2. IsFiniteSet(ifs)
    BY <1>1, <2>1, FS_Subset
  <2> QED
    BY <2>2, FS_CardinalityType
<1>3. LabelLines(body, i) = Ends(Cardinality(ifs), insts[j].address) \o label
  BY DEF LabelLines
<1>4. Line("label", insts[j].address) \in Printable
  <2>1. Line("label", insts[j].address) = LineFor("label", insts[j].address, 0, <<>>)
    BY DEF Line, LineFor
  <2>2. LineFor("label", insts[j].address, 0, <<>>) \in Bodily
    BY DEF Bodily
  <2> QED
    BY <2>1, <2>2 DEF Printable
<1>5. label \in Seq(Printable)
  <2> DEFINE l == Line("label", insts[j].address)
  <2>1. label = <<>> \/ label = <<l>>
    OBVIOUS
  <2> HIDE DEF ifs, label, l
  <2>2. <<>> \in Seq(Printable)
    OBVIOUS
  <2>3. <<l>> \in Seq(Printable)
    BY <1>4 DEF l
  <2> QED
    BY <2>1, <2>2, <2>3
<1> HIDE DEF ifs, label
<1>6. Ends(Cardinality(ifs), insts[j].address) \in Seq(Printable)
  BY <1>2, EndsAre
<1> QED
  BY <1>3, <1>5, <1>6, ConcatProperties

LEMMA InstsPrint ==
  ASSUME NEW body, NEW n \in Nat, DOMAIN body = 1 .. n, Len(body) = n, NEW i \in 1 .. n,
         NEW j \in DOMAIN insts, body[i] = insts[j]
  PROVE  InstLines(body, i) \in Seq(Printable)
<1> DEFINE at == insts[j].address
           if == <<[Line("if", at) EXCEPT !.dest = insts[j].dest]>>
           endif == IF i = Len(body) THEN <<Line("end", at)>> ELSE <<>>
           goto == <<[Line("goto", at) EXCEPT !.dest = insts[j].dest]>>
           statement == <<Line("statement", at)>>
<1>1. /\ [Line("if", at) EXCEPT !.dest = insts[j].dest] = LineFor("if", at, insts[j].dest, <<>>)
      /\ [Line("goto", at) EXCEPT !.dest = insts[j].dest] = LineFor("goto", at, insts[j].dest, <<>>)
      /\ Line("end", at) = LineFor("end", at, 0, <<>>)
      /\ Line("statement", at) = LineFor("statement", at, 0, <<>>)
  BY DEF Line, LineFor
<1>2. /\ LineFor("if", at, insts[j].dest, <<>>) \in Printable
      /\ LineFor("goto", at, insts[j].dest, <<>>) \in Printable
      /\ LineFor("end", at, 0, <<>>) \in Printable
      /\ LineFor("statement", at, 0, <<>>) \in Printable
  <2> DEFINE dests == {0} \cup {insts[o].dest : o \in DOMAIN insts}
             kinds == {"end", "label", "if", "goto", "statement"}
  <2>1. 0 \in dests /\ insts[j].dest \in dests
    OBVIOUS
  <2>2. Bodily = {LineFor(k, insts[o].address, d, <<>>) : k \in kinds, o \in DOMAIN insts, d \in dests}
    BY DEF Bodily
  <2>3. {"end", "if", "goto", "statement"} \subseteq kinds
    OBVIOUS
  <2> HIDE DEF dests, kinds
  <2>4. \A d \in dests : \A k \in kinds : LineFor(k, at, d, <<>>) \in Printable
    BY <2>2 DEF Printable
  <2> HIDE DEF at
  <2> QED
    BY <2>1, <2>3, <2>4
<1>3. /\ if \in Seq(Printable) /\ endif \in Seq(Printable) /\ goto \in Seq(Printable)
      /\ statement \in Seq(Printable) /\ <<>> \in Seq(Printable)
  BY <1>1, <1>2
<1>4. if \o endif \in Seq(Printable)
  <2> HIDE DEF if, endif
  <2> QED
    BY <1>3, ConcatProperties
<1>5. Request(insts[j]) \in Seq(Printable)
  <2>1. CASE Known(j)
    <3>1. [Line("request", at) EXCEPT !.text = NamesOf(j)] = LineFor("request", at, 0, NamesOf(j))
      BY DEF Line, LineFor
    <3>2. LineFor("request", at, 0, NamesOf(j)) \in Printable
      BY <2>1 DEF Requesting, Printable
    <3>3. Request(insts[j]) = <<[Line("request", at) EXCEPT !.text = NamesOf(j)]>>
      BY <2>1 DEF Request, Known, NamesOf
    <3> QED
      BY <3>1, <3>2, <3>3
  <2>2. CASE ~Known(j)
    BY <1>3, <2>2 DEF Request, Known
  <2> QED
    BY <2>1, <2>2
<1>6. InstLines(body, i) \in {if \o endif, goto, <<>>, Request(insts[j]), statement}
  BY DEF InstLines
<1> HIDE DEF if, endif, goto, statement
<1> QED
  BY <1>3, <1>4, <1>5, <1>6

LEMMA FramesAre ==
  ASSUME NEW a \in DOMAIN functions, NEW t \in Titles
  PROVE  \A k \in {"class", "function", "endfunction", "endclass"} :
           <<[Line(k, a) EXCEPT !.text = t]>> \in Seq(Printable)
<1> DEFINE kinds == {"class", "function", "endfunction", "endclass"}
<1>1. \A k \in kinds : [Line(k, a) EXCEPT !.text = t] = LineFor(k, a, 0, t)
  BY DEF Line, LineFor
<1>2. Framing = {LineFor(k, b, 0, u) : k \in kinds, b \in DOMAIN functions, u \in Titles}
  BY DEF Framing
<1> HIDE DEF kinds
<1>3. \A k \in kinds : LineFor(k, a, 0, t) \in Printable
  BY <1>2 DEF Printable
<1>4. ASSUME NEW k \in kinds
      PROVE  <<[Line(k, a) EXCEPT !.text = t]>> \in Seq(Printable)
  <2> DEFINE l == [Line(k, a) EXCEPT !.text = t]
  <2>1. l \in Printable
    BY <1>1, <1>3
  <2> HIDE DEF l
  <2>2. <<l>> \in Seq(Printable)
    BY <2>1
  <2> QED
    BY <2>2 DEF l
<1> QED
  BY <1>4 DEF kinds

LEMMA FunctionPrints ==
  ASSUME FieldInv, Ordered, OrderInv, NEW a \in DOMAIN functions
  PROVE  FunctionLines(a, Body(a)) \in Seq(Printable)
<1> DEFINE body == Body(a)
           n == functions[a].num
           meta == ParseMetaData(functions[a].metadata)
           f == [i \in DOMAIN body |-> LabelLines(body, i) \o InstLines(body, i)]
           A == IF meta.isStart THEN <<[Line("class", a) EXCEPT !.text = meta.name]>> ELSE <<>>
           B == <<[Line("function", a) EXCEPT !.text = functions[a].name]>>
           C == FlattenSeq(f)
           D == <<Line("endfunction", a)>>
           E == IF meta.isEnd THEN <<Line("endclass", a)>> ELSE <<>>
<1>1. /\ n \in Nat /\ DOMAIN body = 1 .. n /\ Len(body) = n
      /\ \A i \in 1 .. n : \E j \in DOMAIN insts : body[i] = insts[j]
  BY BodyHolds
<1>2. f \in [1 .. n -> Seq(Printable)]
  <2> HIDE DEF body, n
  <2>1. ASSUME NEW i \in 1 .. n
        PROVE  LabelLines(body, i) \o InstLines(body, i) \in Seq(Printable)
    <3>1. PICK j \in DOMAIN insts : body[i] = insts[j]
      BY <1>1
    <3>2. LabelLines(body, i) \in Seq(Printable)
      BY <1>1, <3>1, LabelsAre
    <3>3. InstLines(body, i) \in Seq(Printable)
      BY <1>1, <3>1, InstsPrint
    <3> QED
      BY <3>2, <3>3, ConcatProperties
  <2> QED
    BY <1>1, <2>1
<1>3. C \in Seq(Printable)
  <2> HIDE DEF f, n
  <2> QED
    BY <1>1, <1>2, FlattenType
<1>4. /\ meta.name \in Titles /\ functions[a].name \in Titles /\ <<>> \in Titles
      /\ <<>> \in Seq(Printable)
  BY DEF Titles
<1>5. Line("endfunction", a) = [Line("endfunction", a) EXCEPT !.text = <<>>]
      /\ Line("endclass", a) = [Line("endclass", a) EXCEPT !.text = <<>>]
  BY DEF Line
<1>6. A \in Seq(Printable) /\ B \in Seq(Printable) /\ D \in Seq(Printable) /\ E \in Seq(Printable)
  <2>1. \A k \in {"class", "function", "endfunction", "endclass"} : \A t \in Titles :
          <<[Line(k, a) EXCEPT !.text = t]>> \in Seq(Printable)
    BY FramesAre
  <2> HIDE DEF meta
  <2>2. <<[Line("class", a) EXCEPT !.text = meta.name]>> \in Seq(Printable)
    BY <1>4, <2>1
  <2>3. B \in Seq(Printable)
    BY <1>4, <2>1
  <2>4. D \in Seq(Printable) /\ <<Line("endclass", a)>> \in Seq(Printable)
    BY <1>4, <1>5, <2>1
  <2> QED
    BY <1>4, <2>2, <2>3, <2>4
<1>7. FunctionLines(a, Body(a)) = A \o B \o C \o D \o E
  BY DEF FunctionLines
<1> HIDE DEF A, B, C, D, E
<1>8. A \o B \in Seq(Printable)
  BY <1>6, ConcatProperties
<1>9. A \o B \o C \in Seq(Printable)
  BY <1>3, <1>8, ConcatProperties
<1>10. A \o B \o C \o D \in Seq(Printable)
  BY <1>6, <1>9, ConcatProperties
<1> QED
  BY <1>6, <1>7, <1>10, ConcatProperties

\* What can be printed is settled when the scripts have been read.
LEMMA PrintableKept ==
  UNCHANGED <<insts, functions, entityFunctions>> => Printable' = Printable
<1> SUFFICES ASSUME UNCHANGED <<insts, functions, entityFunctions>> PROVE Printable' = Printable
  OBVIOUS
<1>1. \A i : (Known(i)' <=> Known(i)) /\ NamesOf(i)' = NamesOf(i)
  BY DEF Known, NamesOf, FunctionKnown, EntityKnown
<1>2. Requesting' = Requesting
  BY <1>1 DEF Requesting
<1>3. Bodily' = Bodily
  BY DEF Bodily
<1>4. Titles' = Titles
  BY DEF Titles
<1>5. Framing' = Framing
  BY <1>4 DEF Framing
<1> QED
  BY <1>2, <1>3, <1>5 DEF Printable

LEMMA LineInit == CodeInit => LineInv
<1> SUFFICES ASSUME CodeInit PROVE LineInv
  OBVIOUS
<1>1. lines = <<>> /\ <<>> \in Seq(Printable)
  BY DEF CodeInit
<1> QED
  BY <1>1 DEF LineInv

LEMMA LineNext == FieldInv /\ OrderInv /\ LineInv /\ [CodeNext]_codeVars => LineInv'
<1> SUFFICES ASSUME FieldInv, OrderInv, LineInv, [CodeNext]_codeVars PROVE LineInv'
  OBVIOUS
<1>1. header' = header
  BY DEF CodeNext, Disassemble, NextEntity, StartScript, ReadInstruction, ReadAgain, AddFunction,
         BuildGraph, GenerateFunction, GenerationDone, codeVars, fieldVars
<1>2. Ordered' <=> Ordered
  BY <1>1, OrderedKept
<1>3. ASSUME phase \in {"scripts", "read", "returned", "graph"}, UNCHANGED lines
      PROVE  LineInv'
  <2>1. lines' = <<>> /\ <<>> \in Seq(Printable')
    BY <1>3 DEF LineInv
  <2> QED
    BY <2>1 DEF LineInv
<1>4. ASSUME phase \notin {"scripts", "read", "returned", "graph"}, phase' = phase \/ phase' \in {"failed", "done"},
             UNCHANGED <<insts, functions, entityFunctions>>,
             lines' = lines \/ (Ordered => lines' \in Seq(Printable))
      PROVE  LineInv'
  BY <1>2, <1>4, PrintableKept DEF LineInv
<1>5. CASE Disassemble /\ UNCHANGED <<generated, lines>>
  <2>1. phase \in {"scripts", "read", "returned", "graph"}
    BY <1>5 DEF Disassemble, NextEntity, StartScript, ReadInstruction, ReadAgain, AddFunction, BlockRead
  <2> QED
    BY <1>3, <1>5, <2>1
<1>6. CASE BuildGraph
  BY <1>3, <1>6 DEF BuildGraph
<1>7. CASE GenerateFunction
  <2>1. /\ phase = "generate" /\ phase' \in {phase, "failed"}
        /\ UNCHANGED <<insts, functions, entityFunctions>>
        /\ \/ lines' = lines
           \/ \E a \in {Min(DOMAIN functions \ generated)} : lines' = lines \o FunctionLines(a, Body(a))
        /\ generated # DOMAIN functions
    BY <1>7 DEF GenerateFunction
  <2>2. ASSUME Ordered, NEW a, a = Min(DOMAIN functions \ generated),
               lines' = lines \o FunctionLines(a, Body(a))
        PROVE  lines' \in Seq(Printable)
    <3>1. DOMAIN functions \ generated \subseteq Nat /\ DOMAIN functions \ generated # {}
      BY <2>1 DEF FieldInv, FunctionsCounted
    <3>2. a \in DOMAIN functions
      BY <2>2, <3>1, LeastOf
    <3>3. FunctionLines(a, Body(a)) \in Seq(Printable) /\ lines \in Seq(Printable)
      BY <2>2, <3>2, FunctionPrints DEF LineInv
    <3> QED
      BY <2>2, <3>3, ConcatProperties
  <2>3. lines' = lines \/ (Ordered => lines' \in Seq(Printable))
    BY <2>1, <2>2
  <2> QED
    BY <1>4, <2>1, <2>3
<1>8. CASE GenerationDone
  BY <1>4, <1>8 DEF GenerationDone
<1>9. CASE UNCHANGED codeVars
  <2>1. UNCHANGED <<phase, insts, functions, entityFunctions, lines>>
    BY <1>9 DEF codeVars, fieldVars
  <2>2. Printable' = Printable
    BY <2>1, PrintableKept
  <2>3. /\ phase' \in {"scripts", "read", "returned", "graph"} => lines' = <<>>
        /\ Ordered' => lines' \in Seq(Printable')
    BY <1>2, <2>1, <2>2 DEF LineInv
  <2> HIDE <2>1
  <2> QED
    BY <2>3 DEF LineInv
<1> QED
  BY <1>5, <1>6, <1>7, <1>8, <1>9 DEF CodeNext

\* For every file whose entry points ascend: a request prints the entity it is made to
\* and the function that begins at the entry point of the script, with the one
\* exception of script 0, for which it may be on_update.  No function that is added
\* later, nor a script without bytes, ever gives its name to another.
THEOREM RequestsAlwaysNameScripts == FieldSpec => []RequestsNameScripts
<1>1. CodeInit => LineInv
  BY LineInit
<1>2. FieldInv /\ OrderInv /\ NameInv /\ LineInv => RequestsNameScripts
  <2> SUFFICES ASSUME FieldInv, OrderInv, NameInv, LineInv, Ordered,
                      NEW l \in ToSet(lines), l.kind = "request"
               PROVE  LET inst == CHOOSE i \in ToSet(insts) : i.address = l.at
                          entry == header.scripts[inst.to][inst.val + 1] + kSectionPointersSize
                      IN /\ l.text[1] = header.names[inst.to]
                         /\ \/ l.text[2] = functions[entry].name
                            \/ inst.val = 0 /\ l.text[2] = "on_update"
    BY DEF RequestsNameScripts
  <2>1. l \in Printable
    <3>1. lines \in Seq(Printable)
      BY DEF LineInv
    <3> QED
      BY <3>1 DEF ToSet
  <2>2. l \notin Bodily /\ l \notin Framing
    BY DEF Bodily, Framing, LineFor
  <2>3. PICK i \in DOMAIN insts : Known(i) /\ l = LineFor("request", insts[i].address, 0, NamesOf(i))
    BY <2>1, <2>2 DEF Printable, Requesting
  <2> DEFINE inst == CHOOSE o \in ToSet(insts) : o.address = l.at
  <2>4. inst = insts[i]
    <3>1. l.at = insts[i].address
      BY <2>3 DEF LineFor
    <3>2. \A k \in DOMAIN insts : insts[k].address = insts[i].address => k = i
      BY InstsAre DEF OrderInv, InstsAscend
    <3>3. insts[i] \in ToSet(insts) /\ \A o \in ToSet(insts) : o.address = l.at => o = insts[i]
      BY <3>1, <3>2 DEF ToSet
    <3> QED
      BY <3>1, <3>3
  <2> HIDE DEF inst
  <2>5. l.text = NamesOf(i)
    BY <2>3 DEF LineFor
  <2>6. /\ inst.to \in DOMAIN entityFunctions
        /\ inst.val \in DOMAIN entityFunctions[inst.to].funcs
        /\ l.text[1] = entityFunctions[inst.to].name
        /\ l.text[2] = entityFunctions[inst.to].funcs[inst.val]
    BY <2>3, <2>4, <2>5 DEF Known, NamesOf, FunctionKnown, EntityKnown
  <2>7. /\ l.text[1] = header.names[inst.to]
        /\ ScriptNamed(inst.to, inst.val, l.text[2])
    BY <2>6 DEF NameInv, EntitiesNamed
  <2> QED
    BY <2>7 DEF ScriptNamed, Entry, EntryOf, inst
<1>3. CodeInit => OrderInv
  BY OrderInit
<1>4. FieldInv /\ OrderInv /\ [CodeNext]_codeVars => OrderInv'
  BY OrderNext
<1>5. CodeInit => NameInv
  BY NameInit
<1>6. FieldInv /\ OrderInv /\ NameInv /\ [CodeNext]_codeVars => NameInv'
  BY NameNext
<1>7. FieldInv /\ OrderInv /\ LineInv /\ [CodeNext]_codeVars => LineInv'
  BY LineNext
<1> QED
  BY <1>1, <1>2, <1>3, <1>4, <1>5, <1>6, <1>7, FieldInvariant, PTL DEF FieldSpec
----------------------------------------------------------------------------
(***************************************************************************)
(* The metadata of functions.  A name without empty parts and an id come   *)
(* out of the text as they were put into it.                               *)
(***************************************************************************)
LEMMA SameJoined ==
  ASSUME NEW Q, NEW a \in Seq(Q), NEW c \in Seq(Q), NEW s \in Seq(Q), Len(s) = Len(a) + Len(c),
         \A i \in 1 .. Len(a) : s[i] = a[i], \A i \in 1 .. Len(c) : s[Len(a) + i] = c[i]
  PROVE  a \o c = s
<1> DEFINE b == a \o c
<1>1. /\ b \in Seq(Q) /\ Len(b) = Len(a) + Len(c)
      /\ \A i \in 1 .. Len(a) + Len(c) : b[i] = IF i <= Len(a) THEN a[i] ELSE c[i - Len(a)]
  BY ConcatProperties
<1> HIDE DEF b
<1>2. ASSUME NEW i \in 1 .. Len(s) PROVE b[i] = s[i]
  <2>1. CASE i <= Len(a)
    <3>1. i \in 1 .. Len(a)
      BY <2>1
    <3> QED
      BY <1>1, <2>1, <3>1
  <2>2. CASE ~(i <= Len(a))
    <3>1. i - Len(a) \in 1 .. Len(c) /\ Len(a) + (i - Len(a)) = i
      BY <2>2
    <3> QED
      BY <1>1, <2>2, <3>1
  <2> QED
    BY <2>1, <2>2
<1>3. b \in [1 .. Len(s) -> Q] /\ s \in [1 .. Len(s) -> Q]
  BY <1>1
<1>4. b = s
  BY <1>2, <1>3
<1> QED
  BY <1>4 DEF b

LEMMA NonBlankAll ==
  ASSUME NEW V, NEW s \in Seq(V), \A i \in 1 .. Len(s) : s[i] # Blank
  PROVE  NonBlank(s) = s
<1> DEFINE n == Len(s)
           f == [i \in DOMAIN s |-> IF s[i] = Blank THEN <<>> ELSE <<s[i]>>]
           part(m) == [i \in 1 .. m |-> s[i]]
           ones(m) == [i \in 1 .. m |-> <<s[i]>>]
           T == {m \in Nat : m <= n => FlattenSeq(ones(m)) = part(m)}
<1>1. n \in Nat /\ DOMAIN s = 1 .. n /\ \A i \in 1 .. n : s[i] \in V
  OBVIOUS
<1>2. 0 \in T
  <2>1. ones(0) = <<>> /\ part(0) = <<>>
    OBVIOUS
  <2> HIDE DEF ones, part
  <2> QED
    BY <2>1, FlattenNone
<1>3. ASSUME NEW m \in T PROVE m + 1 \in T
  <2> SUFFICES ASSUME m + 1 <= n PROVE FlattenSeq(ones(m + 1)) = part(m + 1)
    OBVIOUS
  <2>1. m \in Nat /\ m <= n /\ FlattenSeq(ones(m)) = part(m)
    BY <1>1
  <2>2. ones(m + 1) \in [1 .. m + 1 -> Seq(V)] /\ ones(m + 1)[m + 1] = <<s[m + 1]>>
        /\ [i \in 1 .. m |-> ones(m + 1)[i]] = ones(m)
    BY <1>1, <2>1
  <2> DEFINE g == ones(m + 1)
  <2>3. FlattenSeq(g) = FlattenSeq([i \in 1 .. m |-> g[i]]) \o g[m + 1]
    <3>1. g \in [1 .. m + 1 -> Seq(V)]
      BY <2>2
    <3> HIDE DEF g
    <3> QED
      BY <2>1, <3>1, FlattenAppend
  <2> DEFINE a == part(m)
             c == <<s[m + 1]>>
  <2>4. FlattenSeq(g) = a \o c
    <3> HIDE DEF ones, part
    <3> QED
      BY <2>1, <2>2, <2>3
  <2>5. /\ a \in Seq(V) /\ Len(a) = m /\ c \in Seq(V) /\ Len(c) = 1 /\ c[1] = s[m + 1]
        /\ \A i \in 1 .. m : a[i] = s[i]
    BY <1>1, <2>1
  <2> DEFINE d == part(m + 1)
  <2>6. /\ d \in Seq(V) /\ Len(d) = m + 1 /\ \A i \in 1 .. m + 1 : d[i] = s[i]
    BY <1>1, <2>1
  <2> HIDE DEF a, c, d
  <2>7. \A i \in 1 .. m : i \in 1 .. m + 1
    BY <2>1
  <2>8. Len(d) = Len(a) + Len(c) /\ m + 1 \in 1 .. m + 1
    BY <2>1, <2>5, <2>6
  <2>9. (\A i \in 1 .. Len(a) : d[i] = a[i]) /\ \A i \in 1 .. Len(c) : d[Len(a) + i] = c[i]
    <3>1. \A i \in 1 .. Len(a) : d[i] = a[i]
      BY <2>5, <2>6, <2>7
    <3>2. d[m + 1] = c[1]
      BY <2>5, <2>6, <2>8
    <3>3. \A i \in 1 .. Len(c) : d[Len(a) + i] = c[i]
      BY <2>5, <3>2
    <3> QED
      BY <3>1, <3>3
  <2>10. a \o c = d
    BY <2>5, <2>6, <2>8, <2>9, SameJoined
  <2> QED
    BY <2>4, <2>10 DEF d
<1>4. T = Nat
  <2>1. T \subseteq Nat
    OBVIOUS
  <2> HIDE DEF T
  <2> QED
    BY <1>2, <1>3, <2>1, InductionOnNat
<1>5. FlattenSeq(ones(n)) = part(n)
  <2>1. n \in T
    BY <1>1, <1>4
  <2>2. n <= n
    BY <1>1
  <2> HIDE DEF ones, part
  <2> QED
    BY <2>1, <2>2
<1>6. f = ones(n) /\ part(n) = s
  BY <1>1
<1> HIDE DEF f, ones, part
<1>7. FlattenSeq(f) = s
  BY <1>5, <1>6
<1> QED
  BY <1>7 DEF NonBlank, f

LEMMA TokensKept ==
  ASSUME NEW V, NEW s \in Seq(V), Len(s) # 0, \A i \in 1 .. Len(s) : s[i] # Blank
  PROVE  Tokens(s) = s
<1> DEFINE m == Len(s) - 1
           a == Front(s)
           c == <<Last(s)>>
<1>1. m \in Nat /\ Len(s) = m + 1 /\ m + 1 \in Nat /\ m + 1 \in 1 .. Len(s)
  OBVIOUS
<1>2. a \in Seq(V) /\ Len(a) = m /\ \A k \in 1 .. m : a[k] = s[k]
  <2> HIDE DEF m
  <2> QED
    BY <1>1, FrontIs
<1>3. c \in Seq(V) /\ Len(c) = 1 /\ c[1] = s[m + 1]
  BY <1>1 DEF Last
<1> HIDE DEF m, a, c
<1>4. \A k \in 1 .. m : k \in 1 .. Len(s)
  BY <1>1
<1>5. NonBlank(a) = a
  BY <1>2, <1>4, NonBlankAll
<1>6. (\A i \in 1 .. Len(a) : s[i] = a[i]) /\ \A i \in 1 .. Len(c) : s[Len(a) + i] = c[i]
  BY <1>2, <1>3
<1>7. Len(s) = Len(a) + Len(c)
  BY <1>1, <1>2, <1>3
<1>8. a \o c = s
  BY <1>2, <1>3, <1>6, <1>7, SameJoined
<1>9. Tokens(s) = NonBlank(a) \o c
  BY DEF Tokens, a, c
<1> QED
  BY <1>5, <1>8, <1>9

IsId(id) == id \notin {Blank, "start", "end"}

\* What stands in front of the name.
Marks(isStart, isEnd, id) ==
  (IF isStart THEN <<"start">> ELSE <<>>) \o (IF isEnd THEN <<"end">> ELSE <<>>) \o <<id>>

\* Where the parts are found in a text.
StartAt(t) == IF t[1] = "start" THEN 2 ELSE 1
IdAt(t) == IF t[StartAt(t)] = "end" THEN StartAt(t) + 1 ELSE StartAt(t)

LEMMA MarksNotBlank == "start" # Blank /\ "end" # Blank
BY Zenon DEF Blank

LEMMA MarksAre ==
  ASSUME NEW isStart, NEW isEnd, NEW id, IsId(id), NEW U, "start" \in U, "end" \in U, id \in U
  PROVE  \E k \in {1, 2, 3} :
           /\ Marks(isStart, isEnd, id) \in Seq(U) /\ Len(Marks(isStart, isEnd, id)) = k
           /\ \A i \in 1 .. k : Marks(isStart, isEnd, id)[i] # Blank
           /\ Marks(isStart, isEnd, id)[k] = id
           /\ StartAt(Marks(isStart, isEnd, id)) <= k
           /\ IdAt(Marks(isStart, isEnd, id)) = k
           /\ IF isStart THEN Marks(isStart, isEnd, id)[1] = "start"
              ELSE Marks(isStart, isEnd, id)[1] # "start"
           /\ IF isEnd THEN Marks(isStart, isEnd, id)[StartAt(Marks(isStart, isEnd, id))] = "end"
              ELSE Marks(isStart, isEnd, id)[StartAt(Marks(isStart, isEnd, id))] # "end"
<1> DEFINE a == IF isStart THEN <<"start">> ELSE <<>>
           b == IF isEnd THEN <<"end">> ELSE <<>>
           c == <<id>>
           ab == a \o b
           p == ab \o c
<1>1. /\ a \in Seq(U) /\ ((~isStart /\ Len(a) = 0) \/ (isStart /\ Len(a) = 1 /\ a[1] = "start"))
      /\ b \in Seq(U) /\ ((~isEnd /\ Len(b) = 0) \/ (isEnd /\ Len(b) = 1 /\ b[1] = "end"))
      /\ c \in Seq(U) /\ Len(c) = 1 /\ c[1] = id
  OBVIOUS
<1> HIDE DEF a, b, c
<1>2. /\ ab \in Seq(U) /\ Len(ab) = Len(a) + Len(b)
      /\ \A i \in 1 .. Len(a) + Len(b) : ab[i] = IF i <= Len(a) THEN a[i] ELSE b[i - Len(a)]
  BY <1>1, ConcatProperties
<1> HIDE DEF ab
<1>3. /\ p \in Seq(U) /\ Len(p) = Len(ab) + 1
      /\ \A i \in 1 .. Len(ab) + 1 : p[i] = IF i <= Len(ab) THEN ab[i] ELSE c[i - Len(ab)]
  <2>1. /\ p \in Seq(U) /\ Len(p) = Len(ab) + Len(c)
        /\ \A i \in 1 .. Len(ab) + Len(c) : p[i] = IF i <= Len(ab) THEN ab[i] ELSE c[i - Len(ab)]
    <3>1. ab \in Seq(U) /\ c \in Seq(U)
      BY <1>1, <1>2
    <3> QED
      BY <3>1, ConcatProperties
  <2> QED
    BY <1>1, <2>1
<1> HIDE DEF p
<1>p. p \in Seq(U)
  BY <1>3
<1>4. \/ Len(p) = 1 /\ p[1] = id /\ ~isStart /\ ~isEnd
      \/ Len(p) = 2 /\ p[1] = "start" /\ p[2] = id /\ isStart /\ ~isEnd
      \/ Len(p) = 2 /\ p[1] = "end" /\ p[2] = id /\ ~isStart /\ isEnd
      \/ Len(p) = 3 /\ p[1] = "start" /\ p[2] = "end" /\ p[3] = id /\ isStart /\ isEnd
  <2>1. CASE Len(a) = 0 /\ Len(b) = 0
    BY <1>1, <1>2, <1>3, <2>1
  <2>2. CASE Len(a) = 0 /\ Len(b) = 1
    BY <1>1, <1>2, <1>3, <2>2
  <2>3. CASE Len(a) = 1 /\ Len(b) = 0
    BY <1>1, <1>2, <1>3, <2>3
  <2>4. CASE Len(a) = 1 /\ Len(b) = 1
    BY <1>1, <1>2, <1>3, <2>4
  <2> QED
    BY <1>1, <2>1, <2>2, <2>3, <2>4
<1>5. p = Marks(isStart, isEnd, id)
  BY DEF Marks, p, ab, a, b, c
<1> DEFINE Ok(k) == /\ p \in Seq(U) /\ Len(p) = k
                    /\ \A i \in 1 .. k : p[i] # Blank
                    /\ p[k] = id
                    /\ StartAt(p) <= k
                    /\ IdAt(p) = k
                    /\ IF isStart THEN p[1] = "start" ELSE p[1] # "start"
                    /\ IF isEnd THEN p[StartAt(p)] = "end" ELSE p[StartAt(p)] # "end"
<1>6. ASSUME Len(p) = 1, p[1] = id, ~isStart, ~isEnd
      PROVE  Ok(1)
  <2>0. Len(p) = 1 /\ p[1] = id
    BY <1>6, Zenon
  <2>1. StartAt(p) = 1 /\ IdAt(p) = 1
    BY <1>6 DEF StartAt, IdAt, IsId
  <2>2. id # "end" /\ p[1] # Blank
    BY <1>6 DEF IsId
  <2>3. /\ p \in Seq(U) /\ Len(p) = 1 /\ (\A i \in 1 .. 1 : p[i] # Blank) /\ p[1] = id
        /\ StartAt(p) <= 1 /\ IdAt(p) = 1
    BY <1>p, <2>0, <2>1, <2>2
  <2>4. /\ IF isStart THEN p[1] = "start" ELSE p[1] # "start"
        /\ IF isEnd THEN p[StartAt(p)] = "end" ELSE p[StartAt(p)] # "end"
    BY <1>6, <2>1, <2>2 DEF IsId
  <2> QED
    BY <2>3, <2>4, Zenon
<1>7. ASSUME Len(p) = 2, p[1] = "start", p[2] = id, isStart, ~isEnd
      PROVE  Ok(2)
  <2>0. Len(p) = 2 /\ p[1] = "start" /\ p[2] = id
    BY <1>7, Zenon
  <2>1. StartAt(p) = 2 /\ IdAt(p) = 2
    BY <1>7 DEF StartAt, IdAt, IsId
  <2>2. (\A i \in 1 .. 2 : p[i] # Blank) /\ id # "end"
    BY <1>7, MarksNotBlank DEF IsId
  <2>3. /\ p \in Seq(U) /\ Len(p) = 2 /\ (\A i \in 1 .. 2 : p[i] # Blank) /\ p[2] = id
        /\ StartAt(p) <= 2 /\ IdAt(p) = 2
    BY <1>p, <2>0, <2>1, <2>2
  <2>4. /\ IF isStart THEN p[1] = "start" ELSE p[1] # "start"
        /\ IF isEnd THEN p[StartAt(p)] = "end" ELSE p[StartAt(p)] # "end"
    BY <1>7, <2>1, <2>2 DEF IsId
  <2> QED
    BY <2>3, <2>4, Zenon
<1>8. ASSUME Len(p) = 2, p[1] = "end", p[2] = id, ~isStart, isEnd
      PROVE  Ok(2)
  <2>0. Len(p) = 2 /\ p[1] = "end" /\ p[2] = id
    BY <1>8, Zenon
  <2>1. StartAt(p) = 1 /\ IdAt(p) = 2
    BY <1>8 DEF StartAt, IdAt
  <2>2. \A i \in 1 .. 2 : p[i] # Blank
    BY <1>8, MarksNotBlank DEF IsId
  <2>3. /\ p \in Seq(U) /\ Len(p) = 2 /\ (\A i \in 1 .. 2 : p[i] # Blank) /\ p[2] = id
        /\ StartAt(p) <= 2 /\ IdAt(p) = 2
    BY <1>p, <2>0, <2>1, <2>2
  <2>4. /\ IF isStart THEN p[1] = "start" ELSE p[1] # "start"
        /\ IF isEnd THEN p[StartAt(p)] = "end" ELSE p[StartAt(p)] # "end"
    BY <1>8, <2>1, <2>2
  <2> QED
    BY <2>3, <2>4, Zenon
<1>9. ASSUME Len(p) = 3, p[1] = "start", p[2] = "end", p[3] = id, isStart, isEnd
      PROVE  Ok(3)
  <2>0. Len(p) = 3 /\ p[1] = "start" /\ p[2] = "end" /\ p[3] = id
    BY <1>9, Zenon
  <2>1. StartAt(p) = 2 /\ IdAt(p) = 3
    BY <1>9 DEF StartAt, IdAt
  <2>2. \A i \in 1 .. 3 : p[i] # Blank
    BY <1>9, MarksNotBlank DEF IsId
  <2>3. /\ p \in Seq(U) /\ Len(p) = 3 /\ (\A i \in 1 .. 3 : p[i] # Blank) /\ p[3] = id
        /\ StartAt(p) <= 3 /\ IdAt(p) = 3
    BY <1>p, <2>0, <2>1, <2>2
  <2>4. /\ IF isStart THEN p[1] = "start" ELSE p[1] # "start"
        /\ IF isEnd THEN p[StartAt(p)] = "end" ELSE p[StartAt(p)] # "end"
    BY <1>9, <2>1, <2>2
  <2> QED
    BY <2>3, <2>4, Zenon
<1>10. \E k \in {1, 2, 3} : Ok(k)
  <2> HIDE DEF Ok
  <2> QED
    BY <1>4, <1>6, <1>7, <1>8, <1>9
<1> QED
  BY <1>5, <1>10

LEMMA MetaParsed ==
  ASSUME NEW isStart, NEW isEnd, NEW id, IsId(id), NEW name, IsSequence(name), Len(name) # 0,
         NameKept(name), NEW meta, meta = MetaData(isStart, isEnd, id, name)
  PROVE  ParseMetaData(meta).id = id /\ ParseMetaData(meta).name = name
<1> DEFINE U == ToSet(name) \cup {"start", "end", id}
           p == Marks(isStart, isEnd, id)
           n == Len(name)
<1>1. name \in Seq(U) /\ n \in Nat /\ n # 0 /\ \A i \in 1 .. n : name[i] # Blank
  BY DEF IsSequence, NameKept
<1>2. "start" \in U /\ "end" \in U /\ id \in U
  OBVIOUS
<1> HIDE DEF U
<1>3. PICK k \in {1, 2, 3} :
        /\ p \in Seq(U) /\ Len(p) = k /\ (\A i \in 1 .. k : p[i] # Blank) /\ p[k] = id
        /\ StartAt(p) <= k /\ IdAt(p) = k
  BY <1>2, MarksAre
<1>4. meta = p \o name
  BY DEF MetaData, Marks
<1> HIDE DEF p, n
<1> DEFINE t == meta
<1>5. /\ t \in Seq(U) /\ Len(t) = k + n
      /\ \A i \in 1 .. k + n : t[i] = IF i <= k THEN p[i] ELSE name[i - k]
  BY <1>1, <1>3, <1>4, ConcatProperties DEF n
<1> HIDE DEF t
<1>6. (\A i \in 1 .. Len(t) : t[i] # Blank) /\ Len(t) # 0 /\ \A i \in 1 .. k : t[i] = p[i]
  <2>1. \A i \in 1 .. k : i \in 1 .. k + n /\ i <= k
    BY <1>1
  <2>2. ASSUME NEW i \in 1 .. k + n, ~(i <= k) PROVE i - k \in 1 .. n
    BY <1>1, <2>2
  <2>3. Len(t) # 0
    BY <1>1, <1>5
  <2>4. ASSUME NEW i \in 1 .. k + n PROVE t[i] # Blank
    <3>1. CASE i <= k
      <4>1. i \in 1 .. k
        BY <3>1
      <4> QED
        BY <1>3, <1>5, <3>1, <4>1
    <3>2. CASE ~(i <= k)
      BY <1>1, <1>5, <2>2, <3>2
    <3> QED
      BY <3>1, <3>2
  <2> QED
    BY <1>5, <2>1, <2>3, <2>4
<1>7. Tokens(meta) = meta
  BY <1>5, <1>6, TokensKept DEF t
<1>8. StartAt(meta) = StartAt(p) /\ IdAt(meta) = k /\ meta[k] = id
  <2>1. 1 \in 1 .. k /\ k \in 1 .. k /\ StartAt(p) \in 1 .. k
    BY <1>3 DEF StartAt
  <2>2. StartAt(t) = StartAt(p)
    BY <1>6, <2>1 DEF StartAt
  <2>3. IdAt(t) = IdAt(p) /\ t[k] = id
    BY <1>3, <1>6, <2>1, <2>2 DEF IdAt
  <2> QED
    BY <1>3, <2>2, <2>3 DEF t
<1> DEFINE r == SubSeq(meta, k + 2, Len(meta))
<1>9. /\ ParseMetaData(meta).id = meta[IdAt(meta)]
      /\ ParseMetaData(meta).name
           = <<meta[IdAt(meta) + 1]>> \o NonBlank(SubSeq(meta, IdAt(meta) + 2, Len(meta)))
  BY <1>7 DEF ParseMetaData, StartAt, IdAt
<1>10. r \in Seq(U) /\ Len(r) = n - 1 /\ \A i \in 1 .. n - 1 : r[i] = meta[k + 1 + i]
  <2>1. k + 2 \in 1 .. Len(t) + 1 /\ Len(t) \in Nat /\ k \in Nat
    BY <1>1, <1>5
  <2>2. \A i \in k + 2 .. Len(t) : i \in 1 .. Len(t)
    BY <2>1
  <2>3. \A i \in k + 2 .. Len(t) : t[i] \in U
    BY <1>5, <2>2
  <2>4. /\ SubSeq(t, k + 2, Len(t)) \in Seq(U)
        /\ Len(SubSeq(t, k + 2, Len(t))) = IF k + 2 <= Len(t) THEN Len(t) - (k + 2) + 1 ELSE 0
        /\ \A i \in 1 .. Len(t) - (k + 2) + 1 : SubSeq(t, k + 2, Len(t))[i] = t[k + 2 + i - 1]
    BY <2>1, <2>3, SubSeqProperties
  <2>5. Len(t) - (k + 2) + 1 = n - 1 /\ \A i \in Int : k + 2 + i - 1 = k + 1 + i
    BY <1>1, <1>5
  <2>6. (IF k + 2 <= Len(t) THEN Len(t) - (k + 2) + 1 ELSE 0) = n - 1
    BY <1>1, <1>5
  <2> QED
    BY <2>4, <2>5, <2>6 DEF t
<1> HIDE DEF r
<1>11. \A i \in 1 .. n : meta[k + i] = name[i]
  <2>1. ASSUME NEW i \in 1 .. n PROVE k + i \in 1 .. k + n /\ ~(k + i <= k) /\ (k + i) - k = i
    BY <1>1
  <2> QED
    BY <1>5, <2>1 DEF t
<1>12. \A i \in 1 .. n - 1 : r[i] = name[i + 1] /\ i + 1 \in 1 .. n
  <2>1. ASSUME NEW i \in 1 .. n - 1 PROVE i + 1 \in 1 .. n /\ k + 1 + i = k + (i + 1)
    BY <1>1
  <2> QED
    BY <1>10, <1>11, <2>1
<1>13. NonBlank(r) = r
  <2>1. \A i \in 1 .. n - 1 : r[i] # Blank
    BY <1>1, <1>12
  <2> QED
    BY <1>10, <2>1, NonBlankAll
<1> DEFINE c == <<meta[k + 1]>>
<1>14. c \in Seq(U) /\ Len(c) = 1 /\ c[1] = name[1]
  <2>1. 1 \in 1 .. n /\ name[1] \in U
    BY <1>1 DEF n
  <2> QED
    BY <1>11, <2>1
<1> HIDE DEF c
<1>15. Len(name) = Len(c) + Len(r)
  BY <1>1, <1>10, <1>14 DEF n
<1>16. (\A i \in 1 .. Len(c) : name[i] = c[i]) /\ \A i \in 1 .. Len(r) : name[Len(c) + i] = r[i]
  <2>1. \A i \in 1 .. n - 1 : 1 + i = i + 1
    BY <1>1
  <2> QED
    BY <1>10, <1>12, <1>14, <2>1
<1>17. c \o r = name
  BY <1>1, <1>10, <1>14, <1>15, <1>16, SameJoined
<1>18. ParseMetaData(meta).name = c \o NonBlank(r)
  BY <1>8, <1>9 DEF c, r
<1> QED
  BY <1>8, <1>9, <1>13, <1>17, <1>18

(***************************************************************************)
(* A character once found is kept.  Ids are never marks, so that metadata  *)
(* is read as it was made; a function added lies behind those that are     *)
(* there, and takes its id from them if it has none of its own.            *)
(***************************************************************************)
Meta(f, a) == ParseMetaData(f[a].metadata)
AllNamesKept == \A e \in Entities : NameKept(header.names[e])

CharsKnown ==
  /\ \A p \in DOMAIN stream : stream[p].op = "CHAR" => IsId(stream[p].val)
  /\ \A i \in DOMAIN insts : insts[i].op = "CHAR" => IsId(insts[i].val)
NamesThere == \A e \in Entities : IsSequence(header.names[e]) /\ Len(header.names[e]) # 0
IdsRead(f) == \A a \in DOMAIN f : IsId(Meta(f, a).id)
IdsFollow(f) ==
  \A a, b \in DOMAIN f :
    (a <= b /\ Meta(f, a).name = Meta(f, b).name /\ Meta(f, a).id # NoId) => Meta(f, b).id # NoId

IdInv ==
  /\ CharsKnown /\ NamesThere
  /\ AllNamesKept => IdsRead(functions)
  /\ AllNamesKept /\ Ordered => IdsFollow(functions)

LEMMA NoIdIsId == IsId(NoId)
<1>1. "-1" # "" /\ "-1" # "start" /\ "-1" # "end"
  BY Zenon
<1>2. NoId # Blank
  BY <1>1, Zenon DEF NoId, Blank
<1>3. NoId # "start" /\ NoId # "end"
  BY <1>1, Zenon DEF NoId
<1> QED
  BY <1>2, <1>3 DEF IsId

LEMMA OwnIdIs ==
  ASSUME FieldInv, CharsKnown, NEW start, NEW end
  PROVE  IsId(FindId(start, end))
<1> DEFINE chars == {k \in DOMAIN insts :
                       insts[k].op = "CHAR" /\ start <= insts[k].address /\ insts[k].address <= end}
<1>1. chars \subseteq Nat /\ chars \subseteq DOMAIN insts /\ \A k \in chars : insts[k].op = "CHAR"
  BY DEF FieldInv, InstsPlaced, IsSequence
<1>2. FindId(start, end) = IF chars = {} THEN NoId ELSE insts[Min(chars)].val
  BY DEF FindId
<1> HIDE DEF chars
<1>3. CASE chars = {}
  BY <1>2, <1>3, NoIdIsId
<1>4. CASE chars # {}
  <2>1. Min(chars) \in chars
    BY <1>1, <1>4, LeastOf
  <2> QED
    BY <1>1, <1>2, <1>4, <2>1 DEF CharsKnown
<1> QED
  BY <1>3, <1>4

LEMMA IdChosen ==
  ASSUME FieldInv, CharsKnown, IdsRead(functions), NEW start, NEW end, NEW name
  PROVE  /\ IsId(CharacterId(start, end, name))
         /\ \A a \in DOMAIN functions :
              Meta(functions, a).name = name /\ Meta(functions, a).id # NoId
                => CharacterId(start, end, name) # NoId
<1> DEFINE metas == [a \in DOMAIN functions |-> ParseMetaData(functions[a].metadata)]
           known == {a \in DOMAIN functions : metas[a].name = name /\ metas[a].id # NoId}
           own == FindId(start, end)
<1>1. CharacterId(start, end, name) = IF own # NoId \/ known = {} THEN own ELSE metas[Min(known)].id
  BY DEF CharacterId
<1>2. known \subseteq DOMAIN functions /\ DOMAIN functions \subseteq Nat
  BY DEF FieldInv, FunctionsCounted
<1>3. \A a \in DOMAIN functions : metas[a] = Meta(functions, a)
  BY DEF Meta
<1>4. \A a \in DOMAIN functions :
        a \in known <=> Meta(functions, a).name = name /\ Meta(functions, a).id # NoId
  <2> HIDE DEF metas
  <2> QED
    BY <1>3
<1>5. IsId(own)
  BY OwnIdIs
<1> HIDE DEF metas, known, own
<1>6. CASE own # NoId \/ known = {}
  BY <1>1, <1>4, <1>5, <1>6
<1>7. CASE own = NoId /\ known # {}
  <2>1. Min(known) \in known
    BY <1>2, <1>7, LeastOf
  <2>2. metas[Min(known)] = Meta(functions, Min(known)) /\ Min(known) \in DOMAIN functions
    BY <1>2, <1>3, <2>1
  <2>3. CharacterId(start, end, name) = Meta(functions, Min(known)).id
    BY <1>1, <1>7, <2>2
  <2> QED
    BY <1>4, <2>1, <2>2, <2>3 DEF IdsRead
<1> QED
  BY <1>6, <1>7

LEMMA AddMeta ==
  ASSUME AddFunction, insts # <<>>
  PROVE  \E func :
           /\ functions' = Each({frame.start}, func) ++ functions
           /\ func.metadata = MetaData(frame.isStart, frame.isEnd /\ position = frame.end,
                                       CharacterId(frame.start, Last(insts).address,
                                                   header.names[frame.entity]),
                                       header.names[frame.entity])
<1> DEFINE name == header.names[frame.entity]
           isEnd == frame.isEnd /\ position = frame.end
           end == Last(insts).address
           func == [name |-> frame.name, start |-> frame.start, end |-> end,
                    num |-> NumRead,
                    metadata |-> MetaData(frame.isStart, isEnd,
                                          CharacterId(frame.start, end, name), name)]
<1>1. functions' = Each({frame.start}, func) ++ functions
  BY DEF AddFunction
<1>2. func.metadata = MetaData(frame.isStart, isEnd, CharacterId(frame.start, end, name), name)
  OBVIOUS
<1> HIDE DEF func
<1> QED
  BY <1>1, <1>2

\* The function added is read as it is made; all others stay.
LEMMA MetaAdded ==
  ASSUME FieldInv, IdInv, AllNamesKept, AddFunction, insts # <<>>
  PROVE  LET name == header.names[frame.entity]
             id == CharacterId(frame.start, Last(insts).address, name)
         IN /\ Reading /\ DOMAIN functions' = {frame.start} \cup DOMAIN functions
            /\ Meta(functions', frame.start).id = id
            /\ Meta(functions', frame.start).name = name
            /\ IsId(id)
            /\ \A a \in DOMAIN functions :
                 Meta(functions, a).name = name /\ Meta(functions, a).id # NoId => id # NoId
            /\ \A a \in DOMAIN functions :
                 a # frame.start => Meta(functions', a) = Meta(functions, a)
<1> DEFINE name == header.names[frame.entity]
           id == CharacterId(frame.start, Last(insts).address, name)
<1>1. PICK func :
        /\ functions' = Each({frame.start}, func) ++ functions
        /\ func.metadata = MetaData(frame.isStart, frame.isEnd /\ position = frame.end, id, name)
  BY AddMeta
<1>2. Reading
  BY AddIs
<1>3. /\ DOMAIN functions' = {frame.start} \cup DOMAIN functions
      /\ functions'[frame.start] = func
      /\ \A x \in DOMAIN functions : x # frame.start => functions'[x] = functions[x]
  <2>1. Overlays(functions', frame.start, func, functions)
    BY <1>1, Overlaid
  <2> QED
    BY <2>1 DEF Overlays
<1>4. /\ IsId(id)
      /\ \A a \in DOMAIN functions :
           Meta(functions, a).name = name /\ Meta(functions, a).id # NoId => id # NoId
  <2>1. CharsKnown /\ IdsRead(functions)
    BY DEF IdInv
  <2> QED
    BY <2>1, IdChosen
<1>5. frame.entity \in Entities
  BY <1>2 DEF FieldInv, FramePlaced
<1>6. IsSequence(name) /\ Len(name) # 0 /\ NameKept(name)
  BY <1>5 DEF IdInv, NamesThere, AllNamesKept
<1> HIDE DEF id, name
<1>7. ParseMetaData(func.metadata).id = id /\ ParseMetaData(func.metadata).name = name
  BY <1>1, <1>4, <1>6, MetaParsed
<1>8. Meta(functions', frame.start).id = id /\ Meta(functions', frame.start).name = name
  BY <1>3, <1>7 DEF Meta
<1>9. \A a \in DOMAIN functions : a # frame.start => Meta(functions', a) = Meta(functions, a)
  BY <1>3 DEF Meta
<1> QED
  BY <1>2, <1>3, <1>4, <1>8, <1>9 DEF id, name

LEMMA IdsKeptSame == UNCHANGED header => (AllNamesKept' <=> AllNamesKept)
BY DEF AllNamesKept, Entities, NameKept

LEMMA AddFunctionIds == FieldInv /\ OrderInv /\ IdInv /\ AddFunction => IdInv'
<1> SUFFICES ASSUME FieldInv, OrderInv, IdInv, AddFunction PROVE IdInv'
  OBVIOUS
<1>1. UNCHANGED <<header, stream, insts>>
  BY DEF AddFunction
<1>2. CharsKnown' /\ NamesThere'
  BY <1>1 DEF IdInv, CharsKnown, NamesThere, Entities, IsSequence
<1>3. (AllNamesKept' <=> AllNamesKept) /\ (Ordered' <=> Ordered)
  BY <1>1, IdsKeptSame, OrderedKept
<1>4. CASE insts = <<>>
  <2>1. UNCHANGED functions
    BY <1>4 DEF AddFunction
  <2> QED
    BY <1>2, <1>3, <2>1 DEF IdInv
<1>5. CASE insts # <<>> /\ AllNamesKept
  <2> DEFINE name == header.names[frame.entity]
             id == CharacterId(frame.start, Last(insts).address, name)
             start == frame.start
             g == functions'
  <2>1. /\ Reading /\ DOMAIN g = {start} \cup DOMAIN functions
        /\ Meta(g, start).id = id /\ Meta(g, start).name = name
        /\ IsId(id)
        /\ \A a \in DOMAIN functions :
             Meta(functions, a).name = name /\ Meta(functions, a).id # NoId => id # NoId
        /\ \A a \in DOMAIN functions : a # start => Meta(g, a) = Meta(functions, a)
    BY <1>5, MetaAdded
  <2> HIDE DEF id, name, g, start
  <2>2. IdsRead(g)
    <3>1. IdsRead(functions)
      BY <1>5 DEF IdInv
    <3> QED
      BY <2>1, <3>1 DEF IdsRead
  <2>3. ASSUME Ordered PROVE IdsFollow(g)
    <3>1. IdsFollow(functions)
      BY <1>5, <2>3 DEF IdInv
    <3>2. \A a \in DOMAIN functions : a \in Nat /\ a < start
      <4>1. FunctionsDealt /\ Border = frame.start /\ frame.start \in Nat
        BY <2>1, <2>3 DEF OrderInv, Border, FieldInv, FramePlaced, LaidOut
      <4>2. ASSUME NEW a \in DOMAIN functions PROVE a \in Nat /\ a < frame.start
        <5>1. a \in Nat /\ functions[a].end \in Nat
          BY DEF FieldInv, FunctionsCounted
        <5>2. a <= functions[a].end /\ functions[a].end < frame.start
          BY <4>1 DEF FunctionsDealt
        <5> QED
          BY <4>1, <5>1, <5>2
      <4> QED
        BY <4>2 DEF start
    <3>3. start \in Nat
      BY <2>1 DEF start, FieldInv, FramePlaced, LaidOut
    <3>4. ASSUME NEW a \in DOMAIN g, NEW b \in DOMAIN g, a <= b,
                 Meta(g, a).name = Meta(g, b).name, Meta(g, a).id # NoId
          PROVE  Meta(g, b).id # NoId
      <4>1. CASE a = start
        <5>1. b = start
          BY <2>1, <3>2, <3>3, <3>4, <4>1
        <5> QED
          BY <3>4, <4>1, <5>1
      <4>2. CASE a # start /\ b = start
        <5>1. a \in DOMAIN functions /\ Meta(g, a) = Meta(functions, a)
          BY <2>1, <4>2
        <5> QED
          BY <2>1, <3>4, <4>2, <5>1
      <4>3. CASE a # start /\ b # start
        <5>1. /\ a \in DOMAIN functions /\ Meta(g, a) = Meta(functions, a)
              /\ b \in DOMAIN functions /\ Meta(g, b) = Meta(functions, b)
          BY <2>1, <4>3
        <5> QED
          BY <3>1, <3>4, <5>1 DEF IdsFollow
      <4> QED
        BY <4>1, <4>2, <4>3
    <3> QED
      BY <3>4 DEF IdsFollow
  <2> QED
    BY <1>2, <1>3, <2>2, <2>3 DEF IdInv, g
<1>6. CASE ~AllNamesKept
  BY <1>2, <1>3, <1>6 DEF IdInv
<1> QED
  BY <1>4, <1>5, <1>6

LEMMA ReadInstructionIds == FieldInv /\ IdInv /\ ReadInstruction => IdInv'
<1> SUFFICES ASSUME FieldInv, IdInv, ReadInstruction PROVE IdInv'
  OBVIOUS
<1>1. UNCHANGED <<header, stream, functions>>
  BY DEF ReadInstruction
<1>2. position \in DOMAIN stream
  BY ReadIs
<1>3. PICK inst : /\ insts' = Append(insts, inst)
                  /\ inst.op = stream[position].op /\ inst.val = stream[position].val
  BY DEF ReadInstruction
<1>4. /\ DOMAIN insts' = 1 .. Len(insts) + 1 /\ DOMAIN insts = 1 .. Len(insts) /\ Len(insts) \in Nat
      /\ \A i \in DOMAIN insts : insts'[i] = insts[i]
      /\ insts'[Len(insts) + 1] = inst
  <2>1. IsSequence(insts)
    BY DEF FieldInv, InstsPlaced
  <2> QED
    BY <1>3, <2>1, Appended
<1>5. ASSUME NEW i \in DOMAIN insts', insts'[i].op = "CHAR" PROVE IsId(insts'[i].val)
  <2>1. i \in DOMAIN insts \/ i = Len(insts) + 1
    BY <1>4
  <2> QED
    BY <1>2, <1>3, <1>4, <1>5, <2>1 DEF IdInv, CharsKnown
<1>6. CharsKnown' /\ NamesThere'
  BY <1>1, <1>5 DEF IdInv, CharsKnown, NamesThere, Entities, IsSequence
<1> QED
  BY <1>1, <1>6, IdsKeptSame, OrderedKept DEF IdInv

LEMMA IdInit == CodeInit => IdInv
<1> SUFFICES ASSUME CodeInit PROVE IdInv
  OBVIOUS
<1>1. PICK f \in Files : header = HeaderOf(f) /\ stream = StreamOf(f.code)
  BY DEF CodeInit, FieldInit
<1>2. IsField(f)
  BY FieldAssumption
<1>3. insts = <<>> /\ functions = <<>>
  BY DEF CodeInit, FieldInit
<1>4. DOMAIN insts = {} /\ DOMAIN functions = {}
  BY <1>3
<1>5. ASSUME NEW p \in DOMAIN stream, stream[p].op = "CHAR" PROVE IsId(stream[p].val)
  <2> DEFINE at == Offsets(f.code)
             k == kSectionPointersSize
  <2>1. PICK i \in 1 .. Len(f.code) : p = k + at[i]
    BY <1>1, <1>2, StreamHolds
  <2>2. stream[p] = Stored(f.code[i], at[i], IF IsJumpOp(f.code[i].op) THEN at[f.code[i].to] ELSE 0)
    BY <1>1, <1>2, <2>1, StreamHolds
  <2>3. stream[p].op = f.code[i].op /\ stream[p].val = f.code[i].val
    BY <2>2 DEF Stored
  <2>4. i \in DOMAIN f.code
    BY <1>2, FieldFacts
  <2> QED
    BY <1>2, <1>5, <2>3, <2>4 DEF IsField, IsId
<1>6. ASSUME NEW e \in Entities PROVE IsSequence(header.names[e]) /\ Len(header.names[e]) # 0
  <2>1. Entities = DOMAIN f.entries /\ DOMAIN f.entries = 1 .. Len(f.names) /\ DOMAIN f.names = 1 .. Len(f.names)
    BY <1>1, <1>2, FieldFacts DEF Entities, HeaderOf
  <2>2. header.names[e] = EntityNameOf(e, f.names[e])
    BY <1>1, <2>1 DEF HeaderOf
  <2>3. f.names[e] \in Seq(STRING) \ {<<>>}
    BY <1>2, <2>1 DEF IsField
  <2>4. CASE header.names[e] = f.names[e]
    <3> DEFINE s == f.names[e]
    <3>1. s \in Seq(STRING) /\ s # <<>>
      BY <2>3
    <3> HIDE DEF s
    <3>2. Len(s) # 0 /\ s \in Seq(ToSet(s))
      BY <3>1 DEF ToSet
    <3> QED
      BY <2>4, <3>2 DEF IsSequence, s
  <2>5. CASE header.names[e] = <<"entity", ToString(e - 1)>>
    <3> DEFINE s == <<"entity", ToString(e - 1)>>
    <3>1. Len(s) # 0 /\ s \in Seq(ToSet(s))
      BY DEF ToSet
    <3> QED
      BY <2>5, <3>1 DEF IsSequence
  <2> QED
    BY <2>2, <2>4, <2>5 DEF EntityNameOf
<1> QED
  BY <1>4, <1>5, <1>6 DEF IdInv, CharsKnown, NamesThere, IdsRead, IdsFollow

LEMMA IdNext == FieldInv /\ OrderInv /\ IdInv /\ [CodeNext]_codeVars => IdInv'
<1> SUFFICES ASSUME FieldInv, OrderInv, IdInv, [CodeNext]_codeVars PROVE IdInv'
  OBVIOUS
<1>1. ASSUME UNCHANGED <<header, stream, insts, functions>> PROVE IdInv'
  <2>1. CharsKnown' /\ NamesThere'
    BY <1>1 DEF IdInv, CharsKnown, NamesThere, Entities, IsSequence
  <2> QED
    BY <1>1, <2>1, IdsKeptSame, OrderedKept DEF IdInv
<1>2. CASE NextEntity
  BY <1>1, <1>2 DEF NextEntity
<1>3. CASE StartScript
  BY <1>1, <1>3 DEF StartScript
<1>4. CASE ReadInstruction
  BY <1>4, ReadInstructionIds
<1>5. CASE ReadAgain
  BY <1>1, <1>5 DEF ReadAgain
<1>6. CASE AddFunction
  BY <1>6, AddFunctionIds
<1>7. CASE BuildGraph
  BY <1>1, <1>7 DEF BuildGraph
<1>8. CASE GenerateFunction
  BY <1>1, <1>8 DEF GenerateFunction
<1>9. CASE GenerationDone
  BY <1>1, <1>9 DEF GenerationDone
<1>10. CASE UNCHANGED codeVars
  BY <1>1, <1>10 DEF codeVars, fieldVars
<1> QED
  BY <1>2, <1>3, <1>4, <1>5, <1>6, <1>7, <1>8, <1>9, <1>10 DEF CodeNext, Disassemble

\* The first function of an entity that has a character names it in the result.
LEMMA EntityHasId ==
  ASSUME FieldInv, NEW a \in DOMAIN functions, Meta(functions, a).id # NoId
  PROVE  GetEntities[Meta(functions, a).name] # NoId
<1> DEFINE metas == {ParseMetaData(functions[x].metadata) : x \in DOMAIN functions}
           Starts(name) == {x \in DOMAIN functions :
                              LET m == ParseMetaData(functions[x].metadata)
                              IN m.name = name /\ m.id # NoId}
           first(name) == IF Starts(name) = {} THEN NoId
                          ELSE ParseMetaData(functions[Min(Starts(name))].metadata).id
           name == Meta(functions, a).name
           S == Starts(name)
<1>1. GetEntities = [n \in {m.name : m \in metas} |-> first(n)]
  BY DEF GetEntities
<1>2. name \in {m.name : m \in metas}
  BY DEF Meta
<1>3. S \subseteq Nat /\ a \in S /\ S \subseteq DOMAIN functions
      /\ \A x \in S : ParseMetaData(functions[x].metadata).id # NoId
  BY DEF Meta, FieldInv, FunctionsCounted
<1>4. first(name) = IF S = {} THEN NoId ELSE ParseMetaData(functions[Min(S)].metadata).id
  OBVIOUS
<1> HIDE DEF metas, first, S, name
<1>5. GetEntities[name] = first(name)
  BY <1>1, <1>2
<1>6. Min(S) \in S
  BY <1>3, LeastOf
<1> QED
  BY <1>3, <1>4, <1>5, <1>6 DEF name

\* Once a function of an entity has a character, so have those behind it, and the
\* result names one for the entity (FindId and the search behind it in AddFunc, with
\* FunctionMetaData and FF7FieldEngine::GetEntities), for every file whose names
\* survive the metadata.
THEOREM CharacterIdsAlwaysKept == FieldSpec => []CharacterIdsKept
<1>1. FieldSpec => []FieldInv
  BY FieldInvariant
<1>2. FieldInv /\ OrderInv /\ IdInv => CharacterIdsKept
  <2> SUFFICES ASSUME FieldInv, OrderInv, IdInv, Ordered, AllNamesKept,
                      NEW a \in DOMAIN functions, NEW b \in DOMAIN functions, a <= b,
                      Meta(functions, a).name = Meta(functions, b).name,
                      Meta(functions, a).id # NoId
               PROVE  Meta(functions, b).id # NoId
                      /\ GetEntities[Meta(functions, a).name] # NoId
    BY DEF CharacterIdsKept, AllNamesKept, Meta
  <2>1. Meta(functions, b).id # NoId
    BY DEF IdInv, IdsFollow
  <2> QED
    BY <2>1, EntityHasId
<1>3. CodeInit => OrderInv /\ IdInv
  BY OrderInit, IdInit
<1>4. FieldInv /\ OrderInv /\ IdInv /\ [CodeNext]_codeVars => OrderInv' /\ IdInv'
  BY OrderNext, IdNext
<1> QED
  BY <1>1, <1>2, <1>3, <1>4, PTL DEF FieldSpec

----------------------------------------------------------------------------
(***************************************************************************)
(* Brackets.  What lines leave open follows from what each of them does to *)
(* what the lines before it left open.                                     *)
(***************************************************************************)
Opened(h, b, s) == h[0] = b /\ \A k \in 1 .. Len(s) : h[k] = Bracket(h[k - 1], s[k])
Leads(b, s, c) == \E h : Opened(h, b, s) /\ h[Len(s)] = c

LEMMA LeadsNone == \A b : Leads(b, <<>>, b)
<1> SUFFICES ASSUME NEW b PROVE Leads(b, <<>>, b)
  OBVIOUS
<1> DEFINE s == <<>>
           h == [k \in {0} |-> b]
<1>1. Len(s) = 0 /\ h[0] = b
  OBVIOUS
<1> HIDE DEF s, h
<1>2. Opened(h, b, s) /\ h[Len(s)] = b
  BY <1>1 DEF Opened
<1> QED
  BY <1>2 DEF Leads, s

LEMMA LeadsOne == \A b, l : Leads(b, <<l>>, Bracket(b, l))
<1> SUFFICES ASSUME NEW b, NEW l PROVE Leads(b, <<l>>, Bracket(b, l))
  OBVIOUS
<1> DEFINE s == <<l>>
           c == Bracket(b, l)
           h == [k \in {0, 1} |-> IF k = 0 THEN b ELSE c]
<1>1. Len(s) = 1 /\ s[1] = l /\ h[0] = b /\ h[1] = c
  OBVIOUS
<1> HIDE DEF s, h
<1>2. Opened(h, b, s)
  BY <1>1 DEF Opened, c
<1> QED
  BY <1>1, <1>2 DEF Leads, s

LEMMA LeadsJoined ==
  ASSUME NEW V, NEW s \in Seq(V), NEW t \in Seq(V), NEW a, NEW b, NEW c,
         Leads(a, s, b), Leads(b, t, c)
  PROVE  Leads(a, s \o t, c)
<1> DEFINE m == Len(s)
           n == Len(t)
           u == s \o t
<1>1. PICK g : Opened(g, a, s) /\ g[m] = b
  BY DEF Leads
<1>2. PICK f : Opened(f, b, t) /\ f[n] = c
  BY DEF Leads
<1> DEFINE h == [k \in 0 .. m + n |-> IF k <= m THEN g[k] ELSE f[k - m]]
<1>3. /\ m \in Nat /\ n \in Nat /\ Len(u) = m + n
      /\ \A i \in 1 .. m + n : u[i] = IF i <= m THEN s[i] ELSE t[i - m]
  BY ConcatProperties
<1>4. \A k \in 0 .. m + n : h[k] = IF k <= m THEN g[k] ELSE f[k - m]
  OBVIOUS
<1> HIDE DEF u, h, m, n
<1>5. g[0] = a /\ \A k \in 1 .. m : g[k] = Bracket(g[k - 1], s[k])
  BY <1>1 DEF Opened, m
<1>6. f[0] = b /\ \A k \in 1 .. n : f[k] = Bracket(f[k - 1], t[k])
  BY <1>2 DEF Opened, n
<1>7. h[0] = a
  BY <1>3, <1>4, <1>5
<1>8. h[m + n] = c
  <2>1. CASE n = 0
    BY <1>1, <1>2, <1>3, <1>4, <1>6, <2>1
  <2>2. CASE n # 0
    <3>1. m + n \in 0 .. m + n /\ ~(m + n <= m) /\ (m + n) - m = n
      BY <1>3, <2>2
    <3> QED
      BY <1>2, <1>4, <3>1
  <2> QED
    BY <2>1, <2>2
<1>9. ASSUME NEW k \in 1 .. m + n PROVE h[k] = Bracket(h[k - 1], u[k])
  <2>1. k \in 0 .. m + n /\ k - 1 \in 0 .. m + n
    BY <1>3
  <2>2. CASE k <= m
    <3>1. k \in 1 .. m /\ k - 1 <= m
      BY <1>3, <2>2
    <3> QED
      BY <1>3, <1>4, <1>5, <2>1, <2>2, <3>1
  <2>3. CASE k = m + 1
    <3>1. h[k - 1] = b
      BY <1>1, <1>3, <1>4, <2>1, <2>3
    <3>2. h[k] = f[1] /\ u[k] = t[1] /\ 1 \in 1 .. n
      BY <1>3, <1>4, <2>1, <2>3
    <3>3. f[1] = Bracket(f[1 - 1], t[1])
      BY <1>6, <3>2
    <3> QED
      BY <1>6, <3>1, <3>2, <3>3
  <2>4. CASE k > m + 1
    <3> DEFINE j == k - m
    <3>1. j \in 1 .. n /\ ~(k <= m) /\ ~(k - 1 <= m) /\ (k - 1) - m = j - 1
      BY <1>3, <2>4
    <3>2. h[k] = f[j] /\ h[k - 1] = f[j - 1] /\ u[k] = t[j]
      BY <1>3, <1>4, <2>1, <3>1
    <3> HIDE DEF j
    <3> QED
      BY <1>6, <3>1, <3>2
  <2> QED
    BY <1>3, <2>2, <2>3, <2>4
<1>10. Opened(h, a, u) /\ h[Len(u)] = c
  BY <1>3, <1>7, <1>8, <1>9 DEF Opened
<1> QED
  BY <1>10 DEF Leads, u

\* The sets of lines that are closed under what Bracket reports.
Closed(L) == \A l \in L : Line("mismatch", l.at) \in L

LEMMA BracketStays ==
  ASSUME NEW L, Closed(L), NEW x \in Seq(L), NEW l \in L
  PROVE  Bracket(x, l) \in Seq(L)
<1> DEFINE w == <<Line("mismatch", l.at)>>
<1>1. w \in Seq(L)
  <2> DEFINE k == Line("mismatch", l.at)
  <2>1. k \in L
    BY DEF Closed
  <2> HIDE DEF k
  <2> QED
    BY <2>1 DEF k
<1> HIDE DEF w
<1>2. w \o x \in Seq(L) /\ Append(x, l) \in Seq(L)
  BY <1>1, ConcatProperties
<1>3. x # <<>> => Front(x) \in Seq(L)
  <2> SUFFICES ASSUME x # <<>> PROVE Front(x) \in Seq(L)
    OBVIOUS
  <2> DEFINE n == Len(x) - 1
  <2>1. n \in Nat /\ Len(x) = n + 1
    OBVIOUS
  <2> HIDE DEF n
  <2> QED
    BY <2>1, FrontIs
<1>4. Bracket(x, l) \in {Append(x, l), x, w \o x} \/ (x # <<>> /\ Bracket(x, l) = Front(x))
  BY DEF Bracket, w
<1> QED
  BY <1>2, <1>3, <1>4

LEMMA LeadsFold ==
  ASSUME NEW L, Closed(L), NEW s \in Seq(L), NEW c, Leads(<<>>, s, c)
  PROVE  FoldLeft(Bracket, <<>>, s) = c
<1> DEFINE n == Len(s)
           b == <<>>
           G == [k \in 1 .. n |-> [x \in Seq(L) |-> Bracket(x, s[k])]]
           Eqn(h) == h = [r \in SUBSET (DOMAIN s) |->
                            IF r = {} THEN b ELSE Bracket(h[r \ {Max(r)}], s[Max(r)])]
           iter == CHOOSE h : Eqn(h)
<1>1. n \in Nat /\ DOMAIN s = 1 .. n /\ (\A k \in 1 .. n : s[k] \in L) /\ b \in Seq(L)
  OBVIOUS
<1>2. \A k \in 1 .. n : \A x \in Seq(L) : G[k][x] = Bracket(x, s[k]) /\ G[k][x] \in Seq(L)
  BY <1>1, BracketStays
<1>3. FoldLeft(Bracket, b, s) = iter[DOMAIN s]
  BY DEF FoldLeft, MapThenFoldSet
<1>4. PICK t : Opened(t, b, s) /\ t[n] = c
  BY DEF Leads
<1> HIDE DEF n, G, b
<1>5. PICK f \in [SUBSET (1 .. n) -> Seq(L)] : Folds(f, n, b, G)
  <2>1. \A i \in 1 .. n : \A x \in Seq(L) : G[i][x] \in Seq(L)
    BY <1>2
  <2>2. FoldSolvable(Seq(L), b, n, G)
    BY <1>1, <2>1, FoldExists
  <2> QED
    BY <2>2 DEF FoldSolvable
<1>6. ASSUME NEW r \in SUBSET (1 .. n)
      PROVE  f[r] = IF r = {} THEN b ELSE Bracket(f[r \ {Max(r)}], s[Max(r)])
  <2>1. CASE r = {}
    BY <1>5, <2>1 DEF Folds
  <2>2. CASE r # {}
    <3> DEFINE q == r \ {Max(r)}
    <3>1. Max(r) \in 1 .. n /\ q \in SUBSET (1 .. n)
      BY <1>1, <2>2, GreatestExists
    <3>2. f[q] \in Seq(L)
      BY <3>1, <1>5
    <3>3. f[r] = G[Max(r)][f[q]]
      BY <1>5, <2>2 DEF Folds
    <3> HIDE DEF q
    <3>4. f[r] = Bracket(f[q], s[Max(r)])
      BY <1>2, <3>1, <3>2, <3>3
    <3> QED
      BY <2>2, <3>4 DEF q
  <2> QED
    BY <2>1, <2>2
<1>7. Eqn(f)
  BY <1>1, <1>5, <1>6
<1>8. Eqn(iter)
  <2> HIDE DEF Eqn
  <2> QED
    BY <1>7
<1> HIDE DEF iter
<1>9. ASSUME NEW r \in SUBSET (1 .. n)
      PROVE  iter[r] = IF r = {} THEN b ELSE Bracket(iter[r \ {Max(r)}], s[Max(r)])
  BY <1>1, <1>8
<1> HIDE DEF Eqn
<1>10. iter[1 .. 0] = b /\ \A k \in 1 .. n : iter[1 .. k] = Bracket(iter[1 .. k - 1], s[k])
  <2>1. iter[1 .. 0] = b
    <3>1. 1 .. 0 = {} /\ 1 .. 0 \in SUBSET (1 .. n)
      OBVIOUS
    <3> QED
      BY <1>9, <3>1
  <2>2. ASSUME NEW k \in 1 .. n
        PROVE  iter[1 .. k] = Bracket(iter[1 .. k - 1], s[k])
    <3> DEFINE r == 1 .. k
    <3>1. r \in SUBSET (1 .. n) /\ r # {} /\ k \in r /\ r \ {k} = 1 .. k - 1
      <4>1. k \in Nat /\ 1 <= k /\ k <= n
        BY <1>1
      <4>2. \A x \in Int : x \in r \ {k} <=> x \in 1 .. k - 1
        BY <4>1
      <4>3. r \subseteq Int /\ 1 .. k - 1 \subseteq Int
        OBVIOUS
      <4>4. r \ {k} = 1 .. k - 1
        <5> HIDE DEF r
        <5> QED
          BY <4>2, <4>3
      <4>5. r \subseteq 1 .. n /\ k \in r
        BY <1>1, <4>1
      <4> QED
        BY <4>4, <4>5
    <3>2. Max(r) = k
      <4>1. \A j \in r : j <= k
        BY <1>1
      <4>2. \A x \in r : (\A y \in r : x >= y) => x = k
        BY <1>1, <3>1, <4>1
      <4>3. Max(r) \in r /\ \A y \in r : Max(r) >= y
        <5>1. \E x \in r : \A y \in r : x >= y
          BY <1>1, <3>1, <4>1
        <5> HIDE DEF r
        <5> QED
          BY <5>1 DEF Max
      <4> QED
        BY <4>2, <4>3
    <3> HIDE DEF r
    <3> QED
      BY <1>9, <3>1, <3>2 DEF r
  <2> QED
    BY <2>1, <2>2
<1> DEFINE eq == [k \in 0 .. n |-> iter[1 .. k] = t[k]]
           S == {TRUE}
<1>11. \A k \in 0 .. n : eq[k] \in S <=> iter[1 .. k] = t[k]
  OBVIOUS
<1> HIDE DEF eq, S
<1>12. t[0] = b /\ \A k \in 1 .. n : t[k] = Bracket(t[k - 1], s[k])
  BY <1>4 DEF Opened, n
<1>13. \A k \in 0 .. n : eq[k] \in S
  <2>1. 0 \in Int /\ n \in Int /\ eq[0] \in S
    BY <1>1, <1>10, <1>11, <1>12
  <2>2. ASSUME NEW k \in 0 + 1 .. n, eq[k - 1] \in S PROVE eq[k] \in S
    <3>1. k \in 1 .. n /\ k \in 0 .. n /\ k - 1 \in 0 .. n
      BY <1>1
    <3> QED
      BY <1>10, <1>11, <1>12, <2>2, <3>1
  <2> QED
    BY <2>1, <2>2, RecursionTyped
<1>14. iter[1 .. n] = t[n]
  <2>1. n \in 0 .. n
    BY <1>1
  <2> QED
    BY <1>11, <1>13, <2>1
<1> QED
  BY <1>1, <1>3, <1>4, <1>14 DEF n, b
----------------------------------------------------------------------------
(***************************************************************************)
(* Ifs.  What lines left open is a stack of ifs on top of what was open    *)
(* before the function, in the order of their instructions.                *)
(***************************************************************************)
IfLine(inst) == [Line("if", inst.address) EXCEPT !.dest = inst.dest]

Stacks(c, b, body, W, m, p) ==
  /\ IsSequence(c) /\ Len(c) = Len(b) + m
  /\ \A i \in 1 .. Len(b) : c[i] = b[i]
  /\ \A i \in 1 .. m : p[i] \in W /\ c[Len(b) + i] = IfLine(body[p[i]])
  /\ \A w \in W : \E i \in 1 .. m : p[i] = w
  /\ \A i, j \in 1 .. m : i < j => p[i] < p[j]
Stacked(c, b, body, W) == \E m \in Nat : \E p : Stacks(c, b, body, W, m, p)

LEMMA FrontSequence ==
  ASSUME NEW s, IsSequence(s), NEW n \in Nat, Len(s) = n + 1
  PROVE  /\ IsSequence(Front(s)) /\ Len(Front(s)) = n
         /\ \A k \in 1 .. n : Front(s)[k] = s[k]
<1> DEFINE f == Front(s)
           S == ToSet(s)
<1>1. s \in Seq(S)
  BY DEF IsSequence
<1> HIDE DEF S
<1>2. f \in Seq(S) /\ Len(f) = n /\ \A k \in 1 .. n : f[k] = s[k]
  BY <1>1, FrontIs
<1> HIDE DEF f
<1>3. f \in Seq(ToSet(f))
  BY <1>2 DEF ToSet
<1> QED
  BY <1>2, <1>3 DEF IsSequence, f

LEMMA StackedNone ==
  ASSUME NEW b, IsSequence(b), NEW body
  PROVE  Stacked(b, b, body, {}) /\ \A c : Stacked(c, b, body, {}) => c = b
<1> DEFINE n == Len(b)
<1>1. n \in Nat /\ DOMAIN b = 1 .. n /\ b \in Seq(ToSet(b))
  BY DEF IsSequence
<1>2. Stacks(b, b, body, {}, 0, <<>>)
  BY <1>1 DEF Stacks
<1>3. ASSUME NEW c, Stacked(c, b, body, {}) PROVE c = b
  <2>1. PICK m \in Nat : \E p : Stacks(c, b, body, {}, m, p)
    BY <1>3 DEF Stacked
  <2>2. m = 0
    BY <2>1 DEF Stacks
  <2>3. c \in Seq(ToSet(c)) /\ Len(c) = Len(b) /\ \A i \in 1 .. Len(b) : c[i] = b[i]
    BY <1>1, <2>1, <2>2 DEF Stacks, IsSequence
  <2> DEFINE U == ToSet(b) \cup ToSet(c)
  <2>4. c \in Seq(U) /\ b \in Seq(U)
    BY <1>1, <2>3
  <2> HIDE DEF U
  <2> QED
    BY <2>3, <2>4, SeqEqual
<1>4. Stacked(b, b, body, {})
  BY <1>2 DEF Stacked
<1> QED
  BY <1>3, <1>4

LEMMA StackedPushed ==
  ASSUME NEW c, NEW b, IsSequence(b), NEW body, NEW W, Stacked(c, b, body, W), NEW k,
         \A w \in W : w < k
  PROVE  Stacked(Append(c, IfLine(body[k])), b, body, W \cup {k})
<1>0. PICK m \in Nat : \E p : Stacks(c, b, body, W, m, p)
  BY DEF Stacked
<1>1. PICK p : Stacks(c, b, body, W, m, p)
  BY <1>0
<1> DEFINE l == IfLine(body[k])
           d == Append(c, l)
           q == [i \in 1 .. m + 1 |-> IF i <= m THEN p[i] ELSE k]
<1>2. (\A i \in 1 .. m : q[i] = p[i]) /\ q[m + 1] = k
  OBVIOUS
<1>3. IsSequence(c) /\ Len(b) \in Nat
  BY <1>1 DEF Stacks, IsSequence
<1>4. /\ IsSequence(d) /\ Len(d) = Len(c) + 1 /\ Len(c) \in Nat
      /\ \A i \in 1 .. Len(c) : d[i] = c[i]
  BY <1>3, Appended
<1>5. d[Len(c) + 1] = l
  <2>1. c \in Seq(ToSet(c))
    BY <1>3 DEF IsSequence
  <2> HIDE DEF l
  <2> QED
    BY <2>1
<1> HIDE DEF d, q, l
<1>6. Len(c) = Len(b) + m /\ Len(d) = Len(b) + (m + 1)
  BY <1>1, <1>3, <1>4 DEF Stacks
<1>7. \A i \in 1 .. Len(b) : d[i] = b[i]
  <2>1. \A i \in 1 .. Len(b) : i \in 1 .. Len(c)
    BY <1>3, <1>6
  <2> QED
    BY <1>1, <1>4, <2>1 DEF Stacks
<1>8. ASSUME NEW i \in 1 .. m + 1
      PROVE  q[i] \in W \cup {k} /\ d[Len(b) + i] = IfLine(body[q[i]])
  <2>1. CASE i = m + 1
    <3>1. Len(b) + i = Len(c) + 1
      BY <1>3, <1>6, <2>1
    <3> QED
      BY <1>2, <1>5, <2>1, <3>1 DEF l
  <2>2. CASE i # m + 1
    <3>1. i \in 1 .. m /\ Len(b) + i \in 1 .. Len(c)
      BY <1>3, <1>6, <2>2
    <3>2. p[i] \in W /\ c[Len(b) + i] = IfLine(body[p[i]])
      BY <1>1, <3>1 DEF Stacks
    <3> QED
      BY <1>2, <1>4, <3>1, <3>2
  <2> QED
    BY <2>1, <2>2
<1>9. ASSUME NEW w \in W \cup {k} PROVE \E i \in 1 .. m + 1 : q[i] = w
  <2>1. CASE w \in W
    <3>1. PICK i \in 1 .. m : p[i] = w
      BY <1>1, <2>1 DEF Stacks
    <3>2. i \in 1 .. m + 1
      OBVIOUS
    <3> QED
      BY <1>2, <3>1, <3>2
  <2>2. CASE w = k
    <3>1. m + 1 \in 1 .. m + 1
      OBVIOUS
    <3> QED
      BY <1>2, <2>2, <3>1
  <2> QED
    BY <2>1, <2>2
<1>10. ASSUME NEW i \in 1 .. m + 1, NEW j \in 1 .. m + 1, i < j PROVE q[i] < q[j]
  <2>1. i \in 1 .. m
    BY <1>10
  <2>2. CASE j = m + 1
    <3>1. p[i] \in W
      BY <1>1, <2>1 DEF Stacks
    <3> QED
      BY <1>2, <2>1, <2>2, <3>1
  <2>3. CASE j # m + 1
    <3>1. j \in 1 .. m
      BY <2>3
    <3>2. p[i] < p[j]
      BY <1>1, <1>10, <2>1, <3>1 DEF Stacks
    <3> QED
      BY <1>2, <2>1, <3>1, <3>2
  <2> QED
    BY <2>2, <2>3
<1>11. Stacks(d, b, body, W \cup {k}, m + 1, q)
  BY <1>4, <1>6, <1>7, <1>8, <1>9, <1>10 DEF Stacks
<1>12. m + 1 \in Nat
  OBVIOUS
<1>13. Stacked(d, b, body, W \cup {k})
  BY <1>11, <1>12 DEF Stacked
<1> QED
  BY <1>13 DEF d, l

LEMMA StackedPopped ==
  ASSUME NEW c, NEW b, IsSequence(b), NEW body, NEW W, W \subseteq Nat, Stacked(c, b, body, W),
         NEW k \in W, \A w \in W : w <= k
  PROVE  /\ c # <<>> /\ Last(c) = IfLine(body[k])
         /\ Stacked(Front(c), b, body, W \ {k})
<1>0. PICK m \in Nat : \E p : Stacks(c, b, body, W, m, p)
  BY DEF Stacked
<1>1. PICK p : Stacks(c, b, body, W, m, p)
  BY <1>0
<1>2. PICK e \in 1 .. m : p[e] = k
  BY <1>1 DEF Stacks
<1> DEFINE n == m - 1
<1>3. n \in Nat /\ m = n + 1 /\ m \in 1 .. m /\ e <= m
  BY <1>2
<1> HIDE DEF n
<1>4. p[m] = k
  <2>1. p[m] \in W
    BY <1>1, <1>3 DEF Stacks
  <2>2. e < m => p[e] < p[m]
    BY <1>1, <1>3 DEF Stacks
  <2>3. p[m] <= k /\ p[m] \in Nat /\ k \in Nat
    BY <2>1
  <2>4. ~(e < m)
    BY <1>2, <2>2, <2>3
  <2>5. e = m
    BY <1>3, <2>4
  <2> QED
    BY <1>2, <2>5
<1>5. IsSequence(c) /\ Len(b) \in Nat /\ Len(c) = Len(b) + m
  BY <1>1 DEF Stacks, IsSequence
<1>6. c[Len(c)] = IfLine(body[k])
  BY <1>1, <1>3, <1>4, <1>5 DEF Stacks
<1>7. c # <<>> /\ Last(c) = IfLine(body[k])
  <2>1. Len(c) # 0
    BY <1>3, <1>5
  <2> QED
    BY <1>6, <2>1 DEF Last
<1> DEFINE d == Front(c)
           r == Len(b) + n
<1>8. r \in Nat /\ Len(c) = r + 1
  BY <1>3, <1>5
<1>9. IsSequence(d) /\ Len(d) = r /\ \A i \in 1 .. r : d[i] = c[i]
  <2> HIDE DEF r
  <2> QED
    BY <1>5, <1>8, FrontSequence
<1> HIDE DEF d
<1>10. \A i \in 1 .. Len(b) : i \in 1 .. r
  BY <1>3, <1>5
<1>11. ASSUME NEW i \in 1 .. n
       PROVE  p[i] \in W \ {k} /\ d[Len(b) + i] = IfLine(body[p[i]])
  <2>1. i \in 1 .. m /\ i < m /\ Len(b) + i \in 1 .. r
    BY <1>3, <1>5
  <2>2. p[i] \in W /\ c[Len(b) + i] = IfLine(body[p[i]]) /\ p[i] < p[m]
    BY <1>1, <1>3, <2>1 DEF Stacks
  <2> QED
    BY <1>4, <1>9, <2>1, <2>2
<1>12. ASSUME NEW w \in W \ {k} PROVE \E i \in 1 .. n : p[i] = w
  <2>1. PICK i \in 1 .. m : p[i] = w
    BY <1>1 DEF Stacks
  <2>2. i # m
    BY <1>4, <2>1
  <2> QED
    BY <1>3, <2>1, <2>2
<1>13. ASSUME NEW i \in 1 .. n, NEW j \in 1 .. n, i < j PROVE p[i] < p[j]
  <2>1. i \in 1 .. m /\ j \in 1 .. m
    BY <1>3
  <2> QED
    BY <1>1, <1>13, <2>1 DEF Stacks
<1>14. \A i \in 1 .. Len(b) : d[i] = b[i]
  BY <1>1, <1>9, <1>10 DEF Stacks
<1>15. Stacks(d, b, body, W \ {k}, n, p)
  BY <1>9, <1>11, <1>12, <1>13, <1>14 DEF Stacks
<1>16. Stacked(d, b, body, W \ {k})
  BY <1>3, <1>15 DEF Stacked
<1> QED
  BY <1>7, <1>16 DEF d

LEMMA IfCloses ==
  ASSUME NEW c, c # <<>>, NEW inst, Last(c) = IfLine(inst), NEW at,
         at = inst.dest \/ at = inst.address
  PROVE  Bracket(c, Line("end", at)) = Front(c)
<1> DEFINE l == Line("end", at)
           o == Last(c)
<1>1. l.kind = "end" /\ l.at = at
  BY DEF Line
<1>2. o.kind = "if" /\ o.dest = inst.dest /\ o.at = inst.address
  BY DEF IfLine, Line
<1> HIDE DEF l, o
<1>3. Closes(l, o)
  BY <1>1, <1>2 DEF Closes
<1> QED
  BY <1>1, <1>3 DEF Bracket, l, o

\* The ends in front of an instruction close the ifs that exit to it, if they are the
\* last ones that are open.
LEMMA EndsLead ==
  ASSUME NEW b, IsSequence(b), NEW body, NEW at
  PROVE  \A n \in Nat : \A c, W, I :
           /\ W \subseteq Nat /\ Stacked(c, b, body, W)
           /\ I \subseteq W /\ IsFiniteSet(I) /\ Cardinality(I) = n
           /\ \A i \in I : body[i].dest = at /\ \A w \in W \ I : w < i
           => \E d : Leads(c, Ends(n, at), d) /\ Stacked(d, b, body, W \ I)
<1> DEFINE Fits(c, W, I, n) ==
             /\ W \subseteq Nat /\ Stacked(c, b, body, W)
             /\ I \subseteq W /\ IsFiniteSet(I) /\ Cardinality(I) = n
             /\ \A i \in I : body[i].dest = at /\ \A w \in W \ I : w < i
           Ended(c, W, I, n) == \E d : Leads(c, Ends(n, at), d) /\ Stacked(d, b, body, W \ I)
           T == {n \in Nat : \A c, W, I : Fits(c, W, I, n) => Ended(c, W, I, n)}
<1>1. 0 \in T
  <2> SUFFICES ASSUME NEW c, NEW W, NEW I, Fits(c, W, I, 0) PROVE Ended(c, W, I, 0)
    OBVIOUS
  <2>1. I = {}
    BY FS_EmptySet
  <2>2. Ends(0, at) = <<>>
    BY DEF Ends
  <2>3. W \ I = W
    BY <2>1
  <2>4. Leads(c, Ends(0, at), c)
    BY <2>2, LeadsNone
  <2> QED
    BY <2>3, <2>4
<1>2. ASSUME NEW n \in T PROVE n + 1 \in T
  <2> SUFFICES ASSUME NEW c, NEW W, NEW I, Fits(c, W, I, n + 1) PROVE Ended(c, W, I, n + 1)
    <3>1. n + 1 \in Nat
      BY <1>2
    <3> HIDE DEF Fits, Ended
    <3> QED
      BY <3>1
  <2>1. n \in Nat /\ \A e, X, J : Fits(e, X, J, n) => Ended(e, X, J, n)
    BY <1>2
  <2>2. /\ W \subseteq Nat /\ Stacked(c, b, body, W)
        /\ I \subseteq W /\ IsFiniteSet(I) /\ Cardinality(I) = n + 1
        /\ \A i \in I : body[i].dest = at /\ \A w \in W \ I : w < i
    OBVIOUS
  <2> HIDE DEF T
  <2>3. PICK k \in I : \A i \in I : k <= i
    <3>1. I # {} /\ I \subseteq Nat
      BY <2>1, <2>2, FS_EmptySet
    <3> QED
      BY <3>1, LeastNatural
  <2> DEFINE J == I \ {k}
  <2>4. IsFiniteSet(J) /\ Cardinality(J) = n
    <3>1. IsFiniteSet(I \ {k}) /\ Cardinality(I \ {k}) = Cardinality(I) - 1
      BY <2>2, FS_RemoveElement
    <3> QED
      BY <2>1, <2>2, <3>1
  <2>5. J \subseteq W /\ \A i \in J : body[i].dest = at /\ \A w \in W \ J : w < i
    <3>1. ASSUME NEW i \in J, NEW w \in W \ J PROVE w < i
      <4>1. i \in I /\ k <= i /\ i # k /\ i \in Int /\ k \in Int
        BY <2>2, <2>3
      <4>2. CASE w = k
        BY <4>1, <4>2
      <4>3. CASE w # k
        BY <2>2, <4>1, <4>3
      <4> QED
        BY <4>2, <4>3
    <3> QED
      BY <2>2, <3>1
  <2>6. Fits(c, W, J, n)
    BY <2>2, <2>4, <2>5
  <2>7. PICK e : Leads(c, Ends(n, at), e) /\ Stacked(e, b, body, W \ J)
    BY <2>1, <2>6
  <2> DEFINE X == W \ J
  <2>8. X \subseteq Nat /\ k \in X /\ X \ {k} = W \ I /\ \A w \in X : w <= k
    <3>1. \A w \in X : w = k \/ w \in W \ I
      OBVIOUS
    <3>2. \A w \in X : w \in Int /\ k \in Int
      BY <2>2
    <3>3. \A w \in X : w <= k
      BY <2>2, <3>1, <3>2
    <3> QED
      BY <2>2, <2>3, <3>3
  <2>9. Stacked(e, b, body, X)
    BY <2>7
  <2> HIDE DEF X, J
  <2> DEFINE l == Line("end", at)
  <2>10. e # <<>> /\ Last(e) = IfLine(body[k]) /\ Stacked(Front(e), b, body, X \ {k})
    BY <2>8, <2>9, StackedPopped
  <2>11. Bracket(e, l) = Front(e)
    <3>1. at = body[k].dest
      BY <2>2
    <3> QED
      BY <2>10, <3>1, IfCloses
  <2>12. Leads(e, <<l>>, Front(e))
    BY <2>11, LeadsOne
  <2>13. Ends(n + 1, at) = Ends(n, at) \o <<l>> /\ Ends(n, at) \in Seq({l}) /\ <<l>> \in Seq({l})
    <3> HIDE DEF l
    <3> DEFINE u == [j \in 1 .. n |-> l]
               v == [j \in 1 .. n + 1 |-> l]
               w == <<l>>
               Q == {l}
    <3>1. /\ u \in Seq(Q) /\ Len(u) = n /\ v \in Seq(Q) /\ Len(v) = n + 1 /\ w \in Seq(Q) /\ Len(w) = 1
          /\ w[1] = l
      BY <2>1
    <3>2. (\A i \in 1 .. n : u[i] = l) /\ \A i \in 1 .. n + 1 : v[i] = l
      OBVIOUS
    <3>3. Ends(n, at) = u /\ Ends(n + 1, at) = v
      BY DEF Ends, l
    <3> HIDE DEF u, v, w, Q
    <3>4. (\A i \in 1 .. Len(u) : v[i] = u[i]) /\ \A i \in 1 .. Len(w) : v[Len(u) + i] = w[i]
      <4>1. \A i \in 1 .. n : i \in 1 .. n + 1
        BY <2>1
      <4>2. n + 1 \in 1 .. n + 1
        BY <2>1
      <4> QED
        BY <3>1, <3>2, <4>1, <4>2
    <3>5. u \o w = v
      BY <3>1, <3>4, SameJoined
    <3> QED
      BY <3>1, <3>3, <3>5 DEF w, Q
  <2>14. Leads(c, Ends(n + 1, at), Front(e))
    <3> DEFINE s == Ends(n, at)
               t == <<l>>
               V == {l}
    <3>1. s \in Seq(V) /\ t \in Seq(V) /\ Leads(c, s, e) /\ Leads(e, t, Front(e)) /\ Ends(n + 1, at) = s \o t
      BY <2>7, <2>12, <2>13
    <3> HIDE DEF s, t, V
    <3> QED
      BY <3>1, LeadsJoined
  <2> QED
    BY <2>8, <2>10, <2>14
<1>3. T = Nat
  <2>1. T \subseteq Nat
    OBVIOUS
  <2> HIDE DEF T
  <2> QED
    BY <1>1, <1>2, <2>1, InductionOnNat
<1> QED
  BY <1>3

\* A line that opens and closes nothing.
Skips(l) == l.kind \in {"label", "goto", "statement", "request"}

LEMMA SkipLeads == \A c, l : Skips(l) => Leads(c, <<l>>, c)
<1> SUFFICES ASSUME NEW c, NEW l, Skips(l) PROVE Leads(c, <<l>>, c)
  OBVIOUS
<1>1. Bracket(c, l) = c
  BY DEF Skips, Bracket
<1> QED
  BY <1>1, LeadsOne

\* A function as it is read: the addresses rise and ifs exit forward.
RisesTo(body, n) ==
  /\ DOMAIN body = 1 .. n /\ Len(body) = n
  /\ \A i \in 1 .. n : body[i].address \in Nat
  /\ \A i, j \in 1 .. n : i < j => body[i].address < body[j].address
  /\ \A i \in 1 .. n : IsCond(body[i]) => /\ body[i].dest \in Int
                                          /\ body[i].address < body[i].dest

\* The ifs open behind an instruction.  One at the very end closes itself.
OpenIfs(body, n, k) ==
  {j \in 1 .. k : j # n /\ IsCond(body[j]) /\ body[k].address < body[j].dest}
IfsTo(body, k) == {o \in Origins(body, k) : IsCond(body[o])}

\* The ifs that exit to an instruction are the last ones open in front of it.
LastOpen(body, n, j, k, W, I) ==
  /\ I \subseteq W /\ W \subseteq Nat /\ IsFiniteSet(I) /\ Cardinality(I) \in Nat
  /\ \A i \in I : body[i].dest = body[k].address /\ \A w \in W \ I : w < i
  /\ \A w \in W \ I : w < k
  /\ W \ I = {w \in 1 .. j : w # n /\ IsCond(body[w]) /\ body[k].address < body[w].dest}

LEMMA IfsClosedInOrder ==
  ASSUME NEW n \in Nat, NEW body, RisesTo(body, n), Nested(body), ExitsInside(body),
         NEW j \in Nat, NEW k, k = j + 1, k <= n,
         NEW W, W = OpenIfs(body, n, j), NEW I, I = IfsTo(body, k)
  PROVE  LastOpen(body, n, j, k, W, I)
<1>1. /\ DOMAIN body = 1 .. n /\ \A i \in 1 .. n : body[i].address \in Nat
      /\ \A x, y \in 1 .. n : x < y => body[x].address < body[y].address
      /\ \A i \in 1 .. n : IsCond(body[i]) => body[i].dest \in Int /\ body[i].address < body[i].dest
  BY DEF RisesTo
<1>2. k \in 1 .. n /\ 1 .. j \subseteq 1 .. n /\ n \notin 1 .. j
  OBVIOUS
<1>3. \A w : w \in W <=> w \in 1 .. j /\ IsCond(body[w]) /\ body[j].address < body[w].dest
  BY <1>2 DEF OpenIfs
<1>4. \A o : o \in I <=> o \in 1 .. n /\ IsCond(body[o]) /\ body[o].dest = body[k].address
  BY <1>1 DEF IfsTo, Origins
<1>5. ASSUME NEW o \in I PROVE o \in 1 .. j /\ j \in 1 .. n /\ o \in W
  <2>1. o \in 1 .. n /\ IsCond(body[o]) /\ body[o].dest = body[k].address
    BY <1>4
  <2>2. body[o].address < body[k].address /\ body[o].address \in Nat /\ body[k].address \in Nat
    BY <1>1, <1>2, <2>1
  <2>3. ~(k <= o)
    <3>1. CASE k = o
      BY <2>2, <3>1
    <3>2. CASE k < o
      <4>1. body[k].address < body[o].address
        BY <1>1, <1>2, <2>1, <3>2
      <4> QED
        BY <2>2, <4>1
    <3> QED
      BY <1>2, <2>1, <3>1, <3>2
  <2>4. o \in 1 .. j /\ j \in 1 .. n /\ j < k
    BY <1>2, <2>1, <2>3
  <2>5. body[j].address < body[k].address
    BY <1>1, <1>2, <2>4
  <2> QED
    BY <1>3, <2>1, <2>4, <2>5
<1>6. ASSUME NEW w \in W PROVE body[w].dest \in Int /\ body[k].address \in Nat /\ body[k].address <= body[w].dest
  <2>1. w \in 1 .. j /\ w \in 1 .. n /\ w # n /\ j \in 1 .. n /\ IsCond(body[w]) /\ body[j].address < body[w].dest
    BY <1>2, <1>3
  <2>2. w \in IfsOf(body) \ {Len(body)}
    BY <1>1, <2>1 DEF IfsOf, RisesTo
  <2>3. PICK x \in DOMAIN body : body[x].address = body[w].dest
    BY <2>2 DEF ExitsInside
  <2>4. x \in 1 .. n /\ body[x].address \in Nat /\ body[j].address \in Nat /\ body[j].address < body[x].address
    BY <1>1, <2>1, <2>3
  <2>5. ~(x <= j)
    <3>1. CASE x = j
      BY <2>4, <3>1
    <3>2. CASE x < j
      <4>1. body[x].address < body[j].address
        BY <1>1, <2>1, <2>4, <3>2
      <4> QED
        BY <2>4, <4>1
    <3> QED
      BY <2>1, <2>4, <3>1, <3>2
  <2>6. x = k \/ k < x
    BY <2>4, <2>5
  <2>7. body[k].address \in Nat /\ body[k].address <= body[x].address
    BY <1>1, <1>2, <2>4, <2>6
  <2> QED
    BY <1>1, <2>1, <2>3, <2>7
<1>7. ASSUME NEW w \in W \ I PROVE w \in 1 .. j /\ body[k].address < body[w].dest /\ IsCond(body[w])
  <2>1. w \in 1 .. j /\ IsCond(body[w]) /\ w \in 1 .. n
    BY <1>2, <1>3
  <2>2. body[w].dest # body[k].address
    BY <1>4, <2>1
  <2> QED
    BY <1>6, <2>1, <2>2
<1>8. ASSUME NEW i \in I, NEW w \in W \ I PROVE w < i
  <2>1. /\ i \in 1 .. n /\ i \in 1 .. j /\ IsCond(body[i]) /\ body[i].dest = body[k].address
        /\ w \in 1 .. n /\ w \in 1 .. j /\ IsCond(body[w]) /\ body[k].address < body[w].dest
    BY <1>2, <1>4, <1>5, <1>7
  <2>2. i \in IfsOf(body) /\ w \in IfsOf(body)
    BY <1>1, <2>1 DEF IfsOf
  <2>3. w # i
    OBVIOUS
  <2>4. CASE i < w
    <3>1. body[i].dest <= body[w].address \/ body[w].dest <= body[i].dest
      BY <2>2, <2>4 DEF Nested
    <3>2. body[w].address < body[k].address
      BY <1>1, <1>2, <2>1
    <3>3. body[w].address \in Nat /\ body[k].address \in Nat /\ body[w].dest \in Int
      BY <1>1, <1>2, <2>1
    <3> QED
      BY <2>1, <3>1, <3>2, <3>3
  <2> QED
    BY <2>1, <2>3, <2>4
<1>9. IsFiniteSet(I) /\ Cardinality(I) \in Nat
  <2>1. IsFiniteSet(1 .. n) /\ I \subseteq 1 .. n
    BY <1>4, FS_Interval
  <2> QED
    BY <2>1, FS_Subset, FS_CardinalityType
<1>10. W \ I = {w \in 1 .. j : w # n /\ IsCond(body[w]) /\ body[k].address < body[w].dest}
  <2>1. ASSUME NEW w \in 1 .. j, IsCond(body[w]), body[k].address < body[w].dest
        PROVE  w \in W \ I
    <3>1. w \in 1 .. n /\ j \in 1 .. n
      BY <1>2
    <3>2. /\ body[j].address < body[k].address /\ body[j].address \in Nat /\ body[k].address \in Nat
          /\ body[w].dest \in Int
      BY <1>1, <1>2, <2>1, <3>1
    <3>3. w \in W
      BY <1>3, <2>1, <3>2
    <3>4. w \notin I
      BY <1>4, <2>1, <3>2
    <3> QED
      BY <3>3, <3>4
  <2> QED
    BY <1>2, <1>7, <2>1
<1>11. \A w \in W \ I : w < k
  BY <1>7
<1>12. W \subseteq Nat
  BY <1>3
<1> QED
  BY <1>4, <1>5, <1>8, <1>9, <1>10, <1>11, <1>12 DEF LastOpen

LEMMA LabelsLead ==
  ASSUME NEW b, IsSequence(b), NEW body, NEW k, NEW c, NEW W, Stacked(c, b, body, W),
         W \subseteq Nat, IfsTo(body, k) \subseteq W,
         IsFiniteSet(IfsTo(body, k)), Cardinality(IfsTo(body, k)) \in Nat,
         \A i \in IfsTo(body, k) : /\ body[i].dest = body[k].address
                                   /\ \A w \in W \ IfsTo(body, k) : w < i
  PROVE  \E d : Leads(c, LabelLines(body, k), d) /\ Stacked(d, b, body, W \ IfsTo(body, k))
<1> DEFINE I == IfsTo(body, k)
           at == body[k].address
           n == Cardinality(I)
           ends == Ends(n, at)
           label == IF I # Origins(body, k) THEN <<Line("label", at)>> ELSE <<>>
           V == {Line("end", at), Line("label", at)}
<1>1. LabelLines(body, k) = ends \o label
  BY DEF LabelLines, IfsTo
<1>2. ends \in Seq(V)
  <2> DEFINE l == Line("end", at)
  <2>1. ends = [e \in 1 .. n |-> l] /\ l \in V /\ n \in Nat
    BY DEF Ends
  <2> HIDE DEF l, V, ends, n
  <2> QED
    BY <2>1
<1>3. label \in Seq(V) /\ \A d : Leads(d, label, d)
  <2> DEFINE l == Line("label", at)
  <2>1. l \in V /\ Skips(l)
    BY DEF Line, Skips
  <2>2. label = <<>> \/ label = <<l>>
    OBVIOUS
  <2> HIDE DEF l, V, label
  <2>3. <<l>> \in Seq(V) /\ <<>> \in Seq(V)
    BY <2>1
  <2>4. \A d : Leads(d, <<l>>, d)
    BY <2>1, SkipLeads
  <2> QED
    BY <2>2, <2>3, <2>4, LeadsNone
<1>4. PICK d : Leads(c, ends, d) /\ Stacked(d, b, body, W \ I)
  <2>1. I \subseteq W /\ IsFiniteSet(I) /\ n \in Nat /\ Cardinality(I) = n
        /\ \A i \in I : body[i].dest = at /\ \A w \in W \ I : w < i
    OBVIOUS
  <2> HIDE DEF I, n, at
  <2> QED
    BY <2>1, EndsLead
<1>5. Leads(d, label, d)
  BY <1>3
<1> HIDE DEF ends, label, V, I
<1>6. Leads(c, ends \o label, d)
  BY <1>2, <1>3, <1>4, <1>5, LeadsJoined
<1> QED
  BY <1>1, <1>4, <1>6 DEF I

\* What an instruction prints that is no if, and what an if prints.
LEMMA OthersPrint ==
  ASSUME NEW body, NEW k, ~IsCond(body[k])
  PROVE  InstLines(body, k) = <<>> \/ \E l : Skips(l) /\ InstLines(body, k) = <<l>>
<1> DEFINE inst == body[k]
           at == inst.address
           goto == [Line("goto", at) EXCEPT !.dest = inst.dest]
           statement == Line("statement", at)
           request == [Line("request", at) EXCEPT
                         !.text = <<entityFunctions[inst.to].name,
                                    entityFunctions[inst.to].funcs[inst.val]>>]
<1>1. Skips(goto) /\ Skips(statement) /\ Skips(request)
  BY DEF Line, Skips
<1>2. Request(inst) \in {<<request>>, <<statement>>}
  BY DEF Request
<1>3. InstLines(body, k) \in {<<goto>>, <<>>, Request(inst), <<statement>>}
  BY DEF InstLines
<1> HIDE DEF goto, statement, request, inst
<1>4. CASE InstLines(body, k) = <<goto>>
  BY <1>1, <1>4
<1>5. CASE InstLines(body, k) = <<statement>>
  BY <1>1, <1>5
<1>6. CASE InstLines(body, k) = <<request>>
  BY <1>1, <1>6
<1> QED
  BY <1>2, <1>3, <1>4, <1>5, <1>6

LEMMA IfPrints ==
  ASSUME NEW body, NEW k, IsCond(body[k])
  PROVE  InstLines(body, k)
           = <<IfLine(body[k])>> \o (IF k = Len(body) THEN <<Line("end", body[k].address)>> ELSE <<>>)
<1> DEFINE op == body[k].op
<1>1. op \in CondJumpOpcodes /\ ~IsUncond(body[k]) /\ op # "NOP" /\ op \notin Requests
  BY DEF IsCond, IsUncond, CondJumpOpcodes, UncondJumpOpcodes, Requests
<1> QED
  BY <1>1 DEF InstLines, IfLine

LEMMA InstsLead ==
  ASSUME NEW b, IsSequence(b), NEW body, NEW k \in Nat, NEW d, NEW W, Stacked(d, b, body, W),
         W \subseteq Nat, \A w \in W : w < k
  PROVE  \E e : /\ Leads(d, InstLines(body, k), e)
                /\ Stacked(e, b, body, IF IsCond(body[k]) /\ k # Len(body) THEN W \cup {k} ELSE W)
<1>1. CASE ~IsCond(body[k])
  <2>1. Leads(d, InstLines(body, k), d)
    BY <1>1, OthersPrint, LeadsNone, SkipLeads
  <2> QED
    BY <1>1, <2>1
<1>2. CASE IsCond(body[k])
  <2> DEFINE l == IfLine(body[k])
             r == Line("end", body[k].address)
             f == Append(d, l)
             X == W \cup {k}
  <2>1. Stacked(f, b, body, X)
    BY StackedPushed
  <2>2. Bracket(d, l) = f
    <3>1. l.kind = "if"
      BY DEF IfLine, Line
    <3> HIDE DEF l
    <3> QED
      BY <3>1 DEF Bracket
  <2>3. Leads(d, <<l>>, f)
    BY <2>2, LeadsOne
  <2>4. X \subseteq Nat /\ k \in X /\ (\A w \in X : w <= k) /\ X \ {k} = W
    OBVIOUS
  <2> HIDE DEF f, X
  <2>5. f # <<>> /\ Last(f) = l /\ Stacked(Front(f), b, body, W)
    BY <2>1, <2>4, StackedPopped
  <2>6. Bracket(f, r) = Front(f)
    BY <2>5, IfCloses
  <2>7. Leads(f, <<r>>, Front(f))
    BY <2>6, LeadsOne
  <2>8. InstLines(body, k) = <<l>> \o (IF k = Len(body) THEN <<r>> ELSE <<>>)
    BY <1>2, IfPrints
  <2> HIDE DEF l, r
  <2>9. CASE k = Len(body)
    <3> DEFINE s == <<l>>
               t == <<r>>
    <3>1. s \in Seq({l, r}) /\ t \in Seq({l, r}) /\ InstLines(body, k) = s \o t
      BY <2>8, <2>9
    <3>2. Leads(d, s, f) /\ Leads(f, t, Front(f))
      BY <2>3, <2>7
    <3> HIDE DEF s, t
    <3>3. Leads(d, s \o t, Front(f))
      BY <3>1, <3>2, LeadsJoined
    <3> QED
      BY <2>5, <2>9, <3>1, <3>3
  <2>10. CASE k # Len(body)
    <3> DEFINE s == <<l>>
               t == <<>>
    <3>1. s \in Seq({l}) /\ t \in Seq({l})
      OBVIOUS
    <3>0. InstLines(body, k) = s \o t
      BY <2>8, <2>10, Zenon
    <3>2. Leads(d, s, f) /\ Leads(f, t, f)
      BY <2>3, LeadsNone
    <3> HIDE DEF s, t
    <3>3. Leads(d, s \o t, f)
      BY <3>1, <3>2, LeadsJoined
    <3> QED
      BY <1>2, <2>1, <2>10, <3>0, <3>3 DEF X
  <2> QED
    BY <2>9, <2>10
<1> QED
  BY <1>1, <1>2

Prints(f, body, n, V) ==
  \A k \in 1 .. n : /\ f[k] = LabelLines(body, k) \o InstLines(body, k)
                    /\ LabelLines(body, k) \in Seq(V) /\ InstLines(body, k) \in Seq(V)

\* The lines of a body leave open what was open before.
LEMMA BodyLeads ==
  ASSUME NEW b, IsSequence(b), NEW n \in Nat, NEW body, RisesTo(body, n), Nested(body),
         ExitsInside(body), NEW V, NEW f \in [1 .. n -> Seq(V)], Prints(f, body, n, V)
  PROVE  Leads(b, FlattenSeq(f), b)
<1> DEFINE part(k) == [i \in 1 .. k |-> f[i]]
           Goes(k) == \E c : Leads(b, FlattenSeq(part(k)), c)
                             /\ Stacked(c, b, body, OpenIfs(body, n, k))
           T == {k \in Nat : k <= n => Goes(k)}
<1>1. 0 \in T
  <2>1. part(0) = <<>>
    OBVIOUS
  <2>2. OpenIfs(body, n, 0) = {}
    BY DEF OpenIfs
  <2>3. Leads(b, FlattenSeq(part(0)), b)
    <3> HIDE DEF part
    <3> QED
      BY <2>1, FlattenNone, LeadsNone
  <2>4. Stacked(b, b, body, OpenIfs(body, n, 0))
    <3>1. Stacked(b, b, body, {})
      BY StackedNone
    <3> QED
      BY <2>2, <3>1, Zenon
  <2>5. Goes(0)
    BY <2>3, <2>4
  <2> HIDE DEF Goes
  <2> QED
    BY <2>5
<1>2. ASSUME NEW j \in T PROVE j + 1 \in T
  <2> DEFINE k == j + 1
  <2>0. j \in Nat /\ (j <= n => Goes(j))
    BY <1>2
  <2> SUFFICES ASSUME k <= n PROVE Goes(k)
    <3>1. k \in Nat
      BY <2>0
    <3> HIDE DEF Goes
    <3> QED
      BY <3>1
  <2> HIDE DEF T
  <2>1. Goes(j)
    <3>1. j <= n
      BY <2>0
    <3> HIDE DEF Goes
    <3> QED
      BY <2>0, <3>1
  <2>2. PICK c : Leads(b, FlattenSeq(part(j)), c) /\ Stacked(c, b, body, OpenIfs(body, n, j))
    BY <2>1
  <2> DEFINE W == OpenIfs(body, n, j)
             I == IfsTo(body, k)
  <2>3. /\ I \subseteq W /\ W \subseteq Nat /\ IsFiniteSet(I) /\ Cardinality(I) \in Nat
        /\ \A i \in I : body[i].dest = body[k].address /\ \A w \in W \ I : w < i
        /\ \A w \in W \ I : w < k
        /\ W \ I = {w \in 1 .. j : w # n /\ IsCond(body[w]) /\ body[k].address < body[w].dest}
    <3> HIDE DEF Goes
    <3>1. k = j + 1 /\ k <= n /\ j \in Nat /\ W = OpenIfs(body, n, j) /\ I = IfsTo(body, k)
      BY <2>0
    <3> HIDE DEF k, W, I, Goes, part
    <3>2. LastOpen(body, n, j, k, W, I)
      BY <3>1, IfsClosedInOrder
    <3> QED
      BY <3>2 DEF LastOpen
  <2>4. PICK d : Leads(c, LabelLines(body, k), d) /\ Stacked(d, b, body, W \ I)
    <3>1. Stacked(c, b, body, W)
      BY <2>2
    <3> HIDE DEF W, k
    <3> QED
      BY <2>3, <3>1, LabelsLead
  <2> DEFINE X == W \ I
             Y == IF IsCond(body[k]) /\ k # Len(body) THEN X \cup {k} ELSE X
  <2>5. PICK e : Leads(d, InstLines(body, k), e) /\ Stacked(e, b, body, Y)
    <3>1. Stacked(d, b, body, X) /\ X \subseteq Nat /\ (\A w \in X : w < k) /\ k \in Nat
      BY <2>0, <2>3, <2>4
    <3> HIDE DEF X, k
    <3> QED
      BY <3>1, InstsLead
  <2>6. Y = OpenIfs(body, n, k)
    <3>1. Len(body) = n /\ k \in 1 .. n /\ (IsCond(body[k]) => body[k].address < body[k].dest)
      BY <2>0 DEF RisesTo
    <3>2. X = {w \in 1 .. j : w # n /\ IsCond(body[w]) /\ body[k].address < body[w].dest}
      BY <2>3
    <3>3. \A w : w \in 1 .. k <=> w \in 1 .. j \/ w = k
      BY <2>0
    <3> HIDE DEF X, W, I, k, Goes
    <3> QED
      BY <3>1, <3>2, <3>3 DEF OpenIfs
  <2>7. FlattenSeq(part(k)) = FlattenSeq(part(j)) \o (LabelLines(body, k) \o InstLines(body, k))
        /\ FlattenSeq(part(j)) \in Seq(V)
    <3> DEFINE g == part(k)
    <3>1. g \in [1 .. j + 1 -> Seq(V)] /\ [i \in 1 .. j |-> g[i]] = part(j) /\ g[j + 1] = f[k]
          /\ part(j) \in [1 .. j -> Seq(V)]
      BY <2>0
    <3>2. f[k] = LabelLines(body, k) \o InstLines(body, k)
      <4>1. k \in 1 .. n
        BY <2>0
      <4> QED
        BY <4>1 DEF Prints
    <3> HIDE DEF g, part, Goes
    <3>3. FlattenSeq(g) = FlattenSeq([i \in 1 .. j |-> g[i]]) \o g[j + 1]
      BY <2>0, <3>1, FlattenAppend
    <3>4. FlattenSeq(part(j)) \in Seq(V)
      BY <2>0, <3>1, FlattenType
    <3> QED
      BY <3>1, <3>2, <3>3, <3>4 DEF g
  <2> DEFINE s == FlattenSeq(part(j))
             t == LabelLines(body, k)
             u == InstLines(body, k)
  <2>8. s \in Seq(V) /\ t \in Seq(V) /\ u \in Seq(V)
    <3>1. k \in 1 .. n
      BY <2>0
    <3> QED
      BY <2>7, <3>1 DEF Prints
  <2>9. Leads(b, s, c) /\ Leads(c, t, d) /\ Leads(d, u, e)
    BY <2>2, <2>4, <2>5
  <2> HIDE DEF s, t, u
  <2>10. Leads(c, t \o u, e) /\ t \o u \in Seq(V)
    BY <2>8, <2>9, LeadsJoined, ConcatProperties
  <2> DEFINE v == t \o u
  <2>11. v \in Seq(V) /\ Leads(c, v, e)
    BY <2>10
  <2> HIDE DEF v
  <2>12. Leads(b, s \o v, e)
    BY <2>8, <2>9, <2>11, LeadsJoined
  <2>13. FlattenSeq(part(k)) = s \o v
    BY <2>7 DEF s, v, t, u
  <2> HIDE DEF part
  <2> QED
    BY <2>5, <2>6, <2>12, <2>13
<1>3. T = Nat
  <2>1. T \subseteq Nat
    OBVIOUS
  <2> HIDE DEF T
  <2> QED
    BY <1>1, <1>2, <2>1, InductionOnNat
<1>4. PICK c : Leads(b, FlattenSeq(part(n)), c) /\ Stacked(c, b, body, OpenIfs(body, n, n))
  <2>1. n \in T /\ n <= n
    BY <1>3
  <2>2. Goes(n)
    <3> HIDE DEF Goes
    <3> QED
      BY <2>1
  <2> QED
    BY <2>2
<1>5. part(n) = f
  OBVIOUS
<1>6. OpenIfs(body, n, n) = {}
  <2> SUFFICES ASSUME NEW w \in 1 .. n, w # n, IsCond(body[w]), body[n].address < body[w].dest
               PROVE  FALSE
    BY DEF OpenIfs
  <2>1. w \in IfsOf(body) \ {Len(body)}
    BY DEF IfsOf, RisesTo
  <2>2. PICK x \in DOMAIN body : body[x].address = body[w].dest
    BY <2>1 DEF ExitsInside
  <2>3. x \in 1 .. n /\ n \in 1 .. n /\ body[x].address \in Nat /\ body[n].address \in Nat
    BY <2>2 DEF RisesTo
  <2>4. x = n \/ body[x].address < body[n].address
    <3>1. x = n \/ x < n
      BY <2>3
    <3> QED
      BY <2>3, <3>1 DEF RisesTo
  <2>5. body[n].address < body[x].address
    BY <2>2
  <2> HIDE DEF Goes, part
  <2> QED
    BY <2>3, <2>4, <2>5
<1>7. c = b
  <2>1. Stacked(c, b, body, {})
    BY <1>4, <1>6, Zenon
  <2> QED
    BY <2>1, StackedNone
<1> HIDE DEF part
<1> QED
  BY <1>4, <1>5, <1>7

----------------------------------------------------------------------------
(***************************************************************************)
(* Functions.  The lines of one open a class where it is marked as the     *)
(* first, and close the class where it is marked as the last.              *)
(***************************************************************************)
IfsForward ==
  \A i \in DOMAIN insts : IsCond(insts[i]) => /\ insts[i].dest \in Int
                                              /\ insts[i].address < insts[i].dest
ClassOpen(c) == \E l : l.kind = "class" /\ c = <<l>>

LEMMA BodyRises ==
  ASSUME FieldInv, Ordered, OrderInv, IfsForward, NEW a \in DOMAIN functions
  PROVE  RisesTo(Body(a), functions[a].num)
<1> DEFINE m == Before(a)
           n == functions[a].num
           body == Body(a)
<1>1. m \in Nat /\ n \in Nat
  BY DealtBefore DEF FieldInv, FunctionsCounted
<1>2. /\ m + n <= Len(insts) /\ Len(insts) \in Nat /\ DOMAIN insts = 1 .. Len(insts)
      /\ \A i \in DOMAIN insts : insts[i].address \in Nat
  BY InstsAre DEF OrderInv, FunctionsDealt, BodyIs
<1>3. \A i, j \in DOMAIN insts : i < j => insts[i].address < insts[j].address
  BY DEF OrderInv, InstsAscend
<1>4. DOMAIN body = 1 .. n /\ body \in Seq(ToSet(insts))
  BY BodyHolds
<1>5. Len(body) = n
  BY <1>1, <1>4
<1>6. body = SubSeq(insts, m + 1, m + n)
  BY DEF Body
<1> HIDE DEF m, n, body
<1>7. ASSUME NEW i \in 1 .. n PROVE m + i \in DOMAIN insts /\ body[i] = insts[m + i]
  <2> DEFINE p == m + 1
             q == m + n
             T == ToSet(insts)
  <2>1. \A k \in p .. q : k \in DOMAIN insts
    BY <1>1, <1>2
  <2>2. p \in Int /\ q \in Int /\ \A k \in p .. q : insts[k] \in T
    BY <1>1, <2>1 DEF ToSet
  <2>3. body = SubSeq(insts, p, q) /\ i \in 1 .. q - p + 1 /\ p + i - 1 = m + i /\ m + i \in p .. q
    BY <1>1, <1>6
  <2>4. m + i \in DOMAIN insts
    BY <2>1, <2>3
  <2> HIDE DEF p, q, T
  <2>5. \A k \in 1 .. q - p + 1 : SubSeq(insts, p, q)[k] = insts[p + k - 1]
    BY <2>2, SubSeqProperties
  <2> QED
    BY <2>3, <2>4, <2>5
<1>8. ASSUME NEW i \in 1 .. n
      PROVE  /\ body[i].address \in Nat
             /\ IsCond(body[i]) => body[i].dest \in Int /\ body[i].address < body[i].dest
  BY <1>2, <1>7 DEF IfsForward
<1>9. ASSUME NEW i \in 1 .. n, NEW j \in 1 .. n, i < j PROVE body[i].address < body[j].address
  <2>1. m + i < m + j
    BY <1>1, <1>9
  <2> QED
    BY <1>3, <1>7, <2>1
<1> QED
  BY <1>4, <1>5, <1>8, <1>9 DEF RisesTo, n, body

LEMMA PiecesPrint ==
  ASSUME FieldInv, Ordered, OrderInv, NEW a \in DOMAIN functions, NEW i \in 1 .. functions[a].num
  PROVE  LabelLines(Body(a), i) \in Seq(Printable) /\ InstLines(Body(a), i) \in Seq(Printable)
<1> DEFINE body == Body(a)
           n == functions[a].num
<1>1. /\ n \in Nat /\ DOMAIN body = 1 .. n /\ Len(body) = n
      /\ \A k \in 1 .. n : \E j \in DOMAIN insts : body[k] = insts[j]
  BY BodyHolds
<1> HIDE DEF body, n
<1>2. i \in 1 .. n
  BY DEF n
<1>3. PICK j \in DOMAIN insts : body[i] = insts[j]
  BY <1>1, <1>2
<1>4. LabelLines(body, i) \in Seq(Printable)
  BY <1>1, <1>2, <1>3, LabelsAre
<1>5. InstLines(body, i) \in Seq(Printable)
  BY <1>1, <1>2, <1>3, InstsPrint
<1> QED
  BY <1>4, <1>5 DEF body

LEMMA TakenBack ==
  ASSUME NEW s, IsSequence(s), NEW x
  PROVE  /\ IsSequence(Append(s, x)) /\ Append(s, x) # <<>>
         /\ Last(Append(s, x)) = x /\ Front(Append(s, x)) = s
<1> DEFINE t == Append(s, x)
           f == Front(t)
           n == Len(s)
<1>1. /\ IsSequence(t) /\ n \in Nat /\ Len(t) = n + 1 /\ DOMAIN s = 1 .. n
      /\ \A i \in 1 .. n : t[i] = s[i]
  BY Appended
<1>2. t[n + 1] = x
  <2>1. s \in Seq(ToSet(s))
    BY DEF IsSequence
  <2> QED
    BY <2>1
<1> HIDE DEF t, n, f
<1>3. IsSequence(f) /\ Len(f) = n /\ \A i \in 1 .. n : f[i] = t[i]
  BY <1>1, FrontSequence DEF f
<1> DEFINE U == ToSet(s) \cup ToSet(f)
<1>4. f \in Seq(U) /\ s \in Seq(U)
  BY <1>3 DEF IsSequence
<1> HIDE DEF U
<1>5. f = s
  BY <1>1, <1>3, <1>4, SeqEqual DEF n
<1>6. t # <<>> /\ Last(t) = x
  BY <1>1, <1>2 DEF Last
<1> QED
  BY <1>1, <1>5, <1>6 DEF t, f

LEMMA FunctionLeads ==
  ASSUME FieldInv, Ordered, OrderInv, IfsForward, NEW a \in DOMAIN functions,
         Nested(Body(a)), ExitsInside(Body(a)), NEW meta, meta = ParseMetaData(functions[a].metadata),
         NEW b, IF meta.isStart THEN b = <<>> ELSE ClassOpen(b)
  PROVE  \E c : /\ Leads(b, FunctionLines(a, Body(a)), c)
                /\ IF meta.isEnd THEN c = <<>> ELSE ClassOpen(c)
<1> DEFINE body == Body(a)
           n == functions[a].num
           f == [i \in DOMAIN body |-> LabelLines(body, i) \o InstLines(body, i)]
           lc == [Line("class", a) EXCEPT !.text = meta.name]
           lf == [Line("function", a) EXCEPT !.text = functions[a].name]
           le == Line("endfunction", a)
           lx == Line("endclass", a)
           A == IF meta.isStart THEN <<lc>> ELSE <<>>
           B == <<lf>>
           C == FlattenSeq(f)
           D == <<le>>
           E == IF meta.isEnd THEN <<lx>> ELSE <<>>
           V == Printable \cup {lc, lf, le, lx}
<1>1. FunctionLines(a, body) = A \o B \o C \o D \o E
  BY DEF FunctionLines
<1>2. /\ lc.kind = "class" /\ lf.kind = "function" /\ lf.at = a
      /\ le.kind = "endfunction" /\ le.at = a /\ lx.kind = "endclass"
  BY DEF Line
<1>3. lc \in V /\ lf \in V /\ le \in V /\ lx \in V
  OBVIOUS
<1>4. /\ n \in Nat /\ DOMAIN body = 1 .. n
      /\ \A i \in 1 .. n : LabelLines(body, i) \in Seq(Printable) /\ InstLines(body, i) \in Seq(Printable)
  BY BodyHolds, PiecesPrint
<1>5. f \in [1 .. n -> Seq(Printable)] /\ Prints(f, body, n, Printable)
  <2> HIDE DEF body, n
  <2>1. \A i \in 1 .. n : LabelLines(body, i) \o InstLines(body, i) \in Seq(Printable)
    BY <1>4, ConcatProperties
  <2> QED
    BY <1>4, <2>1 DEF Prints
<1>6. C \in Seq(Printable)
  <2> HIDE DEF f, n
  <2> QED
    BY <1>4, <1>5, FlattenType
<1>7. C \in Seq(V)
  <2> HIDE DEF C, lc, lf, le, lx
  <2> QED
    BY <1>6
<1> HIDE DEF C, lc, lf, le, lx, V
<1>8. A \in Seq(V) /\ B \in Seq(V) /\ D \in Seq(V) /\ E \in Seq(V)
  BY <1>3
<1>9. ASSUME NEW x, IsSequence(x) PROVE Leads(x, C, x)
  <2>1. RisesTo(body, n)
    BY BodyRises
  <2>2. Nested(body) /\ ExitsInside(body)
    OBVIOUS
  <2> HIDE DEF body, n, f
  <2> QED
    BY <1>4, <1>5, <1>9, <2>1, <2>2, BodyLeads DEF C
<1>10. PICK o : Leads(b, A, o) /\ ClassOpen(o)
  <2>1. CASE meta.isStart
    <3>1. Leads(b, <<lc>>, Bracket(b, lc))
      BY LeadsOne
    <3>2. Bracket(b, lc) = <<lc>>
      BY <1>2, <2>1 DEF Bracket
    <3> QED
      BY <1>2, <2>1, <3>1, <3>2 DEF ClassOpen
  <2>2. CASE ~meta.isStart
    BY <2>2, LeadsNone
  <2> QED
    BY <2>1, <2>2
<1>11. PICK k : k.kind = "class" /\ o = <<k>>
  BY <1>10 DEF ClassOpen
<1> DEFINE p == Append(o, lf)
<1>12. Leads(o, B, p)
  <2>1. Bracket(o, lf) = Append(o, lf)
    BY <1>2 DEF Bracket
  <2> QED
    BY <2>1, LeadsOne
<1>13. IsSequence(p) /\ p # <<>> /\ Last(p) = lf /\ Front(p) = o
  <2>1. IsSequence(o)
    BY <1>11 DEF IsSequence, ToSet
  <2> QED
    BY <2>1, TakenBack
<1> HIDE DEF p
<1>14. Leads(p, C, p)
  BY <1>9, <1>13
<1>15. Leads(p, D, o)
  <2>1. Closes(le, lf)
    BY <1>2 DEF Closes
  <2>2. Bracket(p, le) = Front(p)
    BY <1>2, <1>13, <2>1 DEF Bracket
  <2> QED
    BY <1>13, <2>2, LeadsOne
<1>16. PICK c : Leads(o, E, c) /\ IF meta.isEnd THEN c = <<>> ELSE ClassOpen(c)
  <2>1. CASE meta.isEnd
    <3>1. o # <<>> /\ Last(o) = k /\ Front(o) = <<>>
      BY <1>11 DEF Last, Front
    <3>2. Closes(lx, k)
      BY <1>2, <1>11 DEF Closes
    <3>3. Bracket(o, lx) = Front(o)
      BY <1>2, <3>1, <3>2 DEF Bracket
    <3> QED
      BY <2>1, <3>1, <3>3, LeadsOne
  <2>2. CASE ~meta.isEnd
    BY <1>10, <2>2, LeadsNone
  <2> QED
    BY <2>1, <2>2
<1> HIDE DEF A, B, D, E, body
<1>17. Leads(b, A \o B, p) /\ A \o B \in Seq(V)
  BY <1>8, <1>10, <1>12, LeadsJoined, ConcatProperties
<1>18. Leads(b, A \o B \o C, p) /\ A \o B \o C \in Seq(V)
  BY <1>7, <1>14, <1>17, LeadsJoined, ConcatProperties
<1>19. Leads(b, A \o B \o C \o D, o) /\ A \o B \o C \o D \in Seq(V)
  BY <1>8, <1>15, <1>18, LeadsJoined, ConcatProperties
<1>20. Leads(b, A \o B \o C \o D \o E, c)
  BY <1>8, <1>16, <1>19, LeadsJoined
<1> QED
  BY <1>1, <1>16, <1>20 DEF body

(***************************************************************************)
(* What stands in front of a name is read back whatever the name is.       *)
(***************************************************************************)
\* Joining starts like a text when the first parts of the text are not blank.
StartsLike(t, s, m, k) ==
  /\ m <= k => Len(t) = m
  /\ k <= m => k <= Len(t)
  /\ \A i \in 1 .. k : i <= m => t[i] = s[i]

LEMMA StartsOn ==
  ASSUME NEW V, NEW s \in Seq(V), NEW k \in Nat, k <= Len(s), \A i \in 1 .. k : s[i] # Blank,
         NEW m \in Nat, NEW n, n = m + 1, n <= Len(s), NEW t \in Seq(V), StartsLike(t, s, m, k),
         NEW c, c = (IF s[n] = Blank THEN <<>> ELSE <<s[n]>>), NEW u, u = t \o c
  PROVE  u \in Seq(V) /\ StartsLike(u, s, n, k)
<1>1. n \in 1 .. Len(s) /\ s[n] \in V /\ n \in Nat
  OBVIOUS
<1>2. c \in Seq(V) /\ Len(c) \in Nat /\ (n <= k => Len(c) = 1 /\ c[1] = s[n])
  <2>1. c \in Seq(V)
    BY <1>1
  <2>2. ASSUME n <= k PROVE Len(c) = 1 /\ c[1] = s[n]
    <3>1. s[n] # Blank
      BY <1>1, <2>2
    <3> QED
      BY <3>1
  <2> QED
    BY <2>1, <2>2
<1>3. /\ u \in Seq(V) /\ Len(u) = Len(t) + Len(c) /\ Len(t) \in Nat
      /\ \A i \in 1 .. Len(t) + Len(c) : u[i] = IF i <= Len(t) THEN t[i] ELSE c[i - Len(t)]
  BY <1>2, ConcatProperties
<1>4. CASE n <= k
  <2>1. Len(t) = m /\ Len(u) = n
    BY <1>2, <1>3, <1>4 DEF StartsLike
  <2>2. u[n] = s[n]
    <3>1. n \in 1 .. Len(t) + Len(c) /\ ~(n <= Len(t)) /\ n - Len(t) = 1
      BY <1>2, <1>4, <2>1
    <3> QED
      BY <1>2, <1>3, <1>4, <3>1
  <2>3. ASSUME NEW i \in 1 .. k, i <= m PROVE u[i] = s[i]
    <3>1. i \in 1 .. Len(t) + Len(c) /\ i <= Len(t)
      BY <1>2, <1>3, <2>1, <2>3
    <3> QED
      BY <1>3, <2>3, <3>1 DEF StartsLike
  <2>4. \A i \in 1 .. k : i <= n => i <= m \/ i = n
    OBVIOUS
  <2> QED
    BY <1>3, <2>1, <2>2, <2>3, <2>4 DEF StartsLike
<1>5. CASE ~(n <= k)
  <2>1. k <= m /\ k <= Len(t) /\ k <= Len(u)
    BY <1>2, <1>3, <1>5 DEF StartsLike
  <2>2. ASSUME NEW i \in 1 .. k PROVE u[i] = s[i]
    <3>1. i \in 1 .. Len(t) + Len(c) /\ i <= Len(t) /\ i <= m
      BY <1>2, <1>3, <2>1
    <3> QED
      BY <1>3, <3>1 DEF StartsLike
  <2> QED
    BY <1>1, <1>3, <1>5, <2>1, <2>2 DEF StartsLike
<1> QED
  BY <1>4, <1>5

LEMMA NonBlankStarts ==
  ASSUME NEW V, NEW s \in Seq(V), NEW k \in Nat, k <= Len(s), \A i \in 1 .. k : s[i] # Blank
  PROVE  /\ NonBlank(s) \in Seq(V) /\ k <= Len(NonBlank(s))
         /\ \A i \in 1 .. k : NonBlank(s)[i] = s[i]
<1> DEFINE n == Len(s)
           One(i) == IF s[i] = Blank THEN <<>> ELSE <<s[i]>>
           ones(m) == [i \in 1 .. m |-> One(i)]
           G(m) == FlattenSeq(ones(m))
           T == {m \in Nat : m <= n => G(m) \in Seq(V) /\ StartsLike(G(m), s, m, k)}
<1>1. n \in Nat /\ DOMAIN s = 1 .. n /\ \A i \in 1 .. n : s[i] \in V
  OBVIOUS
<1>2. 0 \in T
  <2>1. ones(0) = <<>>
    OBVIOUS
  <2>2. G(0) = <<>>
    BY <2>1, FlattenNone
  <2>3. \A i \in 1 .. k : ~(i <= 0)
    OBVIOUS
  <2>4. k <= 0 => k = 0
    OBVIOUS
  <2> DEFINE g == G(0)
  <2>5. g \in Seq(V) /\ Len(g) = 0
    <3>1. g = <<>>
      BY <2>2
    <3> HIDE DEF g
    <3> QED
      BY <3>1
  <2> HIDE DEF g
  <2>6. StartsLike(g, s, 0, k)
    BY <2>3, <2>4, <2>5 DEF StartsLike
  <2> QED
    BY <2>5, <2>6 DEF g
<1>3. ASSUME NEW m \in T PROVE m + 1 \in T
  <2> SUFFICES ASSUME m + 1 <= n PROVE G(m + 1) \in Seq(V) /\ StartsLike(G(m + 1), s, m + 1, k)
    OBVIOUS
  <2>1. m \in Nat /\ m <= n /\ G(m) \in Seq(V) /\ StartsLike(G(m), s, m, k)
    BY <1>1
  <2> DEFINE j == m + 1
             g == ones(j)
  <2>2. \A i \in 1 .. n : One(i) \in Seq(V)
    BY <1>1
  <2>3. g \in [1 .. m + 1 -> Seq(V)] /\ g[m + 1] = One(j) /\ [i \in 1 .. m |-> g[i]] = ones(m)
    <3>1. \A i \in 1 .. m + 1 : i \in 1 .. n
      BY <1>1, <2>1
    <3>2. m + 1 \in 1 .. m + 1 /\ \A i \in 1 .. m : i \in 1 .. m + 1
      BY <2>1
    <3> HIDE DEF One
    <3> QED
      BY <2>2, <3>1, <3>2
  <2> HIDE DEF One, ones, T
  <2>4. G(j) = G(m) \o One(j)
    <3>1. FlattenSeq(g) = FlattenSeq([i \in 1 .. m |-> g[i]]) \o g[m + 1]
      <4> HIDE DEF g
      <4> QED
        BY <2>1, <2>3, FlattenAppend
    <3> QED
      BY <2>3, <3>1
  <2>5. j <= Len(s)
    OBVIOUS
  <2> DEFINE t == G(m)
             u == G(j)
             c == One(j)
  <2>6. u = t \o c /\ c = (IF s[j] = Blank THEN <<>> ELSE <<s[j]>>)
    BY <2>4 DEF One
  <2>7. t \in Seq(V) /\ StartsLike(t, s, m, k)
    BY <2>1
  <2>8. j = m + 1
    OBVIOUS
  <2> HIDE DEF t, u, c, G, j
  <2>9. u \in Seq(V) /\ StartsLike(u, s, j, k)
    BY <2>1, <2>5, <2>6, <2>7, <2>8, StartsOn
  <2> QED
    BY <2>9 DEF u, j
<1>4. T = Nat
  <2>1. T \subseteq Nat
    OBVIOUS
  <2> HIDE DEF T
  <2> QED
    BY <1>2, <1>3, <2>1, InductionOnNat
<1>5. G(n) \in Seq(V) /\ StartsLike(G(n), s, n, k)
  <2>1. n \in T
    BY <1>1, <1>4
  <2>2. n <= n
    BY <1>1
  <2> HIDE DEF G
  <2> QED
    BY <2>1, <2>2
<1>6. NonBlank(s) = G(n)
  BY <1>1 DEF NonBlank
<1> HIDE DEF G
<1>7. \A i \in 1 .. k : i <= n
  BY <1>1
<1> QED
  BY <1>1, <1>5, <1>6, <1>7 DEF StartsLike

LEMMA TokensStart ==
  ASSUME NEW V, NEW s \in Seq(V), NEW k \in Nat, k < Len(s), \A i \in 1 .. k : s[i] # Blank
  PROVE  k < Len(Tokens(s)) /\ \A i \in 1 .. k : Tokens(s)[i] = s[i]
<1> DEFINE m == Len(s) - 1
           a == Front(s)
           b == NonBlank(a)
           c == <<Last(s)>>
           t == Tokens(s)
<1>1. m \in Nat /\ Len(s) = m + 1 /\ m + 1 \in 1 .. Len(s) /\ k <= m
  OBVIOUS
<1>2. a \in Seq(V) /\ Len(a) = m /\ \A i \in 1 .. m : a[i] = s[i]
  <2> HIDE DEF m
  <2> QED
    BY <1>1, FrontIs
<1>3. c \in Seq(V) /\ Len(c) = 1
  BY <1>1 DEF Last
<1>4. \A i \in 1 .. k : i \in 1 .. m
  BY <1>1
<1> HIDE DEF m, a, c
<1>5. b \in Seq(V) /\ k <= Len(b) /\ \A i \in 1 .. k : b[i] = s[i]
  <2>1. \A i \in 1 .. k : a[i] # Blank
    BY <1>2, <1>4
  <2>2. /\ NonBlank(a) \in Seq(V) /\ k <= Len(NonBlank(a))
        /\ \A i \in 1 .. k : NonBlank(a)[i] = a[i]
    BY <1>1, <1>2, <2>1, NonBlankStarts
  <2> QED
    BY <1>2, <1>4, <2>2
<1>6. t = b \o c
  BY DEF Tokens, a, c
<1> HIDE DEF b, t
<1>7. /\ t \in Seq(V) /\ Len(t) = Len(b) + Len(c) /\ Len(b) \in Nat
      /\ \A i \in 1 .. Len(b) + Len(c) : t[i] = IF i <= Len(b) THEN b[i] ELSE c[i - Len(b)]
  <2>1. b \in Seq(V) /\ c \in Seq(V)
    BY <1>3, <1>5
  <2> QED
    BY <1>6, <2>1, ConcatProperties
<1>8. k < Len(t)
  BY <1>3, <1>5, <1>7
<1>9. ASSUME NEW i \in 1 .. k PROVE t[i] = s[i]
  <2>1. i \in 1 .. Len(b) + Len(c) /\ i <= Len(b)
    BY <1>3, <1>5, <1>7
  <2> QED
    BY <1>5, <1>7, <2>1
<1> QED
  BY <1>8, <1>9 DEF t

\* What Parse finds of a function.
MadeWith(meta, isStart, isEnd, id) ==
  /\ IF isStart THEN meta.isStart ELSE ~meta.isStart
  /\ IF isEnd THEN meta.isEnd ELSE ~meta.isEnd
  /\ meta.id = id

LEMMA MetaRead ==
  ASSUME NEW isStart, NEW isEnd, NEW id, IsId(id), NEW name, IsSequence(name), Len(name) # 0,
         NEW meta, meta = MetaData(isStart, isEnd, id, name)
  PROVE  MadeWith(ParseMetaData(meta), isStart, isEnd, id)
<1> DEFINE U == ToSet(name) \cup {"start", "end", id}
           p == Marks(isStart, isEnd, id)
           n == Len(name)
           t == Tokens(meta)
<1>1. name \in Seq(U) /\ n \in Nat /\ n # 0
  BY DEF IsSequence
<1>2. "start" \in U /\ "end" \in U /\ id \in U
  OBVIOUS
<1> HIDE DEF U
<1>3. PICK k \in {1, 2, 3} :
        /\ p \in Seq(U) /\ Len(p) = k /\ (\A i \in 1 .. k : p[i] # Blank) /\ p[k] = id
        /\ StartAt(p) <= k /\ IdAt(p) = k
        /\ IF isStart THEN p[1] = "start" ELSE p[1] # "start"
        /\ IF isEnd THEN p[StartAt(p)] = "end" ELSE p[StartAt(p)] # "end"
  BY <1>2, MarksAre
<1>4. meta = p \o name
  BY DEF MetaData, Marks
<1> HIDE DEF p, n
<1>5. /\ meta \in Seq(U) /\ Len(meta) = k + n
      /\ \A i \in 1 .. k + n : meta[i] = IF i <= k THEN p[i] ELSE name[i - k]
  BY <1>1, <1>3, <1>4, ConcatProperties DEF n
<1>6. \A i \in 1 .. k : meta[i] = p[i]
  <2>1. \A i \in 1 .. k : i \in 1 .. k + n /\ i <= k
    BY <1>1
  <2> QED
    BY <1>5, <2>1
<1>7. \A i \in 1 .. k : t[i] = p[i]
  <2>1. k < Len(meta) /\ k \in Nat
    BY <1>1, <1>5
  <2>2. \A i \in 1 .. k : meta[i] # Blank
    BY <1>3, <1>6
  <2>3. \A i \in 1 .. k : Tokens(meta)[i] = meta[i]
    BY <1>5, <2>1, <2>2, TokensStart
  <2> QED
    BY <1>6, <2>3
<1> HIDE DEF t
<1>8. 1 \in 1 .. k /\ k \in 1 .. k /\ StartAt(p) \in 1 .. k
  BY <1>3 DEF StartAt
<1>9. StartAt(t) = StartAt(p)
  BY <1>7, <1>8 DEF StartAt
<1>10. IdAt(t) = k /\ t[k] = id
  BY <1>3, <1>7, <1>8, <1>9 DEF IdAt
<1>11. /\ ParseMetaData(meta).isStart <=> t[1] = "start"
       /\ ParseMetaData(meta).isEnd <=> t[StartAt(t)] = "end"
       /\ ParseMetaData(meta).id = t[IdAt(t)]
  BY DEF ParseMetaData, StartAt, IdAt, t
<1>12. t[1] = p[1] /\ t[StartAt(t)] = p[StartAt(p)]
  BY <1>7, <1>8, <1>9
<1> QED
  BY <1>3, <1>10, <1>11, <1>12 DEF MadeWith

----------------------------------------------------------------------------
(***************************************************************************)
(* Classes.  The functions in the order of their addresses open and close  *)
(* the classes in turns: the first script of an entity that is read opens  *)
(* one, and its last function closes it.                                   *)
(***************************************************************************)
\* The last of some functions leaves its class open.
Unclosed(f, S) == \E a \in S : (\A b \in S : b <= a) /\ ~Meta(f, a).isEnd
ClassUnclosed == Unclosed(functions, DOMAIN functions)
Linked(f) ==
  \A b \in DOMAIN f :
    IF Meta(f, b).isStart THEN ~Unclosed(f, {a \in DOMAIN f : a < b})
    ELSE Unclosed(f, {a \in DOMAIN f : a < b})

FrameMarked ==
  Reading => /\ IF frame.isStart THEN ~ClassUnclosed ELSE ClassUnclosed
             /\ IF frame.isEnd THEN scriptInfo = {} ELSE scriptInfo # {}
ReadFirst(r) == \A q \in scriptInfo : r.index <= q.index
ReadLast(r) == \A q \in scriptInfo : q.index <= r.index
ScriptsMarked ==
  \A r \in scriptInfo :
    /\ IF r.isStart THEN ~Reading /\ ~ClassUnclosed /\ ReadFirst(r)
       ELSE Reading \/ ClassUnclosed \/ ~ReadFirst(r)
    /\ IF r.isEnd THEN ReadLast(r) ELSE ~ReadLast(r)
ClassesIdle == ~Reading /\ scriptInfo = {} => ~ClassUnclosed

ClassInv ==
  /\ IdsRead(functions) /\ IfsForward
  /\ Ordered => Linked(functions) /\ FrameMarked /\ ScriptsMarked /\ ClassesIdle

LEMMA GreatestThere ==
  ASSUME NEW n \in Nat, NEW T, T \subseteq 0 .. n, T # {}
  PROVE  Max(T) \in T /\ \A m \in T : m <= Max(T)
<1> DEFINE D == {d \in 0 .. n : n - d \in T}
           k == Min(D)
<1>1. D \subseteq Nat /\ D # {}
  <2>1. PICK m \in T : TRUE
    OBVIOUS
  <2>2. m \in 0 .. n /\ n - m \in 0 .. n /\ n - (n - m) = m
    BY <2>1
  <2> QED
    BY <2>2
<1>2. k \in D /\ \A d \in D : k <= d
  <2> HIDE DEF D
  <2> QED
    BY <1>1, LeastOf
<1>3. \A m \in T : m \in 0 .. n /\ n - m \in 0 .. n /\ n - (n - m) = m
  OBVIOUS
<1>4. \A m \in T : n - m \in D
  BY <1>3
<1>5. k \in 0 .. n /\ n - k \in T
  BY <1>2
<1> HIDE DEF D, k
<1>6. \A m \in T : m <= n - k
  BY <1>2, <1>3, <1>4, <1>5
<1>7. T \subseteq Nat
  OBVIOUS
<1>8. Max(T) = n - k
  BY <1>5, <1>6, <1>7, GreatestIs
<1> QED
  BY <1>5, <1>6, <1>8

\* The first and the last script that is read of an entity carry the marks.
LEMMA ScriptMarks ==
  ASSUME NEW e, NEW r \in ScriptInfos(e)
  PROVE  /\ IF r.isStart THEN \A q \in ScriptInfos(e) : r.index <= q.index
            ELSE ~\A q \in ScriptInfos(e) : r.index <= q.index
         /\ IF r.isEnd THEN \A q \in ScriptInfos(e) : q.index <= r.index
            ELSE ~\A q \in ScriptInfos(e) : q.index <= r.index
<1> DEFINE entry == header.scripts[e]
           First(s) == \A t \in 1 .. s - 1 : entry[t] # entry[s]
           kept == {s \in 1 .. ScriptsPerEntity : First(s) /\ EndOfScript(e, s) # entry[s]}
           info(s) == [index |-> s - 1, entry |-> entry[s], next |-> EndOfScript(e, s),
                       isStart |-> s = Min(kept), isEnd |-> s = Max(kept)]
           n == ScriptsPerEntity
<1>1. ScriptInfos(e) = {info(s) : s \in kept}
  BY DEF ScriptInfos
<1>2. kept \subseteq 0 .. n /\ n \in Nat /\ kept \subseteq Nat
  BY FieldAssumption
<1>3. \A s : /\ info(s).index = s - 1
             /\ info(s).isStart <=> s = Min(kept)
             /\ info(s).isEnd <=> s = Max(kept)
  <2> HIDE DEF kept, entry
  <2> QED
    OBVIOUS
<1> HIDE DEF info, kept, n
<1>4. PICK s \in kept : r = info(s)
  BY <1>1
<1>5. kept # {}
  BY <1>4
<1>6. Min(kept) \in kept /\ \A m \in kept : Min(kept) <= m
  BY <1>2, <1>5, LeastOf
<1>7. Max(kept) \in kept /\ \A m \in kept : m <= Max(kept)
  BY <1>2, <1>5, GreatestThere
<1>8. /\ info(Min(kept)) \in ScriptInfos(e) /\ info(Min(kept)).index = Min(kept) - 1
      /\ info(Max(kept)) \in ScriptInfos(e) /\ info(Max(kept)).index = Max(kept) - 1
      /\ r.index = s - 1
  BY <1>1, <1>3, <1>4, <1>6, <1>7
<1>9. \A q \in ScriptInfos(e) : \E m \in kept : q.index = m - 1
  BY <1>1, <1>3
<1> DEFINE least == Min(kept)
           most == Max(kept)
<1>10. least \in Nat /\ most \in Nat /\ s \in Nat /\ \A m \in kept : m \in Nat
  BY <1>2, <1>4, <1>6, <1>7
<1>11. /\ r.isStart <=> s = least
       /\ r.isEnd <=> s = most
  BY <1>3, <1>4
<1>12. ASSUME s = least, NEW q \in ScriptInfos(e) PROVE r.index <= q.index
  BY <1>6, <1>8, <1>9, <1>10, <1>12
<1>13. ASSUME s # least PROVE \E q \in ScriptInfos(e) : ~(r.index <= q.index)
  BY <1>4, <1>6, <1>8, <1>10, <1>13
<1>14. ASSUME s = most, NEW q \in ScriptInfos(e) PROVE q.index <= r.index
  BY <1>7, <1>8, <1>9, <1>10, <1>14
<1>15. ASSUME s # most PROVE \E q \in ScriptInfos(e) : ~(q.index <= r.index)
  BY <1>4, <1>7, <1>8, <1>10, <1>15
<1> HIDE DEF least, most
<1>16. IF r.isStart THEN \A q \in ScriptInfos(e) : r.index <= q.index
       ELSE ~\A q \in ScriptInfos(e) : r.index <= q.index
  BY <1>11, <1>12, <1>13
<1>17. IF r.isEnd THEN \A q \in ScriptInfos(e) : q.index <= r.index
       ELSE ~\A q \in ScriptInfos(e) : q.index <= r.index
  BY <1>11, <1>14, <1>15
<1> QED
  BY <1>16, <1>17

LEMMA ClassesKept ==
  ASSUME ClassInv, UNCHANGED <<header, frame, scriptInfo, insts, functions>>, Reading' = Reading
  PROVE  ClassInv'
<1>1. /\ (Ordered' <=> Ordered) /\ (ClassUnclosed' <=> ClassUnclosed)
      /\ IdsRead(functions)' = IdsRead(functions) /\ Linked(functions)' = Linked(functions)
  BY OrderedKept DEF ClassUnclosed
<1>2. IfsForward' <=> IfsForward
  BY DEF IfsForward
<1>3. \A r : /\ ReadFirst(r)' <=> ReadFirst(r)
             /\ ReadLast(r)' <=> ReadLast(r)
  BY DEF ReadFirst, ReadLast
<1>4. /\ FrameMarked' <=> FrameMarked
      /\ ClassesIdle' <=> ClassesIdle
  BY <1>1 DEF FrameMarked, ClassesIdle
<1>5. ScriptsMarked' <=> ScriptsMarked
  BY <1>1, <1>3 DEF ScriptsMarked
<1> QED
  BY <1>1, <1>2, <1>4, <1>5 DEF ClassInv

LEMMA ClassInit == CodeInit => ClassInv
<1> SUFFICES ASSUME CodeInit PROVE ClassInv
  OBVIOUS
<1>1. phase = "scripts" /\ scriptInfo = {} /\ insts = <<>> /\ functions = <<>>
  BY DEF CodeInit, FieldInit
<1>2. DOMAIN insts = {} /\ DOMAIN functions = {} /\ ~Reading
  BY <1>1 DEF Reading
<1>3. ~ClassUnclosed
  BY <1>2 DEF ClassUnclosed, Unclosed
<1> QED
  BY <1>1, <1>2, <1>3
     DEF ClassInv, IdsRead, IfsForward, Linked, FrameMarked, ScriptsMarked, ClassesIdle

LEMMA NextEntityClasses == FieldInv /\ ClassInv /\ NextEntity => ClassInv'
<1> SUFFICES ASSUME FieldInv, ClassInv, NextEntity PROVE ClassInv'
  OBVIOUS
<1>1. ~Reading /\ ~Reading' /\ UNCHANGED <<header, frame, insts, functions>> /\ scriptInfo = {}
  BY DEF NextEntity, Reading
<1>2. CASE entity < Len(header.scripts)
  <2>1. scriptInfo' = ScriptInfos(entity + 1)
    BY <1>2 DEF NextEntity
  <2>2. /\ (Ordered' <=> Ordered) /\ (ClassUnclosed' <=> ClassUnclosed)
        /\ IdsRead(functions)' = IdsRead(functions) /\ Linked(functions)' = Linked(functions)
        /\ IfsForward' <=> IfsForward
    BY <1>1, OrderedKept DEF ClassUnclosed, IfsForward
  <2>3. ASSUME Ordered PROVE ~ClassUnclosed
    BY <1>1, <2>3 DEF ClassInv, ClassesIdle
  <2>4. ASSUME Ordered, NEW r \in scriptInfo'
        PROVE  /\ IF r.isStart THEN ~Reading' /\ ~ClassUnclosed' /\ ReadFirst(r)'
                  ELSE Reading' \/ ClassUnclosed' \/ ~ReadFirst(r)'
               /\ IF r.isEnd THEN ReadLast(r)' ELSE ~ReadLast(r)'
    <3>1. /\ IF r.isStart THEN \A q \in scriptInfo' : r.index <= q.index
             ELSE ~\A q \in scriptInfo' : r.index <= q.index
          /\ IF r.isEnd THEN \A q \in scriptInfo' : q.index <= r.index
             ELSE ~\A q \in scriptInfo' : q.index <= r.index
      BY <2>1, <2>4, ScriptMarks
    <3>2. /\ ReadFirst(r)' <=> \A q \in scriptInfo' : r.index <= q.index
          /\ ReadLast(r)' <=> \A q \in scriptInfo' : q.index <= r.index
      BY DEF ReadFirst, ReadLast
    <3> QED
      BY <1>1, <2>2, <2>3, <2>4, <3>1, <3>2
  <2>5. Ordered => ScriptsMarked'
    BY <2>4 DEF ScriptsMarked
  <2>6. Ordered => FrameMarked' /\ ClassesIdle'
    BY <1>1, <2>2, <2>3 DEF FrameMarked, ClassesIdle
  <2> QED
    BY <2>2, <2>5, <2>6 DEF ClassInv
<1>3. CASE ~(entity < Len(header.scripts))
  <2>1. UNCHANGED scriptInfo
    BY <1>3 DEF NextEntity
  <2>2. Reading' = Reading
    BY DEF NextEntity, Reading
  <2> QED
    BY <1>1, <2>1, <2>2, ClassesKept
<1> QED
  BY <1>2, <1>3

LEMMA StartScriptClasses == FieldInv /\ OrderInv /\ ClassInv /\ StartScript => ClassInv'
<1> SUFFICES ASSUME FieldInv, OrderInv, ClassInv, StartScript PROVE ClassInv'
  OBVIOUS
<1> DEFINE s == NextScript
<1>1. ~Reading /\ Reading' /\ UNCHANGED <<header, insts, functions>> /\ scriptInfo' = scriptInfo \ {s}
  BY DEF StartScript, Reading
<1>2. s \in scriptInfo /\ \A r \in scriptInfo : s.index <= r.index /\ r.index \in Nat
  BY NextScriptIs DEF StartScript, FieldInv, ScriptsPlaced
<1>3. frame'.isStart = s.isStart /\ frame'.isEnd = s.isEnd
  <2>1. frame' = Frame(s.index, s.next + kSectionPointersSize, s.isStart, s.isEnd,
                       FunctionName(s.index), s.index = 0, s.entry + kSectionPointersSize)
    BY DEF StartScript
  <2> HIDE DEF s
  <2> QED
    BY <2>1 DEF Frame
<1> HIDE DEF s
<1>4. /\ (Ordered' <=> Ordered) /\ (ClassUnclosed' <=> ClassUnclosed)
      /\ IdsRead(functions)' = IdsRead(functions) /\ Linked(functions)' = Linked(functions)
      /\ IfsForward' <=> IfsForward
  BY <1>1, OrderedKept DEF ClassUnclosed, IfsForward
<1>5. ASSUME Ordered PROVE FrameMarked' /\ ScriptsMarked' /\ ClassesIdle'
  <2>1. /\ ScriptsMarked /\ ClassesIdle
        /\ \A q, r \in scriptInfo : q # r => q.index # r.index
    BY <1>5 DEF ClassInv, OrderInv, ScriptsAhead
  <2>2. /\ IF s.isStart THEN ~ClassUnclosed ELSE ClassUnclosed
        /\ IF s.isEnd THEN ReadLast(s) ELSE ~ReadLast(s)
    BY <1>1, <1>2, <2>1 DEF ScriptsMarked, ReadFirst
  <2>3. ReadLast(s) <=> scriptInfo' = {}
    <3>1. ASSUME NEW r \in scriptInfo, r # s PROVE ~(r.index <= s.index)
      <4>1. s.index <= r.index /\ s.index # r.index /\ s.index \in Nat /\ r.index \in Nat
        BY <1>2, <2>1, <3>1
      <4> QED
        BY <4>1
    <3>2. s.index <= s.index
      BY <1>2
    <3> QED
      BY <1>1, <1>2, <3>1, <3>2 DEF ReadLast
  <2>4. FrameMarked'
    BY <1>3, <1>4, <2>2, <2>3 DEF FrameMarked
  <2>5. ClassesIdle'
    BY <1>1 DEF ClassesIdle
  <2>6. ASSUME NEW r \in scriptInfo'
        PROVE  /\ IF r.isStart THEN ~Reading' /\ ~ClassUnclosed' /\ ReadFirst(r)'
                  ELSE Reading' \/ ClassUnclosed' \/ ~ReadFirst(r)'
               /\ IF r.isEnd THEN ReadLast(r)' ELSE ~ReadLast(r)'
    <3>1. r \in scriptInfo /\ r # s /\ scriptInfo' \subseteq scriptInfo
      BY <1>1, <2>6
    <3>2. s.index < r.index /\ s.index \in Nat /\ r.index \in Nat
      BY <1>2, <2>1, <3>1
    <3>3. ~ReadFirst(r)
      BY <1>2, <3>2 DEF ReadFirst
    <3>4. ~r.isStart
      BY <2>1, <3>1, <3>3 DEF ScriptsMarked
    <3>5. ReadLast(r)' <=> ReadLast(r)
      <4>1. s.index <= r.index
        BY <3>2
      <4> QED
        BY <1>1, <4>1 DEF ReadLast
    <3>6. IF r.isEnd THEN ReadLast(r) ELSE ~ReadLast(r)
      BY <2>1, <3>1 DEF ScriptsMarked
    <3> QED
      BY <1>1, <3>4, <3>5, <3>6
  <2>7. ScriptsMarked'
    BY <2>6 DEF ScriptsMarked
  <2> QED
    BY <2>4, <2>5, <2>7
<1> QED
  BY <1>4, <1>5 DEF ClassInv

LEMMA ReadInstructionClasses == FieldInv /\ ClassInv /\ ReadInstruction => ClassInv'
<1> SUFFICES ASSUME FieldInv, ClassInv, ReadInstruction PROVE ClassInv'
  OBVIOUS
<1>1. UNCHANGED <<header, frame, scriptInfo, functions>> /\ Reading /\ Reading'
  BY ReadIs DEF ReadInstruction
<1>2. PICK inst : /\ insts' = Append(insts, inst) /\ inst.address = position
                  /\ inst.op \in CondJumpOpcodes => inst.dest \in Int /\ position < inst.dest
  BY ReadIs
<1>3. /\ DOMAIN insts' = 1 .. Len(insts) + 1 /\ DOMAIN insts = 1 .. Len(insts) /\ Len(insts) \in Nat
      /\ \A i \in DOMAIN insts : insts'[i] = insts[i]
      /\ insts'[Len(insts) + 1] = inst
  <2>1. IsSequence(insts)
    BY DEF FieldInv, InstsPlaced
  <2> QED
    BY <1>2, <2>1, Appended
<1>4. ASSUME NEW i \in DOMAIN insts', IsCond(insts'[i])
      PROVE  insts'[i].dest \in Int /\ insts'[i].address < insts'[i].dest
  <2>1. i \in DOMAIN insts \/ i = Len(insts) + 1
    BY <1>3
  <2>2. CASE i \in DOMAIN insts
    BY <1>3, <1>4, <2>2 DEF ClassInv, IfsForward
  <2>3. CASE i = Len(insts) + 1
    BY <1>2, <1>3, <1>4, <2>3 DEF IsCond
  <2> QED
    BY <2>1, <2>2, <2>3
<1>5. IfsForward'
  BY <1>4 DEF IfsForward
<1>6. /\ (Ordered' <=> Ordered) /\ (ClassUnclosed' <=> ClassUnclosed)
      /\ IdsRead(functions)' = IdsRead(functions) /\ Linked(functions)' = Linked(functions)
  BY <1>1, OrderedKept DEF ClassUnclosed
<1>7. \A r : /\ ReadFirst(r)' <=> ReadFirst(r)
             /\ ReadLast(r)' <=> ReadLast(r)
  BY <1>1 DEF ReadFirst, ReadLast
<1>8. /\ FrameMarked' <=> FrameMarked
      /\ ClassesIdle' <=> ClassesIdle
  BY <1>1, <1>6 DEF FrameMarked, ClassesIdle
<1>9. ScriptsMarked' <=> ScriptsMarked
  BY <1>1, <1>6, <1>7 DEF ScriptsMarked
<1> QED
  BY <1>5, <1>6, <1>8, <1>9 DEF ClassInv

LEMMA UnclosedSame ==
  ASSUME NEW f, NEW g, NEW S, \A a \in S : Meta(f, a) = Meta(g, a)
  PROVE  Unclosed(f, S) <=> Unclosed(g, S)
BY DEF Unclosed

\* With entry points in order a function added lies behind those that are there.
LEMMA AddedBehind ==
  ASSUME FieldInv, Ordered, OrderInv, AddFunction
  PROVE  /\ insts # <<>> /\ Reading /\ frame.start \in Nat
         /\ \A a \in DOMAIN functions : a \in Nat /\ a < frame.start
<1> DEFINE n == Len(insts)
<1>1. n \in Nat /\ DOMAIN insts = 1 .. n
  BY InstsAre
<1>2. Reading /\ (phase = "returned" \/ position >= frame.end)
  BY DEF AddFunction, BlockRead, Reading
<1>3. /\ position \in Nat /\ frame.start \in Nat /\ frame.end \in Nat
      /\ frame.oldNum \in 0 .. n
  BY <1>2 DEF FieldInv, FramePlaced, LaidOut
<1>4. FrameReads /\ FunctionsDealt /\ Border = frame.start
  BY <1>2 DEF OrderInv, Border
<1>5. /\ frame.start < frame.end /\ frame.start <= position
      /\ phase = "returned" => frame.start < position
      /\ position # frame.start => frame.oldNum < n
  BY <1>2, <1>4 DEF FrameReads
<1>6. frame.start < position /\ frame.oldNum < n
  BY <1>2, <1>3, <1>5
<1>7. insts # <<>>
  BY <1>1, <1>3, <1>6
<1>8. ASSUME NEW a \in DOMAIN functions PROVE a \in Nat /\ a < frame.start
  <2>1. a \in Nat /\ functions[a].end \in Nat
    BY DEF FieldInv, FunctionsCounted
  <2>2. a <= functions[a].end /\ functions[a].end < frame.start
    BY <1>4 DEF FunctionsDealt
  <2> QED
    BY <1>3, <2>1, <2>2
<1> QED
  BY <1>2, <1>3, <1>7, <1>8

\* The function added is marked as its frame says, whatever the name of its entity.
LEMMA MarksAdded ==
  ASSUME FieldInv, IdInv, IdsRead(functions), AddFunction, insts # <<>>
  PROVE  /\ DOMAIN functions' = {frame.start} \cup DOMAIN functions
         /\ IF frame.isStart THEN Meta(functions', frame.start).isStart
            ELSE ~Meta(functions', frame.start).isStart
         /\ IF frame.isEnd /\ position = frame.end THEN Meta(functions', frame.start).isEnd
            ELSE ~Meta(functions', frame.start).isEnd
         /\ IsId(Meta(functions', frame.start).id)
         /\ \A a \in DOMAIN functions :
              a # frame.start => Meta(functions', a) = Meta(functions, a)
<1> DEFINE name == header.names[frame.entity]
           id == CharacterId(frame.start, Last(insts).address, name)
           isEnd == frame.isEnd /\ position = frame.end
<1>1. PICK func :
        /\ functions' = Each({frame.start}, func) ++ functions
        /\ func.metadata = MetaData(frame.isStart, isEnd, id, name)
  BY AddMeta
<1>2. /\ DOMAIN functions' = {frame.start} \cup DOMAIN functions
      /\ functions'[frame.start] = func
      /\ \A x \in DOMAIN functions : x # frame.start => functions'[x] = functions[x]
  <2>1. Overlays(functions', frame.start, func, functions)
    BY <1>1, Overlaid
  <2> QED
    BY <2>1 DEF Overlays
<1>3. IsId(id)
  <2>1. CharsKnown
    BY DEF IdInv
  <2> QED
    BY <2>1, IdChosen
<1>4. frame.entity \in Entities
  <2>1. Reading
    BY AddIs
  <2> QED
    BY <2>1 DEF FieldInv, FramePlaced
<1>5. IsSequence(name) /\ Len(name) # 0
  BY <1>4 DEF IdInv, NamesThere
<1> DEFINE start == frame.isStart
           meta == func.metadata
<1> HIDE DEF id, name, isEnd, start
<1>6. meta = MetaData(start, isEnd, id, name)
  BY <1>1 DEF start
<1>7. MadeWith(ParseMetaData(meta), start, isEnd, id)
  <2> HIDE DEF meta
  <2> QED
    BY <1>3, <1>5, <1>6, MetaRead
<1>8. Meta(functions', frame.start) = ParseMetaData(meta)
  BY <1>2 DEF Meta
<1>9. \A a \in DOMAIN functions : a # frame.start => Meta(functions', a) = Meta(functions, a)
  BY <1>2 DEF Meta
<1> QED
  BY <1>2, <1>3, <1>7, <1>8, <1>9 DEF start, isEnd, MadeWith

LEMMA AddFunctionClasses ==
  FieldInv /\ OrderInv /\ IdInv /\ ClassInv /\ AddFunction => ClassInv'
<1> SUFFICES ASSUME FieldInv, OrderInv, IdInv, ClassInv, AddFunction PROVE ClassInv'
  OBVIOUS
<1>1. UNCHANGED <<header, scriptInfo, insts>> /\ (Ordered' <=> Ordered)
  BY OrderedKept DEF AddFunction
<1>2. IfsForward' /\ IdsRead(functions)
  BY <1>1 DEF ClassInv, IfsForward
<1>3. CASE insts = <<>>
  <2>1. UNCHANGED functions /\ ~Ordered
    BY <1>3, AddedBehind DEF AddFunction
  <2> QED
    BY <1>1, <1>2, <2>1 DEF ClassInv
<1>4. CASE insts # <<>>
  <2> DEFINE g == functions'
             start == frame.start
             D == DOMAIN functions
             isEnd == frame.isEnd /\ position = frame.end
  <2>1. /\ DOMAIN g = {start} \cup D
        /\ IF frame.isStart THEN Meta(g, start).isStart ELSE ~Meta(g, start).isStart
        /\ IF isEnd THEN Meta(g, start).isEnd ELSE ~Meta(g, start).isEnd
        /\ IsId(Meta(g, start).id)
        /\ \A a \in D : a # start => Meta(g, a) = Meta(functions, a)
    BY <1>2, <1>4, MarksAdded
  <2>2. /\ \/ /\ position # frame.end /\ phase' = "read"
              /\ frame' = Frame(0, frame.end, FALSE, frame.isEnd, "on_update", FALSE, position)
           \/ position = frame.end /\ phase' = "scripts" /\ frame' = frame
    BY <1>4, AddIs
  <2> HIDE DEF g
  <2>3. IdsRead(g)
    BY <1>2, <2>1 DEF IdsRead
  <2>4. ASSUME Ordered PROVE Linked(g) /\ FrameMarked' /\ ScriptsMarked' /\ ClassesIdle'
    <3>1. Reading /\ start \in Nat /\ \A a \in D : a \in Nat /\ a < start
      BY <2>4, AddedBehind
    <3>2. Linked(functions) /\ FrameMarked /\ ScriptsMarked
      BY <2>4 DEF ClassInv
    <3>3. \A a \in D : a # start /\ Meta(g, a) = Meta(functions, a)
      BY <2>1, <3>1
    <3> HIDE DEF D, start, isEnd
    <3>4. \A b \in D : {a \in DOMAIN g : a < b} = {a \in D : a < b}
      BY <2>1, <3>1
    <3>5. {a \in DOMAIN g : a < start} = D
      BY <2>1, <3>1
    <3>6. \A S \in SUBSET D : Unclosed(g, S) <=> Unclosed(functions, S)
      BY <3>3, UnclosedSame
    <3>7. /\ Unclosed(g, D) <=> ClassUnclosed
          /\ \A b \in D : Unclosed(g, {a \in D : a < b}) <=> Unclosed(functions, {a \in D : a < b})
      BY <3>6 DEF ClassUnclosed, D
    <3>8. IF Meta(g, start).isStart THEN ~Unclosed(g, D) ELSE Unclosed(g, D)
      <4>1. IF frame.isStart THEN ~ClassUnclosed ELSE ClassUnclosed
        BY <3>1, <3>2 DEF FrameMarked
      <4> QED
        BY <2>1, <3>7, <4>1
    <3>9. ASSUME NEW b \in D
          PROVE  IF Meta(g, b).isStart THEN ~Unclosed(g, {a \in D : a < b})
                 ELSE Unclosed(g, {a \in D : a < b})
      <4>1. IF Meta(functions, b).isStart THEN ~Unclosed(functions, {a \in D : a < b})
            ELSE Unclosed(functions, {a \in D : a < b})
        BY <3>2 DEF Linked, D
      <4>2. Meta(g, b) = Meta(functions, b)
        BY <3>3
      <4> QED
        BY <3>7, <4>1, <4>2
    <3>10. Linked(g)
      BY <2>1, <3>4, <3>5, <3>8, <3>9 DEF Linked
    <3>11. ClassUnclosed' <=> ~isEnd
      <4>1. ClassUnclosed' <=> Unclosed(g, DOMAIN g)
        BY DEF ClassUnclosed, g
      <4>2. start \in DOMAIN g /\ \A b \in DOMAIN g : b <= start
        BY <2>1, <3>1
      <4>3. \A a \in DOMAIN g : (\A b \in DOMAIN g : b <= a) => a = start
        BY <2>1, <3>1, <4>2
      <4>4. Unclosed(g, DOMAIN g) <=> ~Meta(g, start).isEnd
        BY <4>2, <4>3 DEF Unclosed
      <4> QED
        BY <2>1, <4>1, <4>4
    <3>12. \A r : /\ ReadFirst(r)' <=> ReadFirst(r)
                  /\ ReadLast(r)' <=> ReadLast(r)
      BY <1>1 DEF ReadFirst, ReadLast
    <3>13. \A r \in scriptInfo : ~r.isStart
      BY <3>1, <3>2 DEF ScriptsMarked
    <3>14. IF frame.isEnd THEN scriptInfo = {} ELSE scriptInfo # {}
      BY <3>1, <3>2 DEF FrameMarked
    <3>15. /\ \A r \in scriptInfo : IF r.isEnd THEN ReadLast(r) ELSE ~ReadLast(r)
      BY <3>2 DEF ScriptsMarked
    <3>16. CASE position # frame.end
      <4>1. Reading' /\ ClassUnclosed' /\ ~frame'.isStart /\ frame'.isEnd = frame.isEnd
        <5>1. Reading' /\ ~frame'.isStart /\ frame'.isEnd = frame.isEnd
          BY <2>2, <3>16 DEF Reading, Frame
        <5>2. ~isEnd
          BY <3>16 DEF isEnd
        <5> QED
          BY <3>11, <5>1, <5>2
      <4> QED
        BY <1>1, <3>10, <3>12, <3>13, <3>14, <3>15, <4>1
           DEF FrameMarked, ScriptsMarked, ClassesIdle
    <3>17. CASE position = frame.end
      <4>1. ~Reading' /\ (ClassUnclosed' <=> scriptInfo # {})
        <5>1. ~Reading'
          BY <2>2, <3>17 DEF Reading
        <5>2. isEnd <=> scriptInfo = {}
          BY <3>14, <3>17 DEF isEnd
        <5> QED
          BY <3>11, <5>1, <5>2
      <4> QED
        BY <1>1, <3>10, <3>12, <3>13, <3>14, <3>15, <4>1
           DEF FrameMarked, ScriptsMarked, ClassesIdle
    <3> QED
      BY <3>10, <3>16, <3>17
  <2>5. IdsRead(functions)' = IdsRead(g) /\ Linked(functions)' = Linked(g)
    BY DEF g
  <2> QED
    BY <1>1, <1>2, <2>3, <2>4, <2>5 DEF ClassInv
<1> QED
  BY <1>3, <1>4

LEMMA ClassNext == FieldInv /\ OrderInv /\ IdInv /\ ClassInv /\ [CodeNext]_codeVars => ClassInv'
<1> SUFFICES ASSUME FieldInv, OrderInv, IdInv, ClassInv, [CodeNext]_codeVars PROVE ClassInv'
  OBVIOUS
<1>1. CASE NextEntity
  BY <1>1, NextEntityClasses
<1>2. CASE StartScript
  BY <1>2, StartScriptClasses
<1>3. CASE ReadInstruction
  BY <1>3, ReadInstructionClasses
<1>4. CASE ReadAgain
  <2>1. UNCHANGED <<header, frame, scriptInfo, insts, functions>> /\ Reading' = Reading
    BY <1>4 DEF ReadAgain, BlockRead, Reading
  <2> QED
    BY <2>1, ClassesKept
<1>5. CASE AddFunction
  BY <1>5, AddFunctionClasses
<1>6. CASE BuildGraph \/ GenerateFunction \/ GenerationDone \/ UNCHANGED codeVars
  <2>1. UNCHANGED <<header, frame, scriptInfo, insts, functions>> /\ Reading' = Reading
    BY <1>6 DEF BuildGraph, GenerateFunction, GenerationDone, codeVars, fieldVars, Reading
  <2> QED
    BY <2>1, ClassesKept
<1> QED
  BY <1>1, <1>2, <1>3, <1>4, <1>5, <1>6 DEF CodeNext, Disassemble

(***************************************************************************)
(* The blocks of a field.  Function by function, in the order of their     *)
(* addresses, the lines leave nothing open but the class of an entity some *)
(* of whose functions are still to come.                                   *)
(***************************************************************************)
AllNested == \A a \in DOMAIN functions : Nested(Body(a)) /\ ExitsInside(Body(a))

PrintedFirst == \A a \in generated : \A b \in DOMAIN functions \ generated : a < b
ClassesLeft ==
  \E c : /\ Leads(<<>>, lines, c)
         /\ IF Unclosed(functions, generated) THEN ClassOpen(c) ELSE c = <<>>

BlockInv ==
  /\ phase \in {"graph", "generate", "done"} => scriptInfo = {}
  /\ phase \in {"scripts", "read", "returned", "graph"} => generated = {}
  /\ phase = "done" => generated = DOMAIN functions
  /\ PrintedFirst
  /\ Ordered /\ AllNested => ClassesLeft

LEMMA NothingLeft ==
  ASSUME generated = {}, lines = <<>>
  PROVE  ClassesLeft
<1>1. ~Unclosed(functions, generated)
  BY DEF Unclosed
<1>2. Leads(<<>>, lines, <<>>)
  BY LeadsNone
<1> QED
  BY <1>1, <1>2 DEF ClassesLeft

LEMMA BodiesKept ==
  ASSUME UNCHANGED <<insts, functions>>
  PROVE  AllNested' <=> AllNested
<1>1. \A a : Before(a)' = Before(a)
  BY DealtIs, DealtNextIs DEF SumsDealt
<1>2. \A a : Body(a)' = Body(a)
  BY <1>1 DEF Body
<1> QED
  BY <1>2 DEF AllNested, Nested, ExitsInside, IfsOf, IsCond

LEMMA BlocksKept ==
  ASSUME BlockInv, UNCHANGED <<header, insts, functions, generated, lines>>,
         phase' \in {"graph", "generate", "done"} => scriptInfo' = {},
         phase' \in {"scripts", "read", "returned", "graph"} => generated = {},
         phase' = "done" => generated = DOMAIN functions
  PROVE  BlockInv'
<1>1. (Ordered' <=> Ordered) /\ (AllNested' <=> AllNested)
  BY OrderedKept, BodiesKept
<1>2. (ClassesLeft' <=> ClassesLeft) /\ (PrintedFirst' <=> PrintedFirst)
  BY DEF ClassesLeft, PrintedFirst
<1> QED
  BY <1>1, <1>2 DEF BlockInv

\* While fields are read nothing is printed.
LEMMA ReadingBlocks ==
  ASSUME FieldInv, LineInv, BlockInv, Disassemble, UNCHANGED <<generated, lines>>
  PROVE  BlockInv'
<1>1. /\ phase \in {"scripts", "read", "returned"}
      /\ phase' \in {"scripts", "read", "returned", "graph", "undefined"}
      /\ phase' = "graph" => scriptInfo' = {}
  BY DEF Disassemble, NextEntity, StartScript, ReadInstruction, ReadAgain, AddFunction, BlockRead
<1>2. generated = {} /\ lines = <<>>
  BY <1>1 DEF BlockInv, LineInv
<1>3. generated' = {} /\ lines' = <<>>
  BY <1>2
<1>4. ClassesLeft'
  <2>1. ~Unclosed(functions', generated')
    BY <1>3 DEF Unclosed
  <2>2. Leads(<<>>, lines', <<>>)
    BY <1>3, LeadsNone
  <2> QED
    BY <2>1, <2>2 DEF ClassesLeft
<1>5. PrintedFirst'
  BY <1>3 DEF PrintedFirst
<1> QED
  BY <1>1, <1>3, <1>4, <1>5 DEF BlockInv

LEMMA BlockPrinted ==
  ASSUME FieldInv, Ordered, OrderInv, LineInv, ClassInv, AllNested, ClassesLeft,
         NEW a \in DOMAIN functions, generated = {x \in DOMAIN functions : x < a}
  PROVE  \E c : /\ Leads(<<>>, lines \o FunctionLines(a, Body(a)), c)
                /\ IF Unclosed(functions, generated \cup {a}) THEN ClassOpen(c) ELSE c = <<>>
<1> DEFINE meta == Meta(functions, a)
           s == FunctionLines(a, Body(a))
<1>1. PICK b : /\ Leads(<<>>, lines, b)
               /\ IF Unclosed(functions, generated) THEN ClassOpen(b) ELSE b = <<>>
  BY DEF ClassesLeft
<1>2. IF meta.isStart THEN ~Unclosed(functions, generated) ELSE Unclosed(functions, generated)
  BY DEF ClassInv, Linked
<1>3. meta = ParseMetaData(functions[a].metadata)
  BY DEF Meta
<1>4. IfsForward /\ Nested(Body(a)) /\ ExitsInside(Body(a))
  BY DEF ClassInv, AllNested
<1> HIDE DEF meta
<1>5. IF meta.isStart THEN b = <<>> ELSE ClassOpen(b)
  BY <1>1, <1>2
<1>6. PICK c : Leads(b, s, c) /\ IF meta.isEnd THEN c = <<>> ELSE ClassOpen(c)
  BY <1>3, <1>4, <1>5, FunctionLeads
<1>7. Leads(<<>>, lines \o s, c)
  <2>1. lines \in Seq(Printable) /\ s \in Seq(Printable)
    BY FunctionPrints DEF LineInv
  <2> DEFINE none == <<>>
  <2>2. Leads(none, lines, b)
    BY <1>1
  <2> HIDE DEF s, none
  <2>3. Leads(none, lines \o s, c)
    BY <1>6, <2>1, <2>2, LeadsJoined
  <2> QED
    BY <2>3 DEF none
<1>8. Unclosed(functions, generated \cup {a}) <=> ~meta.isEnd
  <2>1. \A x \in DOMAIN functions : x \in Nat
    BY DEF FieldInv, FunctionsCounted
  <2>2. \A x \in generated \cup {a} : x <= a
    BY <2>1
  <2>3. \A x \in generated \cup {a} : (\A y \in generated \cup {a} : y <= x) => x = a
    BY <2>1
  <2> QED
    BY <2>2, <2>3 DEF Unclosed, meta
<1> QED
  BY <1>6, <1>7, <1>8

LEMMA GenerateBlocks ==
  ASSUME FieldInv, OrderInv, LineInv, ClassInv, BlockInv, GenerateFunction
  PROVE  BlockInv'
<1> DEFINE D == DOMAIN functions
           rest == D \ generated
           a == Min(rest)
<1>1. phase = "generate" /\ generated # D /\ UNCHANGED <<header, scriptInfo, insts, functions>>
  BY DEF GenerateFunction
<1>2. \/ phase' = "failed" /\ UNCHANGED <<generated, lines>>
      \/ /\ phase' = phase /\ generated' = generated \cup {a}
         /\ lines' = lines \o FunctionLines(a, Body(a))
  BY DEF GenerateFunction
<1>3. CASE phase' = "failed" /\ UNCHANGED <<generated, lines>>
  BY <1>1, <1>3, BlocksKept
<1>4. CASE /\ phase' = phase /\ generated' = generated \cup {a}
           /\ lines' = lines \o FunctionLines(a, Body(a))
  <2>1. generated \subseteq D /\ D \subseteq Nat
    BY DEF FieldInv, FunctionsCounted
  <2>2. rest \subseteq Nat /\ rest # {}
    BY <1>1, <2>1
  <2>3. a \in rest /\ \A x \in rest : a <= x
    <3> HIDE DEF rest
    <3> QED
      BY <2>2, LeastOf
  <2>4. \A x \in generated : \A y \in rest : x < y
    BY DEF BlockInv, PrintedFirst
  <2>5. PrintedFirst'
    <3>1. ASSUME NEW x \in generated', NEW y \in D \ generated' PROVE x < y
      <4>1. y \in rest /\ y # a /\ y \in Nat /\ a \in Nat
        BY <1>4, <2>1, <2>3
      <4>2. x \in generated \/ x = a
        BY <1>4
      <4> HIDE DEF a, rest
      <4> QED
        BY <2>3, <2>4, <4>1, <4>2
    <3> QED
      BY <1>1, <3>1 DEF PrintedFirst
  <2>6. ASSUME Ordered, AllNested PROVE ClassesLeft'
    <3>1. ClassesLeft
      BY <2>6 DEF BlockInv
    <3>2. a \in D /\ generated = {x \in D : x < a}
      <4>1. a \in D /\ a \in Nat
        BY <2>1, <2>3
      <4>2. ASSUME NEW x \in D PROVE x \in generated <=> x < a
        <5>1. x \in Nat /\ (x \notin generated => x \in rest)
          BY <2>1
        <5> HIDE DEF a, rest
        <5> QED
          BY <2>3, <2>4, <4>1, <5>1
      <4> HIDE DEF a, rest
      <4> QED
        BY <2>1, <4>1, <4>2
    <3> HIDE DEF a, rest
    <3>3. PICK c : /\ Leads(<<>>, lines \o FunctionLines(a, Body(a)), c)
                   /\ IF Unclosed(functions, generated \cup {a}) THEN ClassOpen(c) ELSE c = <<>>
      BY <2>6, <3>1, <3>2, BlockPrinted
    <3>4. /\ Leads(<<>>, lines', c)
          /\ IF Unclosed(functions', generated') THEN ClassOpen(c) ELSE c = <<>>
      BY <1>1, <1>4, <3>3
    <3> QED
      BY <3>4 DEF ClassesLeft
  <2>7. (Ordered' <=> Ordered) /\ (AllNested' <=> AllNested)
    BY <1>1, OrderedKept, BodiesKept
  <2>8. phase' = "generate" /\ scriptInfo' = {}
    BY <1>1, <1>4 DEF BlockInv
  <2> QED
    BY <2>5, <2>6, <2>7, <2>8 DEF BlockInv
<1> QED
  BY <1>2, <1>3, <1>4

LEMMA BlockInit == CodeInit => BlockInv
<1> SUFFICES ASSUME CodeInit PROVE BlockInv
  OBVIOUS
<1>1. phase = "scripts" /\ generated = {} /\ lines = <<>>
  BY DEF CodeInit, FieldInit
<1>2. ClassesLeft
  BY <1>1, NothingLeft
<1> QED
  BY <1>1, <1>2 DEF BlockInv, PrintedFirst

LEMMA BlockNext ==
  FieldInv /\ OrderInv /\ LineInv /\ ClassInv /\ BlockInv /\ [CodeNext]_codeVars => BlockInv'
<1> SUFFICES ASSUME FieldInv, OrderInv, LineInv, ClassInv, BlockInv, [CodeNext]_codeVars
             PROVE  BlockInv'
  OBVIOUS
<1>1. CASE Disassemble /\ UNCHANGED <<generated, lines>>
  BY <1>1, ReadingBlocks
<1>2. CASE BuildGraph
  <2>1. /\ UNCHANGED <<header, scriptInfo, insts, functions, generated, lines>>
        /\ phase = "graph" /\ phase' \in {"generate", "undefined"}
    BY <1>2 DEF BuildGraph
  <2>2. scriptInfo' = {}
    BY <2>1 DEF BlockInv
  <2> QED
    BY <2>1, <2>2, BlocksKept
<1>3. CASE GenerateFunction
  BY <1>3, GenerateBlocks
<1>4. CASE GenerationDone
  <2>1. /\ UNCHANGED <<header, scriptInfo, insts, functions, generated, lines>>
        /\ phase = "generate" /\ phase' = "done" /\ generated = DOMAIN functions
    BY <1>4 DEF GenerationDone
  <2>2. scriptInfo' = {}
    BY <2>1 DEF BlockInv
  <2> QED
    BY <2>1, <2>2, BlocksKept
<1>5. CASE UNCHANGED codeVars
  <2>1. UNCHANGED <<header, phase, scriptInfo, insts, functions, generated, lines>>
    BY <1>5 DEF codeVars, fieldVars
  <2>2. /\ phase' \in {"graph", "generate", "done"} => scriptInfo' = {}
        /\ phase' \in {"scripts", "read", "returned", "graph"} => generated = {}
        /\ phase' = "done" => generated = DOMAIN functions
    BY <2>1 DEF BlockInv
  <2> QED
    BY <2>1, <2>2, BlocksKept
<1> QED
  BY <1>1, <1>2, <1>3, <1>4, <1>5 DEF CodeNext

\* For every file whose entry points ascend, and whose ifs are nested and exit inside
\* their functions: the lines open and close classes, functions and ifs like brackets.
\* Each end closes the if that is open, each function and class is closed in its own
\* place, on_start and on_update as well, and none is left open.
THEOREM BlocksAlwaysMatch == FieldSpec => []BlocksMatch
<1>1. CodeInit => LineInv
  BY LineInit
<1>2. LineInv /\ ClassInv /\ BlockInv => BlocksMatch
  <2> SUFFICES ASSUME LineInv, ClassInv, BlockInv, phase = "done", Ordered, AllNested
               PROVE  FoldLeft(Bracket, <<>>, lines) = <<>>
    BY DEF BlocksMatch, AllNested
  <2> DEFINE L == Printable \cup {Line("mismatch", l.at) : l \in Printable}
             none == <<>>
  <2>1. Closed(L)
    <3>1. \A l \in Printable : Line("mismatch", Line("mismatch", l.at).at) = Line("mismatch", l.at)
      BY DEF Line
    <3> QED
      BY <3>1 DEF Closed
  <2>2. lines \in Seq(L)
    <3>1. lines \in Seq(Printable) /\ Printable \subseteq L
      BY DEF LineInv
    <3> HIDE DEF L
    <3> QED
      BY <3>1
  <2>3. ~Unclosed(functions, generated)
    BY DEF BlockInv, ClassInv, ClassesIdle, ClassUnclosed, Reading
  <2>4. Leads(none, lines, none)
    BY <2>3 DEF BlockInv, ClassesLeft
  <2> HIDE DEF L, none
  <2>5. FoldLeft(Bracket, <<>>, lines) = none
    <3>1. Leads(<<>>, lines, none)
      BY <2>4 DEF none
    <3> QED
      BY <2>1, <2>2, <3>1, LeadsFold
  <2> QED
    BY <2>5 DEF none
<1>3. CodeInit => OrderInv
  BY OrderInit
<1>4. FieldInv /\ OrderInv /\ [CodeNext]_codeVars => OrderInv'
  BY OrderNext
<1>5. FieldInv /\ OrderInv /\ LineInv /\ [CodeNext]_codeVars => LineInv'
  BY LineNext
<1>6. CodeInit => IdInv
  BY IdInit
<1>7. FieldInv /\ OrderInv /\ IdInv /\ [CodeNext]_codeVars => IdInv'
  BY IdNext
<1>8. CodeInit => ClassInv
  BY ClassInit
<1>9. FieldInv /\ OrderInv /\ IdInv /\ ClassInv /\ [CodeNext]_codeVars => ClassInv'
  BY ClassNext
<1>10. CodeInit => BlockInv
  BY BlockInit
<1>11. FieldInv /\ OrderInv /\ LineInv /\ ClassInv /\ BlockInv /\ [CodeNext]_codeVars => BlockInv'
  BY BlockNext
<1> QED
  BY <1>1, <1>2, <1>3, <1>4, <1>5, <1>6, <1>7, <1>8, <1>9, <1>10, <1>11, FieldInvariant, PTL
     DEF FieldSpec
=============================================================================
