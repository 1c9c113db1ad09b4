-------------------------- MODULE StackDisassembler -------------------------
(***************************************************************************)
(* The disassemblers of the two stack machines: SCUMM v6 scripts           *)
(* (decompiler/scummv6/disassembler.cpp) and world map scripts of Final    *)
(* Fantasy VII (decompiler/ff7_world/ff7_world_disassembler.cpp).          *)
(*                                                                         *)
(* A script is the block it is in and its instructions; where each lies in *)
(* the stream follows from their sizes.  A SCUMM script fills the rest of  *)
(* its file; a world script begins entry words into the code, and behind   *)
(* says whether another word follows it in the file.                       *)
(*                                                                         *)
(* Two things make the SCUMM disassembler seek to a fixed position of the  *)
(* file and read on from there: what it reads then depends on bytes of     *)
(* headers and parameters, and is part of the script here: elsewhere has   *)
(* the opcodes read where no instruction begins, and tail the string read  *)
(* from byte 14 on.  A script that is read again may be read for ever;     *)
(* Rereads bounds how far that is followed.                                *)
(***************************************************************************)
EXTENDS Values, ScummOpcodes, WorldOpcodes

CONSTANTS
  ScummScripts,  \* the scripts disassembled
  WorldScripts,
  Rereads        \* the instructions a script is followed for beyond those it has

\* The opcode, its number if it has one, the instruction a jump leads to, and the
\* characters and escapes of its string.
Instructions(opcodes) == [op : opcodes, val : Int, to : Nat, string : Seq(STRING)]
JumpsInside(s) == \A i \in DOMAIN s.code : s.code[i].to \in 1 .. Len(s.code) + 1

VARIABLES
  script,     \* what is decompiled
  stream,     \* mStream: the instruction at each position one starts at
  phase,      \* "header", "read", "string" behind a sound in a string, "fix" after the
              \*  last opcode; "process" and "done" are of StackCode; "failed" when an
              \*  exception ends the program, "undefined" when the behaviour is
  position,   \* the position in the stream
  address,    \* _address
  insts,      \* _insts
  it          \* the instructions gone through in the loops over _insts

scriptVars == <<script, stream, phase, position, address, insts, it>>

IsScumm == script.engine = "scumm"
-----------------------------------------------------------------------------
(* The layout of a file.                                                   *)

OpcodesOf(engine) == IF engine = "scumm" THEN ScummOpcodeTable ELSE WorldOpcodeTable

SizeOfItems(sizes) == FoldLeft(LAMBDA n, size : n + size, 0, sizes)

\* The bytes of an instruction's parameters, of which an address or a string is the
\* only or the last one.
ParamBytes(params, string) ==
  CASE params = <<"a">> -> 2
    [] "c" \in ToSet(params) -> FormatBytes(Front(params)) + 1
         + SizeOfItems([i \in DOMAIN string |-> ItemBytes(string[i])])
    [] OTHER -> FormatBytes(params)

\* The bytes of an opcode: a word in world scripts.
OpcodeBytes(engine, op) ==
  IF engine = "world" \/ (op \in DOMAIN ScummOpcodeTable /\ ScummOpcodeTable[op].sub)
  THEN 2 ELSE 1

BytesIn(engine, inst) ==
  OpcodeBytes(engine, inst.op)
  + (IF inst.op \in DOMAIN OpcodesOf(engine)
     THEN ParamBytes(OpcodesOf(engine)[inst.op].params, inst.string) ELSE 0)

\* The positions of the instructions from the first on, and of the end.
Positions(s, first) ==
  LET at[i \in 1 .. Len(s.code) + 1] ==
        IF i = 1 THEN first ELSE at[i - 1] + BytesIn(s.engine, s.code[i - 1])
  IN at

\* 256 pairs of words, and the code behind them.
WorldHeader == 1024
FirstPosition(s) ==
  IF s.engine = "world" THEN WorldHeader + 2 * s.entry
  ELSE CASE s.block = "LSCR" -> 9
         [] s.block = "VERB" -> 9 + 3 * s.verbs
         [] OTHER -> 8

\* A jump is stored as a distance from the instruction behind it, or as the words from
\* the beginning of the code.
StoredTarget(s, from, to) ==
  IF s.engine = "scumm" THEN to - (from + 3) ELSE (to - WorldHeader) \div 2

CodeOfStream(s) ==
  LET at == Positions(s, FirstPosition(s))
  IN [p \in {at[i] : i \in DOMAIN s.code} |->
        LET i == CHOOSE k \in DOMAIN s.code : at[k] = p
        IN [op |-> s.code[i].op, val |-> s.code[i].val, string |-> s.code[i].string,
            target |-> StoredTarget(s, p, at[s.code[i].to])]]

StreamOf(s) == CodeOfStream(s) ++ s.elsewhere
StreamEnd(s) == Positions(s, FirstPosition(s))[Len(s.code) + 1]

\* Where the stream is after beginOverride and after a sound.
OverrideSeek == 3
SoundSeek == 14

\* The last letter of the block's name read as an opcode: P and D are none.
NameOpcode == [block \in {"LSCR", "VERB"} |->
                 IF block = "LSCR" THEN "byteArrayInc" ELSE "writeByteVar"]

Stored == [op : DOMAIN ScummOpcodeTable, val : Int, string : Seq(STRING), target : Int]
\* Only a parameter of type c is a string.
HasItsString(engine, inst) ==
  inst.string # <<>> => inst.op \in DOMAIN OpcodesOf(engine)
                        /\ "c" \in ToSet(OpcodesOf(engine)[inst.op].params)

\* A world script ends with a return.
ASSUME ScriptsAssumption ==
  /\ \A s \in ScummScripts :
       /\ s.engine = "scumm" /\ s.verbs \in Nat /\ s.tail \in Seq(STRING)
       /\ s.code \in Seq(Instructions(STRING)) /\ JumpsInside(s)
       /\ \A i \in DOMAIN s.code : HasItsString(s.engine, s.code[i])
       /\ DOMAIN s.elsewhere \subseteq Nat
       /\ \A p \in DOMAIN s.elsewhere :
            /\ s.elsewhere[p] \in Stored /\ HasItsString(s.engine, s.elsewhere[p])
            /\ p + BytesIn(s.engine, s.elsewhere[p]) <= StreamEnd(s)
            /\ p = OverrideSeek => s.block \in DOMAIN NameOpcode
                                   /\ s.elsewhere[p].op = NameOpcode[s.block]
  /\ \A s \in WorldScripts :
       /\ s.engine = "world" /\ s.entry \in Nat /\ s.behind \in BOOLEAN
       /\ s.code \in Seq(Instructions(Nat)) /\ JumpsInside(s)
       /\ \A i \in DOMAIN s.code : HasItsString(s.engine, s.code[i])
       /\ s.code # <<>> /\ Last(s.code).op = \h203 /\ s.elsewhere = <<>>
ASSUME RereadsAssumption == Rereads \in Nat
-----------------------------------------------------------------------------
(* Reading.                                                                *)

KnownBlocks == {"SCRP", "LSCR", "ENCD", "EXCD", "VERB"}

StackInit(s) ==
  /\ script = s /\ stream = StreamOf(s) /\ phase = "header"
  /\ position = 0 /\ address = 0 /\ insts = <<>> /\ it = 0

Fail == phase' = "failed" /\ UNCHANGED <<position, address, insts, it>>

\* The name of the block and what follows it; or the script's entry of the table.
ReadHeader ==
  /\ phase = "header" /\ UNCHANGED <<script, stream>>
  /\ IF IsScumm /\ script.block \notin KnownBlocks THEN Fail
     ELSE /\ phase' = "read" /\ UNCHANGED <<insts, it>>
          /\ position' = FirstPosition(script)
          /\ address' = IF IsScumm THEN 0 ELSE FirstPosition(script)

\* getDestAddress; only a jump has one.
NoDest == -1
WorldCodeAddress == \h200
DestBehindOpcode(at, stored) == IF IsScumm THEN at + 1 + stored.target ELSE stored.target
DestOf(at, stored) == IF IsScumm THEN at + 3 + stored.target
                      ELSE WorldCodeAddress + stored.target

\* By how much _address moves over the parameters.
ParamAddress(params, string) ==
  CASE params = <<"a">> -> 2
    [] "c" \in ToSet(params) -> FormatBytes(Front(params)) + 1
         + SizeOfItems([i \in DOMAIN string |-> ItemAddress(string[i])])
    [] OTHER -> FormatBytes(params)

\* What sends the stream to a fixed position, and beginOverride's step of _address over
\* the jump behind it.
Sounds(inst) == "sound" \in ToSet(inst.string)
Overrides(inst) == IsScumm /\ inst.op = "beginOverride"
Seeks(inst) == Sounds(inst) \/ Overrides(inst)
SkippedBytes(inst) == IF Overrides(inst) THEN 3 ELSE 0

\* A string is read where it is up to its first sound.
ItemsRead(inst) ==
  IF Sounds(inst) THEN SubSeq(inst.string, 1, SelectInSeq(inst.string, LAMBDA x : x = "sound"))
  ELSE inst.string

\* The number that the first parameter is: for an address its distance.
FirstNumber(stored, params) == IF params = <<"a">> THEN stored.target ELSE stored.val

Unknown == position \notin DOMAIN stream
           \/ (position \in DOMAIN stream
              /\ stream[position].op \notin DOMAIN OpcodesOf(script.engine))

ReadOpcode ==
  LET stored == stream[position]
      known == OpcodesOf(script.engine)[stored.op]
  IN IF Unknown THEN Fail
     ELSE /\ insts' = Append(insts,
                [op |-> stored.op, address |-> address, change |-> known.change,
                 val |-> FirstNumber(stored, known.params),
                 dest |-> IF known.class \in {"CondJump", "Jump"} THEN DestOf(address, stored)
                          ELSE NoDest])
          /\ address' = address + OpcodeBytes(script.engine, stored.op)
                        + ParamAddress(known.params, ItemsRead(stored)) + SkippedBytes(stored)
          /\ position' = CASE Overrides(stored) -> OverrideSeek
                           [] Sounds(stored) -> position
                           [] OTHER -> position + BytesIn(script.engine, stored)
          /\ phase' = IF Sounds(stored) THEN "string" ELSE "read"
          /\ UNCHANGED it

\* The loop of START_OPCODES.
ReadScumm ==
  /\ phase = "read" /\ IsScumm /\ position # StreamEnd(script)
  /\ Len(insts) < Len(script.code) + Rereads
  /\ ReadOpcode /\ UNCHANGED <<script, stream>>

\* The seek, and the rest of the string up to a zero or the end of the file.  A sound in
\* it leads to byte 14 again, and the loop never ends.
ReadString ==
  LET items == script.tail
      behind == SoundSeek + 1 + SizeOfItems([i \in DOMAIN items |-> ItemBytes(items[i])])
  IN /\ phase = "string" /\ "sound" \notin ToSet(items) /\ UNCHANGED <<script, stream>>
     /\ IF behind > StreamEnd(script) THEN Fail
        ELSE /\ phase' = "read" /\ position' = behind /\ UNCHANGED <<insts, it>>
             /\ address' = address + SizeOfItems([i \in DOMAIN items |-> ItemAddress(items[i])])

\* The bytes read, of which only the opcode counts once the return has been seen.
EndedAtJump == insts # <<>> /\ Last(insts).op \in {\h200, \h203}
WorldEnded == insts # <<>> /\ Last(insts).op = \h203
ReadWorld ==
  /\ phase = "read" /\ ~IsScumm /\ ~WorldEnded
  /\ ReadOpcode /\ UNCHANGED <<script, stream>>

\* A file that ends with the return has no word to read behind it.
WordBehind == position \in DOMAIN stream \/ script.behind

\* The addresses of a world script are words.
AsWords(inst) == [inst EXCEPT !.address = @ \div 2]

EndWorld ==
  /\ phase = "read" /\ ~IsScumm /\ WorldEnded /\ UNCHANGED <<script, stream>>
  /\ IF ~WordBehind THEN Fail
     ELSE /\ insts' = [k \in DOMAIN insts |-> AsWords(insts[k])]
          /\ phase' = "process" /\ position' = position + 2 /\ UNCHANGED <<address, it>>

EndScumm ==
  /\ phase = "read" /\ IsScumm /\ position = StreamEnd(script)
  /\ phase' = "fix" /\ UNCHANGED <<script, stream, position, address, insts, it>>
-----------------------------------------------------------------------------
(* Stack effects of calls with a list.                                     *)

Nibble(n, unit) == (n \div unit) % 16
MarkedAbove(change) == change > \h1000
Marked(change) == change >= \h1000

IsLoad(k) == ScummOpcodeTable[insts[k].op].class \in LoadClasses

\* The instruction before the given number of loads that precede k; 0 when the walk
\* passes the beginning.
InstBefore(k, loads) ==
  LET before == {j \in 1 .. k - 1 : IsLoad(j)}
  IN CASE loads = 0 -> k - 1
       [] loads > 0 /\ Cardinality(before) < loads -> 0
       [] OTHER -> (CHOOSE j \in before : Cardinality({i \in before : i >= j}) = loads) - 1

\* The first parameter of the instruction found is taken as the length of the list, and
\* the effect has 16 bits.
Int16(n) == ((n + \h8000) % \h10000) - \h8000
CountOnly(change, length) ==
  Int16(Nibble(change, 1) - Nibble(change, \h10) - Nibble(change, \h100) - length)
StackEffect(change, length) ==
  Int16(Nibble(change, 1) - Nibble(change, \h10) - Nibble(change, \h100) - (length + 1))

FixStackEffect ==
  LET k == it + 1
      change == insts[k].change
      found == InstBefore(k, Nibble(change, \h100))
      params == ScummOpcodeTable[insts[found].op].params
  IN /\ phase = "fix" /\ it < Len(insts)
     /\ UNCHANGED <<script, stream, position, address>>
     /\ CASE ~Marked(change) -> it' = k /\ UNCHANGED <<phase, insts>>
          [] Marked(change) /\ (found = 0 \/ params = <<>>) ->
               phase' = "undefined" /\ UNCHANGED <<insts, it>>
          [] Marked(change) /\ found # 0 /\ params # <<>> /\ Head(params) = "c" ->
               phase' = "failed" /\ UNCHANGED <<insts, it>>
          [] OTHER ->
               /\ insts' = [insts EXCEPT ![k].change = StackEffect(change, insts[found].val)]
               /\ it' = k /\ UNCHANGED phase

EndFix ==
  /\ phase = "fix" /\ it = Len(insts)
  /\ phase' = "process" /\ it' = 0
  /\ UNCHANGED <<script, stream, position, address, insts>>

Disassemble == ReadHeader \/ ReadScumm \/ ReadString \/ ReadWorld \/ EndScumm \/ EndWorld
               \/ FixStackEffect \/ EndFix
=============================================================================
