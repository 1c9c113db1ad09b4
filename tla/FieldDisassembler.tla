------------------------- MODULE FieldDisassembler --------------------------
(***************************************************************************)
(* FF7Disassembler (decompiler/ff7_field/ff7_field_disassembler.cpp): the  *)
(* header of a field names the entities and the entry points of their      *)
(* scripts, and each script is read from its entry point to the next other *)
(* one, as one function, or two for script 0: on_start up to its return    *)
(* and on_update for the rest.                                             *)
(*                                                                         *)
(* A file is the sequence of its instructions, and its entry points are    *)
(* instructions in it; the layout of the stream follows from their sizes.  *)
(* The header before the code, the strings behind it and the other         *)
(* sections are left out: an entry point is an offset into the code, to    *)
(* which kSectionPointersSize is added, as in the source.                  *)
(***************************************************************************)
EXTENDS FieldHandlers

CONSTANTS
  Files,                \* the files disassembled
  ScriptsPerEntity,     \* the entry points of an entity, 32 in the source
  kSectionPointersSize  \* 28, or 0 when the stream is the script section alone

IsJumpOp(op) == op \in CondJumpOpcodes \cup UncondJumpOpcodes
IsBackJump(op) == op \in {"JMPB", "JMPBL"}

Blank == ""

\* Code, entities by name, and for each the entry points of its scripts; an entry point
\* or the target of a jump may be the end of the code. A distance is unsigned,
\* assert(length >= 3) is of KAWAI, and the character that CHAR names is the text of a byte.
IsField(f) ==
  /\ f.code \in Seq(ToSet(f.code))
  /\ \A i \in DOMAIN f.code :
       LET inst == f.code[i]
       IN /\ inst.op \in DOMAIN FieldFormats \cup KawaiOpcodes
          /\ inst.op \in KawaiOpcodes => inst.length \in Nat \ (0 .. 2)
          /\ inst.op = "CHAR" => inst.val \in STRING \ {Blank, "start", "end"}
          /\ inst.to \in 0 .. Len(f.code) + 1
          /\ IsJumpOp(inst.op) =>
               inst.to \in IF IsBackJump(inst.op) THEN 1 .. i ELSE i + 1 .. Len(f.code) + 1
  /\ f.names \in Seq(Seq(STRING) \ {<<>>}) /\ Len(f.names) = Len(f.entries)
  /\ f.entries \in Seq([1 .. ScriptsPerEntity -> 1 .. Len(f.code) + 1])

ASSUME FieldAssumption ==
  /\ ScriptsPerEntity \in Nat \ {0}
  /\ kSectionPointersSize \in Nat
  /\ \A f \in Files : IsField(f)

VARIABLES
  header,           \* mHeader: entity names, entry points, mOffsetToStrings
  stream,           \* mStream: the instruction at each offset one starts at
  phase,            \* what runs: "scripts" is doDisassemble, "read" the reading of
                    \*  opcodes, "returned" just after it stopped at a return,
                    \*  "graph" and the phases after it are of FieldCode;
                    \*  "undefined" when the last of no instructions is read
  entity,           \* entityNumber, 0 before the first
  scriptInfo,       \* the scripts of the entity that are left; the one of least index is next
  frame,            \* the arguments and locals of AddFunc
  position,         \* the position in the stream; _address is always the same
  exitAddrs,        \* the innermost exit address last
  insts,            \* _insts
  functions,        \* Engine::_functions by start address
  entityFunctions   \* mEntityIndexMap

fieldVars == <<header, stream, phase, entity, scriptInfo, frame, position, exitAddrs,
               insts, functions, entityFunctions>>

NoFrame == [entity |-> 0]
-----------------------------------------------------------------------------
(* The layout of a file.                                                   *)

\* The offset of each instruction, and behind the last one of the strings.
Offsets(code) ==
  LET offset[i \in 1 .. Len(code) + 1] ==
        IF i = 1 THEN 0
        ELSE offset[i - 1] + InstBytes(code[i - 1].op, code[i - 1].length)
  IN offset

\* A jump is stored as a distance: forward from its operand, which is the last
\* parameter, or backward from the opcode.
OperandOffset(op) == 1 + FormatBytes(Front(FieldFormats[op]))
Distance(op, from, to) ==
  IF IsBackJump(op) THEN from - to ELSE to - (from + OperandOffset(op))

Stored(inst, from, to) ==
  [op |-> inst.op, bytes |-> InstBytes(inst.op, inst.length), val |-> inst.val,
   to |-> inst.to,
   distance |-> IF IsJumpOp(inst.op) THEN Distance(inst.op, from, to) ELSE 0]

StreamOf(code) ==
  LET offset == Offsets(code)
      at == [a \in {offset[i] : i \in DOMAIN code} |->
               CHOOSE i \in DOMAIN code : offset[i] = a]
  IN [p \in {kSectionPointersSize + a : a \in DOMAIN at} |->
        LET inst == code[at[p - kSectionPointersSize]]
        IN Stored(inst, p - kSectionPointersSize,
                  IF IsJumpOp(inst.op) THEN offset[inst.to] ELSE 0)]

\* A name is its parts between underscores; a blank one is replaced.
BlankName == <<Blank>>
EntityNameOf(e, name) == IF name = BlankName THEN <<"entity", ToString(e - 1)>> ELSE name

HeaderOf(f) ==
  LET offset == Offsets(f.code)
  IN [names |-> [e \in DOMAIN f.names |-> EntityNameOf(e, f.names[e])],
      scripts |-> [e \in DOMAIN f.entries |->
                     [s \in 1 .. ScriptsPerEntity |-> offset[f.entries[e][s]]]],
      strings |-> offset[Len(f.code) + 1]]
-----------------------------------------------------------------------------
(* Jumps.                                                                  *)

\* getDestAddress of the two kinds of jumps.
ParamsSize(op) ==
  CASE op \in {"IFUB", "IFUBL"} -> 5
    [] op \in {"IFSW", "IFSWL", "IFUW", "IFUWL"} -> 7
    [] op \in {"IFKEYON", "IFKEYOFF", "IFKEY"} -> 3
    [] op \in {"IFPRTYQ", "IFMEMBQ"} -> 2
UncondDest(op, address, distance) ==
  IF op \in {"JMPF", "JMPFL"} THEN address + distance + 1 ELSE address - distance
DestAddress(op, address, distance) ==
  IF op \in CondJumpOpcodes THEN address + distance + ParamsSize(op)
  ELSE UncondDest(op, address, distance)
-----------------------------------------------------------------------------
(* The scripts of an entity.                                               *)

Entities == DOMAIN header.scripts
EntryPoint(k) ==
  header.scripts[((k - 1) \div ScriptsPerEntity) + 1][((k - 1) % ScriptsPerEntity) + 1]
NthScript(e, s) == (e - 1) * ScriptsPerEntity + s

\* The strings begin behind the last script, not with its last byte.
EndOfScriptButLast(e, s) ==
  LET later == {k \in NthScript(e, s) + 1 .. Len(header.scripts) * ScriptsPerEntity :
                  EntryPoint(k) # EntryPoint(NthScript(e, s))}
  IN IF later = {} THEN header.strings - 1 ELSE EntryPoint(Min(later))

\* GetEndOfScriptOffset: the next entry point that differs, of this entity or of
\* one after it; behind the last one, the strings.
EndOfScript(e, s) ==
  LET later == {k \in NthScript(e, s) + 1 .. Len(header.scripts) * ScriptsPerEntity :
                  EntryPoint(k) # EntryPoint(NthScript(e, s))}
  IN IF later = {} THEN header.strings ELSE EntryPoint(Min(later))

\* The scripts of an entity counted from 1, as the scripts here are.
ScriptInfosFromOne(e) ==
  LET entry == header.scripts[e]
      First(s) == \A t \in 1 .. s - 1 : entry[t] # entry[s]
      kept == {s \in 1 .. ScriptsPerEntity : First(s) /\ EndOfScript(e, s) # entry[s]}
  IN {[index |-> s, entry |-> entry[s], next |-> EndOfScript(e, s),
       isStart |-> s = Min(kept), isEnd |-> s = Max(kept)] : s \in kept}

\* The scripts doDisassemble reads of an entity: the first of each entry point,
\* unless it has no bytes.
ScriptInfos(e) ==
  LET entry == header.scripts[e]
      First(s) == \A t \in 1 .. s - 1 : entry[t] # entry[s]
      kept == {s \in 1 .. ScriptsPerEntity : First(s) /\ EndOfScript(e, s) # entry[s]}
  IN {[index |-> s - 1, entry |-> entry[s], next |-> EndOfScript(e, s),
       isStart |-> s = Min(kept), isEnd |-> s = Max(kept)] : s \in kept}
-----------------------------------------------------------------------------
(* The metadata of a function: a text joined and split at underscores.     *)

NonBlank(parts) ==
  FlattenSeq([i \in DOMAIN parts |-> IF parts[i] = Blank THEN <<>> ELSE <<parts[i]>>])

\* boost::split with token_compress_on, of a text that does not begin with an
\* underscore: underscores next to each other count as one.
Tokens(parts) == NonBlank(Front(parts)) \o <<Last(parts)>>

MetaData(isStart, isEnd, id, name) ==
  (IF isStart THEN <<"start">> ELSE <<>>) \o (IF isEnd THEN <<"end">> ELSE <<>>)
  \o <<id>> \o name

\* FunctionMetaData::Parse.
ParseMetaData(parts) ==
  LET t == Tokens(parts)
      start == t[1] = "start"
      afterStart == IF start THEN 2 ELSE 1
      end == t[afterStart] = "end"
      idAt == IF end THEN afterStart + 1 ELSE afterStart
  IN [isStart |-> start, isEnd |-> end, id |-> t[idAt],
      name |-> <<t[idAt + 1]>> \o NonBlank(SubSeq(t, idAt + 2, Len(t)))]

NoId == "-1"

\* FindId: the first CHAR among the instructions of a range of addresses.
FindId(start, end) ==
  LET chars == {k \in DOMAIN insts :
                  insts[k].op = "CHAR" /\ start <= insts[k].address /\ insts[k].address <= end}
  IN IF chars = {} THEN NoId ELSE insts[Min(chars)].val

\* Without a look at the functions of the entity that came before.
OwnCharacterId(start, end, name) == FindId(start, end)

\* The id a function is given: its own, or that of the first function with one
\* that is known by the name of the entity.
CharacterId(start, end, name) ==
  LET metas == [a \in DOMAIN functions |-> ParseMetaData(functions[a].metadata)]
      known == {a \in DOMAIN functions : metas[a].name = name /\ metas[a].id # NoId}
      own == FindId(start, end)
  IN IF own # NoId \/ known = {} THEN own ELSE metas[Min(known)].id
-----------------------------------------------------------------------------
FieldInit ==
  /\ \E f \in Files : header = HeaderOf(f) /\ stream = StreamOf(f.code)
  /\ phase = "scripts"
  /\ entity = 0
  /\ scriptInfo = {}
  /\ frame = NoFrame
  /\ position = 0
  /\ exitAddrs = <<>>
  /\ insts = <<>>
  /\ functions = <<>>
  /\ entityFunctions = <<>>

\* The next round of the loop over the entities.
NextEntity ==
  /\ phase = "scripts" /\ scriptInfo = {}
  /\ IF entity < Len(header.scripts)
     THEN /\ entity' = entity + 1
          /\ scriptInfo' = ScriptInfos(entity + 1)
          /\ phase' = phase
     ELSE /\ phase' = "graph"
          /\ UNCHANGED <<entity, scriptInfo>>
  /\ UNCHANGED <<header, stream, frame, position, exitAddrs, insts, functions,
                 entityFunctions>>

FunctionName(script) ==
  CASE script = 0 -> "on_start"
    [] script = 1 -> "on_interact"
    [] OTHER -> "script_" \o ToString(script)

\* AddFunc up to its reading, StartFunction included.
Frame(script, end, isStart, isEnd, name, toReturnOnly, start) ==
  [entity |-> entity, script |-> script, end |-> end, isStart |-> isStart,
   isEnd |-> isEnd, name |-> name, toReturnOnly |-> toReturnOnly, start |-> start,
   oldNum |-> Len(insts)]

NextScript == CHOOSE s \in scriptInfo : \A t \in scriptInfo : s.index <= t.index

\* DisassembleIndivdualScript: seek to the entry point and add the function.
StartScript ==
  /\ phase = "scripts" /\ scriptInfo # {}
  /\ LET s == NextScript
         start == s.entry + kSectionPointersSize
     IN /\ position' = start
        /\ frame' = Frame(s.index, s.next + kSectionPointersSize, s.isStart, s.isEnd,
                          FunctionName(s.index), s.index = 0, start)
  /\ scriptInfo' = scriptInfo \ {NextScript}
  /\ exitAddrs' = <<>>
  /\ phase' = "read"
  /\ UNCHANGED <<header, stream, entity, insts, functions, entityFunctions>>

\* An exit address that stays when it is reached.
ExitsKept(exits, inst) ==
  IF inst.op \in CondJumpOpcodes THEN Append(exits, inst.dest) ELSE exits

\* The tracking of ifs behind the switch of ReadOpCodesToPositionOrReturn.
TrackExits(exits, inst) ==
  LET pushed == IF inst.op \in CondJumpOpcodes THEN Append(exits, inst.dest) ELSE exits
  IN IF pushed # <<>> /\ Last(pushed) = inst.address THEN Front(pushed) ELSE pushed

\* One round of the loop of ReadOpCodesToPositionOrReturn.
ReadInstruction ==
  /\ phase = "read" /\ position < frame.end
  /\ LET s == stream[position]
         inst == [op |-> s.op, address |-> position, val |-> s.val, to |-> s.to,
                  dest |-> IF IsJumpOp(s.op) THEN DestAddress(s.op, position, s.distance)
                           ELSE 0]
     IN /\ insts' = Append(insts, inst)
        /\ position' = position + s.bytes
        /\ exitAddrs' = TrackExits(exitAddrs, inst)
        /\ phase' = IF s.op = "RET" /\ exitAddrs' = <<>> THEN "returned" ELSE phase
  /\ UNCHANGED <<header, stream, entity, scriptInfo, frame, functions, entityFunctions>>

\* ReadOpCodesToPositionOrReturn has returned: at a return or at the end.
BlockRead == phase = "returned" \/ (phase = "read" /\ position >= frame.end)

\* The loop of AddFunc, which ends at the end exactly.
ReadAgain ==
  /\ BlockRead
  /\ ~frame.toReturnOnly /\ position # frame.end
  /\ exitAddrs' = <<>>
  /\ phase' = "read"
  /\ UNCHANGED <<header, stream, entity, scriptInfo, frame, position, insts, functions,
                 entityFunctions>>

\* One too few, and the difference the other way round.
AllButLastRead == Len(insts) - frame.oldNum - 1
LessRead == frame.oldNum - Len(insts)

\* mNumInstructions.
NumRead == Len(insts) - frame.oldNum

\* The rest of AddFunc.  Behind on_start the rest of script 0 becomes on_update.
AddFunction ==
  /\ BlockRead
  /\ frame.toReturnOnly \/ position = frame.end
  /\ IF insts = <<>>
     THEN /\ phase' = "undefined"
          /\ UNCHANGED <<frame, exitAddrs, functions, entityFunctions>>
     ELSE LET name == header.names[frame.entity]
              isEnd == frame.isEnd /\ position = frame.end
              end == Last(insts).address
              func == [name |-> frame.name, start |-> frame.start, end |-> end,
                       num |-> NumRead,
                       metadata |-> MetaData(frame.isStart, isEnd,
                                             CharacterId(frame.start, end, name), name)]
              known == IF frame.entity \in DOMAIN entityFunctions
                       THEN entityFunctions[frame.entity]
                       ELSE [name |-> name, funcs |-> <<>>]
              named == [known EXCEPT !.funcs = Each({frame.script}, frame.name) ++ @]
          IN /\ functions' = Each({frame.start}, func) ++ functions
             /\ entityFunctions' = Each({frame.entity}, named) ++ entityFunctions
             /\ IF frame.toReturnOnly /\ position # frame.end
                THEN /\ frame' = Frame(0, frame.end, FALSE, frame.isEnd, "on_update",
                                       FALSE, position)
                     /\ phase' = "read"
                     /\ exitAddrs' = <<>>
                ELSE /\ phase' = "scripts"
                     /\ UNCHANGED <<frame, exitAddrs>>
  /\ UNCHANGED <<header, stream, entity, scriptInfo, position, insts>>

Disassemble ==
  NextEntity \/ StartScript \/ ReadInstruction \/ ReadAgain \/ AddFunction
=============================================================================
