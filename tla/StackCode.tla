------------------------------ MODULE StackCode -----------------------------
(***************************************************************************)
(* What the instructions of the stack machines do when code is generated:  *)
(* the processInst of decompiler/instruction.cpp, scummv6/engine.cpp and   *)
(* ff7_world/ff7_world_engine.cpp, with the arguments CodeGenerator and    *)
(* Scummv6CodeGenerator collect.  The instructions are processed in their  *)
(* order, each conditional jump is that of an if, and its block is         *)
(* entered; the order in which blocks are processed, and the other lines   *)
(* of jumps, are those of CodeGenerator.                                   *)
(*                                                                         *)
(* A line is the values it prints, in their order.                         *)
(***************************************************************************)
EXTENDS StackDisassembler

VARIABLES
  stack,  \* _stack, the top last
  lines   \* the lines with values

stackVars == <<script, stream, phase, position, address, insts, it, stack, lines>>

StackCodeInit ==
  /\ (\E s \in ScummScripts : StackInit(s)) \/ (\E s \in WorldScripts : StackInit(s))
  /\ stack = <<>> /\ lines = <<>>

ClassOf(inst) == OpcodesOf(script.engine)[inst.op].class
DataOf(inst) == OpcodesOf(script.engine)[inst.op].data
-----------------------------------------------------------------------------
(* Operands.  An instruction takes them one after another: "p" pops a      *)
(* value, "l" the length of a list and then the list, "z" two values, "s"  *)
(* and "v" are a parameter, and so are "w", "j" and "i", whose case falls  *)
(* through to that of "v".                                                 *)

ReturnsValue(data) == data # <<>> /\ Head(data) = "r"

LettersOf(inst) ==
  LET class == ClassOf(inst)
      data == DataOf(inst)
  IN CASE class = "Call" -> IF ReturnsValue(data) THEN Tail(data) ELSE data
       [] class \in {"ArrayRead", "Dup", "Not", "Pop", "Write", "ArrayInc", "CondJump",
                     "AssignString"} -> <<"p">>
       [] class \in {"IndexedRead", "Binary", "ArrayWrite", "Equal", "WriteBank"} -> <<"p", "p">>
       [] class = "Sub" -> IF inst.op \in NegateOpcodes THEN <<"p">> ELSE <<"p", "p">>
       [] class = "IndexedWrite" -> <<"p", "p", "p">>
       [] class = "AssignList" -> <<"p", "l">>
       [] class = "AssignLists" -> <<"p", "l", "p">>
       [] class = "Kernel" -> [i \in 1 .. KernelPops(inst.op) |-> "p"]
       [] OTHER -> <<>>

\* The stack that is left and the arguments taken; defined unless an empty stack is
\* popped.
Taken(left, args) == [left |-> left, args |-> args, defined |-> TRUE]

\* addArg puts an argument before those that have been added.
AddArg(taken, value) == [taken EXCEPT !.args = <<value>> \o @]

PopArg(taken) ==
  IF taken.left = <<>> THEN [taken EXCEPT !.defined = FALSE]
  ELSE [AddArg(taken, Last(taken.left)) EXCEPT !.left = Front(@)]

\* createListValue: the length is the number its text begins with, or 0.
ListLength(value) == IF value.lead = NoNumber \/ value.lead[1] < 0 THEN 0 ELSE value.lead[1]
PopList(taken) ==
  LET below == Len(taken.left) - 1
      length == ListLength(Last(taken.left))
  IN IF taken.left = <<>> \/ (taken.left # <<>> /\ length > below)
     THEN [taken EXCEPT !.defined = FALSE]
     ELSE [AddArg(taken, ListValue(SubSeq(taken.left, below - length + 1, below), Last(taken.left)))
             EXCEPT !.left = SubSeq(@, 1, below - length)]

Param(inst) == IntValue(inst.val, <<>>)
ParamVar == VarValue("var", <<>>)

\* processSpecialMetadata.
Take(taken, letter, inst) ==
  CASE letter = "p" -> PopArg(taken)
    [] letter = "l" -> PopList(taken)
    [] letter = "z" -> PopArg(PopArg(taken))
    [] letter = "s" -> AddArg(taken, Param(inst))
    [] letter = "v" -> AddArg(taken, ParamVar)
    [] letter \in {"w", "j", "i"} -> AddArg(AddArg(taken, Param(inst)), ParamVar)

Operands(inst) ==
  FoldLeft(LAMBDA taken, letter : IF taken.defined THEN Take(taken, letter, inst) ELSE taken,
           Taken(stack, <<>>), LettersOf(inst))
-----------------------------------------------------------------------------
(* Results: the values pushed and the lines printed, from the operands in  *)
(* the order in which they were pushed.  The first pop of an expression    *)
(* with several may be any of them, so that the operands of a world script *)
(* are printed in either order.                                            *)

Result(pushed, printed) == [pushed |-> pushed, printed |-> printed, throws |-> FALSE]

\* DupStackInstruction: a value gets a name, unless it is a number or has one.
Dup(value, from) ==
  IF IsNumber(value) \/ IsDup(value) THEN Result(<<value, value>>, <<>>)
  ELSE Result(<<DupValue(<<from>>), DupValue(<<from>>)>>, << <<value>> >>)

\* KernelCallStackInstruction: a call without a value is popped again, and printed.
CallResult(data, args, from) ==
  IF ReturnsValue(data) THEN Result(<<[CallValue(args) EXCEPT !.from = Append(@, from)]>>, <<>>)
  ELSE Result(<<>>, <<args>>)

\* BinaryOpStackInstruction with kFIFOArgOrder, and with the other order.
BinaryLIFO(op, args) == BinaryOpValue(op, args[2], args[1])
BinaryFIFO(op, args) == BinaryOpValue(op, args[1], args[2])

\* The indices of an array are printed before the list assigned to it.
AssignArgs(args) == IF Len(args) = 2 THEN Reverse(args) ELSE <<args[1], args[3], args[2]>>

\* A conditional jump: jumpFalse negates the value, and so does the if that is printed.
Condition(op, value) == IF op = "jumpFalse" THEN Negate(Negate(value)) ELSE Negate(value)

ScummResult(inst, args, from) ==
  LET class == ClassOf(inst)
      data == DataOf(inst)
  IN CASE class = "Push" -> Result(<<IntValue(inst.val, <<from>>)>>, <<>>)
       [] class = "PushVar" -> Result(<<VarValue("var", <<from>>)>>, <<>>)
       [] class \in {"ArrayRead", "IndexedRead"} -> Result(<<ArrayValue(args)>>, <<>>)
       [] class = "Dup" -> Dup(args[1], from)
       [] class = "Not" -> Result(<<Negate(args[1])>>, <<>>)
       [] class = "Binary" -> Result(<<BinaryFIFO(data[1], args)>>, <<>>)
       [] class = "CondJump" -> Result(<<>>, << <<Condition(inst.op, args[1])>> >>)
       [] class = "Call" -> CallResult(data, args, from)
       [] class \in {"Pop", "Jump"} -> Result(<<>>, <<>>)
       [] class \in {"AssignList", "AssignLists"} -> Result(<<>>, <<AssignArgs(args)>>)
       [] class \in {"Write", "ArrayWrite", "IndexedWrite", "VarInc", "ArrayInc",
                     "AssignString"} -> Result(<<>>, <<args>>)

\* stoi of an operand that does not begin with a number.
ThrowsOn(op, args) == op \in NumberCalls /\ args[1].lead = NoNumber
Throwing == [Result(<<>>, <<>>) EXCEPT !.throws = TRUE]

WorldResults(inst, args, from) ==
  LET class == ClassOf(inst)
      op == inst.op
  IN CASE class = "Push" -> {Result(<<IntValue(inst.val, <<from>>)>>, <<>>)}
       [] class = "PushBank" -> {Result(<<VarValue("Read", <<from>>)>>, <<>>)}
       [] class = "Sub" /\ op \in NegateOpcodes -> {Result(<<Negate(args[1])>>, <<>>)}
       [] class = "Sub" /\ op \notin NegateOpcodes ->
            {Result(<<FlatValue(SubOperators[op], a[1], a[2])>>, <<>>) : a \in {args, Reverse(args)}}
       [] class = "Equal" -> {Result(<<BinaryFIFO("==", args)>>, <<>>)}
       [] class = "WriteBank" -> {Result(<<>>, <<args>>)}
       [] class = "CondJump" -> {Result(<<>>, << <<Negate(args[1])>> >>)}
       [] class = "Kernel" /\ ThrowsOn(op, args) -> {Throwing}
       [] class = "Kernel" /\ ~ThrowsOn(op, args) ->
            {Result(<<>>, <<a>>) : a \in {args, Reverse(args)}}
       [] class \in {"NoOutput", "Jump"} -> {Result(<<>>, <<>>)}

Results(inst, args, from) ==
  IF IsScumm THEN {ScummResult(inst, args, from)} ELSE WorldResults(inst, args, from)
-----------------------------------------------------------------------------
ProcessInst ==
  /\ phase = "process" /\ it < Len(insts)
  /\ UNCHANGED <<script, stream, position, address, insts>>
  /\ LET inst == insts[it + 1]
         taken == Operands(inst)
     IN IF ~taken.defined THEN phase' = "undefined" /\ UNCHANGED <<it, stack, lines>>
        ELSE \E result \in Results(inst, taken.args, it + 1) :
               IF result.throws THEN phase' = "failed" /\ UNCHANGED <<it, stack, lines>>
               ELSE /\ stack' = taken.left \o result.pushed
                    /\ lines' = lines \o result.printed
                    /\ it' = it + 1 /\ UNCHANGED phase

EndProcess ==
  /\ phase = "process" /\ it = Len(insts)
  /\ phase' = "done"
  /\ UNCHANGED <<script, stream, position, address, insts, it, stack, lines>>

StackCodeNext == (Disassemble /\ UNCHANGED <<stack, lines>>) \/ ProcessInst \/ EndProcess

StackCodeSpec == StackCodeInit /\ [][StackCodeNext]_stackVars
-----------------------------------------------------------------------------
(* Properties.                                                             *)

Disassembled == phase \in {"process", "done"}
Printed == FlattenSeq(lines) \o stack

\* Where a seek has taken the position off the instructions.
Strayed == IsScumm /\ \E k \in DOMAIN insts : k \in DOMAIN script.code /\ Seeks(script.code[k])

\* The longest list whose stack effect has 16 bits, whatever else is taken.
LongestList == \h7fe0

\* Counters stay in their ranges, values are well formed, and after the disassembly no
\* stack effect is still a mark that has to be taken apart, nor looks like one unless a
\* number that is no length of a list, a distance back among them, has made it so large
\* (scummv6/disassembler.cpp:439); the default of pickOneOf is not marked as one.
ScriptTypeOK ==
  /\ phase \in {"header", "read", "string", "fix", "process", "done", "failed", "undefined"}
  /\ position \in 0 .. StreamEnd(script) + 2 /\ address \in Nat
  /\ it \in 0 .. Len(insts)
  /\ \A k \in DOMAIN insts :
       /\ insts[k].op \in DOMAIN OpcodesOf(script.engine)
       /\ IsScumm /\ Disassembled =>
            insts[k].change < \h1000 \/ \E j \in 1 .. k - 1 : insts[j].val \notin 0 .. LongestList
  /\ \A i \in DOMAIN Printed : Printed[i].prec \in 0 .. 11 /\ Len(Printed[i].text) > 0

\* The code that is to be read: that of a world script ends with its first return.
Returns(s) == {i \in DOMAIN s.code : s.engine = "world" /\ s.code[i].op = \h203}
CodeToRead(s) ==
  IF s.engine = "scumm" THEN s.code
  ELSE SubSeq(s.code, 1, CHOOSE i \in Returns(s) : \A j \in Returns(s) : i <= j)

Unreadable(s) ==
  \/ s.engine = "scumm" /\ s.block \notin KnownBlocks
  \/ \E i \in DOMAIN CodeToRead(s) : s.code[i].op \notin DOMAIN OpcodesOf(s.engine)
  \/ s.engine = "world" /\ CodeToRead(s) = s.code /\ ~s.behind

\* A global or room script that begins an override: the seek of beginOverride leads into
\* the name of its block, which is no opcode.
CutOff(s) ==
  /\ s.engine = "scumm" /\ s.block \notin DOMAIN NameOpcode
  /\ \E i \in DOMAIN s.code : s.code[i].op = "beginOverride"
  /\ \A i \in DOMAIN s.code : ~Sounds(s.code[i])

\* As long as no seek has taken the position elsewhere, a script is read as it is in the
\* file, up to its end or its first return, wherever in the file it lies; only a block or
\* an opcode that is not known, a return with no word behind it, or such a seek ends the
\* program before; and a global or room script with a beginOverride is never read to its
\* end, although the comment there has only its jump skipped
\* (scummv6/disassembler.cpp:37, 173, ff7_world/ff7_world_disassembler.cpp:81).
ScriptsReadWhole ==
  /\ Disassembled /\ ~Strayed =>
       /\ Len(insts) = Len(CodeToRead(script))
       /\ \A k \in DOMAIN insts :
            /\ insts[k].op = script.code[k].op
            /\ OpcodesOf(script.engine)[insts[k].op].params # <<"a">> =>
                 insts[k].val = script.code[k].val
  /\ phase = "failed" /\ it = 0 => Unreadable(script) \/ Strayed
  /\ Disassembled => ~CutOff(script)

\* A jump leads to the address of the instruction it leads to in the file: the addresses,
\* counted separately from the position in the stream, stay those of the instructions
\* behind strings and their escapes (scummv6/disassembler.cpp:463), and addresses of
\* words agree with jumps in words (ff7_world/ff7_world_disassembler.cpp:223).  Left out
\* are the scripts with a sound or a beginOverride: behind their seeks to byte 14 and 3
\* the addresses are not those of the instructions any more.
JumpsHitInstructions ==
  Disassembled /\ ~Strayed =>
    \A k \in DOMAIN insts :
      insts[k].dest # NoDest /\ script.code[k].to \in DOMAIN insts =>
        insts[k].dest = insts[script.code[k].to].address

\* A list whose length is a number pushed just before the call, or before the one value
\* above it, and no negative one, by which createListValue takes no value but the stack
\* effect counts some, nor one too large for the effect.  The effects of two opcodes are
\* wrong in the table itself.
WrongEffects == {"pickOneOfDefault", "arrayOps.assign2DimList"}
PlainLoads == {"Push", "PushVar"}
LengthsPushed ==
  \A k \in DOMAIN insts :
    /\ insts[k].op \notin WrongEffects
    /\ LET change == ScummOpcodeTable[insts[k].op].change
           above == Nibble(change, \h100)
       IN change >= \h1000 =>
            /\ k > above + 1 /\ ClassOf(insts[k - above - 1]) = "Push"
            /\ insts[k - above - 1].val \in 0 .. LongestList
            /\ \A j \in k - above .. k - 1 : ClassOf(insts[j]) \in PlainLoads

Level == FoldLeft(LAMBDA n, inst : n + inst.change, 0, SubSeq(insts, 1, it))

\* The stack effects by which ControlFlow counts stack levels add up to the number of
\* values on the stack, for every opcode and for lists of any length
\* (scummv6/disassembler.cpp:445, the tables from line 65 on, and the processInst of each).
LevelsTracked ==
  IsScumm /\ Disassembled /\ LengthsPushed => Level = Len(stack)

\* Each value prints so that it reads, with the precedence of C, as what it stands for, up
\* to how operations of one level associate; a negated comparison stands for the opposite
\* one (value.cpp:193, 212).  The texts of world scripts are put together without
\* parentheses and are left out.
ValuesReadBack ==
  IsScumm => \A i \in DOMAIN Printed : Reads(Printed[i].text) = Printed[i].means

Ascending(s) == \A i \in 1 .. Len(s) - 1 : s[i] <= s[i + 1]
Pushes == {k \in 1 .. it : ClassOf(insts[k]) \in {"Push", "PushVar", "PushBank"}}
AssignsLists == \E k \in DOMAIN insts : ClassOf(insts[k]) \in {"AssignList", "AssignLists"}
Drops == \E k \in 1 .. it : ClassOf(insts[k]) = "Pop"

\* No value is lost or printed in a place that is not its own: in SCUMM scripts the
\* operands of an expression, a list, a call or a line have the order in which they were
\* pushed, and what is on the stack is newer than what is below; in world scripts every
\* value is in one place only.  Only the pop opcode drops values
\* (instruction.cpp:125, 150, decompiler_codegen.cpp:434, scummv6/codegen.cpp:35).
OperandsInOrder ==
  /\ IsScumm /\ ~AssignsLists =>
       /\ Ascending(FromAll(stack))
       /\ \A i \in DOMAIN lines : Ascending(FromAll(lines[i]))
  /\ ~IsScumm => IsInjective(FromAll(Printed))
  /\ Disassembled /\ ~Drops => Pushes \subseteq ToSet(FromAll(Printed))
=============================================================================
