# A verification of SUDM in TLA+

SUDM (`src/`) decompiles stack-machine bytecode: SCUMM v6 scripts, and the
field and world scripts of Final Fantasy VII. This directory holds TLA+
modules that model its core, TLC configurations that check them on small
instances, and TLAPS proofs for the general case.

## The system

The decompiler is one sequential program. Nothing runs concurrently and
nothing is persisted; what makes it hard is that its passes rewrite one
shared structure, the graph of groups, in an order each of them relies on, on
input (jump targets, stack effects) that can be anything.

| Component | Source | State | Operations |
|---|---|---|---|
| Drivers | `decompiler.cpp`, `sudm.cpp`, `objectFactory.h` | options | run the passes in order |
| Generic disassembler | `decompiler_disassembler.*`, `simple_disassembler.*` | stream, `_address`, `_insts` | `disassemble`, `readParams`, `dumpDisassembly` |
| SCUMM v6 | `scummv6/` | as above; the call stack of values | opcode table, `fixStackEffect`, `processInst`, metadata of functions |
| FF7 field disassembler | `ff7_field/ff7_field_disassembler.*` | header, position, `_engine->_functions`, entity names | cuts scripts of entities into functions, `AddFunc`, `FindId` |
| FF7 field engine, codegen | `ff7_field/ff7_field_engine.*`, `ff7_field_codegen.*` | functions with metadata, lines | `processInst` of each opcode, labels, entity classes |
| FF7 world | `ff7_world/` | value stack, instructions | as above, for the world map |
| Code flow graph | `control_flow.cpp:37-142`, `graph.h` | vertices, edges, `_addrMap`, groups with `_prev`, `_next`, `_start`, `_end` | constructor, `find`, `merge` |
| Grouping | `control_flow.cpp:144-262` | `_stackLevel` of groups, the sweep's position | `setStackLevel`, `createGroups` |
| Construct detection | `control_flow.cpp:298-534` | `_type`, `_startElse`, `_endElse` of groups | `analyze`: six detectors, two validations |
| Code generator | `decompiler_codegen.*`, `stack.h` | value stack, current group, `_indentLevel`, lines of each group | `generate`, `process`, `addOutputLine` |
| Instructions, values | `instruction.*`, `value.*` | expression trees | `processInst`, `negate`, `print` with precedences |
| LZS, reader | `common/lzs.h`, `common/binaryreader.h` | output buffer, ring position | `Decompress` |
| Reference counts | `refcounted.h` | a count per object | intrusive pointers of `GroupPtr`, `InstPtr`, `ValuePtr` |
| Graph output, utilities | `graph.cpp`, `common/` | none | formatting, strings |

How they interact. The driver asks the `Engine` for a `Disassembler`, which
fills the `InstVec` (sorted by address) and the `FuncMap` of the engine.
`ControlFlow`'s constructor makes one vertex and one `Group` for each
instruction and copies the vertex of each entry point into its `Function`.
`createGroups` merges vertices; `analyze` flags groups. The code generator
walks the graph from the entry points, calls `processInst` of each
instruction (which pushes and pops values, and calls back into the generator
for lines, arguments and metadata), and prints the groups of each function
along `_next`. All of them share the groups by pointer. SUDM's own entry point
(`sudm.cpp`) leaves `analyze` out: field scripts are printed as labels and
gotos.

What is hard to test, and what makes each part correct, is listed as
"hazards" in PROJECT.json, each at its line.

## Modules

| Module | Models |
|---|---|
| `FlowGraph` | instructions as the analysis sees them, the graph the constructor builds, `merge` |
| `Grouping` | `setStackLevel` and `createGroups`, one action for each way a turn of their loops can go |
| `BasicBlocks` | what grouping promises: blocks are only ever joined with the one block that must follow |
| `ControlFlow` | the whole of `ControlFlow`: `Grouping`, then `analyze` |
| `CodeGenerator` | the whole pipeline behind the disassembler: `ControlFlow`, then `CodeGenerator::generate` |
| `StructuredPrograms` | structured programs, the code a compiler makes of them, and what the decompiler has to find and print |
| `MCGrouping`, `MCControlFlow`, `MCStructured`, `MCCodeGenerator` | programs for TLC; `MCStructured` also states the round trip |
| `SimpleDisassembler` | the parameter formats all disassemblers read by |
| `FieldOpcodes`, `FieldHandlers` | the tables of field scripts: the parameters of each opcode, and which of them its handler prints, with which bank |
| `FieldDisassembler` | `FF7Disassembler`: entities, ends of scripts, `AddFunc`, on_start and on_update, character ids |
| `FieldCode` | `SUDM::FF7::Field::Decompile`: the disassembler, then `FF7SimpleCodeGenerator::generate`, requests, `GetEntities` |
| `ScummOpcodes`, `WorldOpcodes` | the tables of the stack machines: parameters, stack effects, metadata, operands |
| `Values` | values of the stack, `negate`, `print` with precedences; and a reader of expressions to compare it with |
| `StackDisassembler` | both stack machines' `doDisassemble`, `readParameter`, `fixStackEffect` |
| `StackCode` | `StackDisassembler`, then `processInst` of every instruction with the stack of values |
| `Lzs` | `Lzs::Decompress` |
| `RingWindow` | what it promises: a decoder with a ring buffer |
| `MCField`, `MCStackCode`, `MCLzs` | files and scripts for TLC |
| `Grouping_proofs`, `ControlFlow_proofs`, `CodeGenerator_proofs`, `FieldCode_proofs`, `StackCode_proofs`, `Lzs_proofs` | theorems about the module of that name |
| `Induction_proofs`, `SimpleDisassembler_proofs` | lemmas on recursive definitions, on joined sequences, and on the folds that lay out the tables |

`CodeGenerator` extends `ControlFlow`, which extends `Grouping`, which extends
`FlowGraph`: each pass starts from what the one before it has left. An
instruction is its position in the `InstVec` (the vector is sorted, and no code
asks for the distance of addresses); a vertex and its group are the position of
their first instruction, which no pass changes. `prev` and `next` are `_prev`
and `_next` of groups, `gend` is `_end`, `addrMap` is `_addrMap`; edges are a
set because the graph stores them in a `setS`. An instruction is what the
analysis asks of it: a kind (`isCondJump`, `isUncondJump`, `isReturn`,
`isStackOp`; no class answers two of them), `_stackChange` and
`getDestAddress`; for the generator a program also says which instructions add
a line and how many values each pops. A value of `Programs` is thus an abstract
`InstVec` with the keys of its `FuncMap`.

* `StartFunction`, `VisitVertex`, `RevisitVertex`, `LevelsAssigned` are the turns
  of `setStackLevel`'s worklist. The out-edges of a vertex are sorted by the
  addresses of heap objects, so `VisitVertex` lets them come in any order.
* `SkipUnreachable`, `EndGroup`, `EndStatement`, `MergeNext`, `SweepDone` are the
  turns of the sweep in `createGroups`: the two `continue`s of the loop, the two
  ends of a group and the merge. The bodies of the two `do` loops that leave out the last
  instruction of a group (`LoopRange`) are modelled as they are.
* Each of the first five detectors of `analyze` is one step: what it decides for
  a vertex reads only flags other detectors set and the constant graph.
  `detectElse` reads what it has written and takes a step per vertex.
* A jump to an address without an instruction makes `find` dereference `end()`:
  `phase = "undefined"`. An if without a jump target above 0, or whose target
  is the first group, makes `detectElse` use an uninitialized or null pointer:
  `pass = "undefined"`. Both are final.
* `StartFunctionCode`, `ProcessGroup`, `EndFunctionCode`, `PrintGroup` and
  `FunctionPrinted` are the loops of `generatePass`. A line of code is a word
  for what it does (`if`, `else`, `end`, ...) and its two indentation flags; a stack of
  values is its depth. `ProcessGroup` is one iteration of the depth-first
  pass: `process` for one group (`Before`, `CodeOf`, `ElseEnds`) and the push of
  its successors. The value stack a group leaves is computed from the one it was entered
  with (`Depths`); if one of its instructions pops an empty stack, `PopEmptyStack` is taken instead,
  and `gen = "undefined"`. `IndentationFails` is the failing `assert`. `CMakeLists.txt:20` builds Release
  by default, with `NDEBUG`: there the level, a `uint`, wraps below zero instead, and the
  next line asks for a string of four thousand million blanks and more.
* `AllocationsAscend` chooses between heap addresses that ascend with the
  vertices, as they do when the program has freed little before, and any order.

Field scripts (`FieldDisassembler`, `FieldCode`). A file is its instructions, its entry points and the
names of its entities; where each instruction lies follows from the sizes in `FieldOpcodes`. `NextEntity`, `StartScript`,
`ReadInstruction`, `ReadAgain` and `AddFunction` are the loops of `doDisassemble`, `AddFunc`
and `ReadOpCodesToPositionOrReturn`; `GenerateFunction` is one turn of the loop of `generate`, which
deals the instructions out to the functions by their number alone. The flow graph made in between is
not used by that generator; `BuildGraph` only says when its construction is defined. What the caller's
`IScriptFormatter` makes of names is left out, and so are the wording of lines and the bytes of the header.

Stack machines (`StackDisassembler`, `StackCode`). A script is its instructions with the targets of
its jumps; `StreamOf` lays it out in bytes, and the position in that stream and
`_address` are counted separately, as the code does. `beginOverride` and a sound in a string seek
to byte 3 and byte 14 of the file and read on there. What the bytes at places where no instruction begins
are read as is part of the script: `elsewhere` has the opcodes, `tail` the string from byte 14 on (`ReadString`). The name
of the block at byte 3 is not free: only `LSCR` and `VERB` end with an opcode (`NameOpcode`). A script may be
read again and again, with other addresses each time, until the memory is full; `Rereads` bounds how far
that is followed. `FixStackEffect` is one turn of the
loop behind the last opcode; where it walks past the first instruction or takes a
parameter that is not there, `phase = "undefined"`, and where that parameter is a string, it throws. The distance of
a jump is a number like any other there, and the effect has 16 bits (`Int16`). `ProcessInst` is `CodeGenerator::processInst`: `Operands` pops
what the class or the metadata asks for, `Results` what is pushed and printed. The instructions are
processed in their order and each conditional jump as the condition of an if; in which order blocks
are processed is the subject of `CodeGenerator`. World scripts build texts from two `pop`s of one
expression, whose order C++ does not fix: the model takes both. A value is
its text as a sequence of words; `from` and `means` are history, for the properties.

LZS (`Lzs`). A byte has two nibbles of `Nibble` values, 16 in the source, and every other number of
the format follows from that; `CopyByte` is one turn of the inner loop. A read behind the input is
`phase = "undefined"`, a wrong header `"aborted"`.

Left out: `detectShortCircuit` (never called); the early return of a second
`createGroups` (the drivers call it once); an empty `InstVec`
(`decompiler.cpp:160` stops before it); the text of lines, and with it
`writeFunctionCall`; the label pass, which adds no line; the footer of an endless do-while
(`decompiler_codegen.cpp:304`), which needs a do-while condition that ends with an
unconditional jump, and conditions have two out-edges.

## Runs

| Run | Instance | Shows |
|---|---|---|
| `grouping` | every program of up to 4 instructions (10 to 13 different ones at each place: three ops, a stack operation, a return, jumps and branches to anywhere) with one function; of up to 3 with any set of separate functions; every sequence of 6 of: push, keep, pop, branch to one of two places | `GroupsTile`, `FlowPreserved`, `EntriesAlive`, `UnreachableUngrouped`, `LevelsExact`, `GroupsAreStatements`, that grouping implements `BasicBlocks`, and that it ends |
| `analysis` | arbitrary control flow of up to 3 instructions, unknown targets included; every program of 5 with forward jumps; every program of 7 whose jumps go forward over an instruction or more | where the analysis is undefined; an else block that begins in one recorded before it ends there; flags are set once; termination |
| `round_trip` | nestings of if, if-else, while, do-while, break, continue up to depth 3, pairs of statements, loops over pairs, and gotos out of two loops, compiled as the test scripts are | `analyze` recovers each condition, break, continue and else of the source, and the generator prints the source |
| `code_generation` | 4 slots of two instructions (act, return, jump or branch to any slot); 5 slots with forward jumps; two functions with any jumps between them; slots that pop more than they push; paths of different depths | braces match; every reachable statement is printed once; groups get the stack of a path; termination |
| `field` | every main script of 3 instructions and a return (an operation, a return, ifs and jumps to anywhere) and of 4 with ifs; two entities with three scripts each, entry points in order over six instructions or in any order over four; calls of scripts by every request; a field for each opcode | `BodiesMatch`, `OnStartEndsAtReturnApart`, `OperandsPaired`, `BlocksMatch`, `CharacterIdsKept`, `RequestsNameScripts`, and that decompilation ends |
| `scripts` | each opcode of both machines behind 0 to 6 values; lists of 0 to 3 of up to 4 values, their length pushed, computed or behind other values; every expression of three operands with eight operators and any nots; jumps over strings with up to two of each escape in every block; overrides in every block, behind which the header is an opcode or none and leads back to the code, into it or nowhere; sounds with strings from byte 14 on that end before, in, at the end of and behind the string, and never; world scripts that jump anywhere, with and without a word behind them | `ScriptTypeOK`, `ScriptsReadWhole`, `JumpsHitInstructions`, `LevelsTracked`, `ValuesReadBack`, `OperandsInOrder` |
| `lzs` | `Nibble = 2`: texts of up to 6 items, references to every place, of which some fill the buffer and run over it; every file of up to 4 bytes; a wrong header | `LzsTypeOK`, and that `Lzs` implements `RingWindow`, its end included |

Why the bounds are enough: a merge is decided by two neighbouring groups, their
edges and their levels. Four instructions allow a merged group of three, a jump
into its middle, a back edge and unreachable code at once; a third neighbour
only repeats a case. Two else blocks that cross need two ifs, two skipping
jumps, a group in both blocks and one behind each end: seven instructions, as `else_nesting`
shows, whose jumps all skip something. Depth
three has every construct inside every other, inside every third. An override comes back to itself after
three to six more instructions, which `Rereads = 6` allows; a further round only adds to the addresses.

What the properties leave out, because the code gives no more:

* `IndentationBalanced` is about programs without dead code, without a group
  that branches to itself, and without jumps between functions. Dead code keeps its flags but
  prints nothing, so that an else may lose its if or its end. A do-while whose body is its condition is taken for an if
  (`detectDoWhile` asks for a target strictly before the condition), which its own edge then closes.
* `SourceRecovered` is about programs whose code can all be reached and in which
  no jump from before a loop goes where a break or a continue of it would: see `loop_jumps`. It
  is checked with `AllocationsAscend`. In another order of addresses,
  `if (a) {x} do {y} while (b)` prints `do {` before the `}` of the if; the braces
  still match (`code_generation` checks that with every order).
* `ElsesRecovered` and `SourceRecovered` are not about programs with gotos, which
  `detectElse` cannot tell from the jump over an else; `LoopJumpsSound` is, but for a
  goto out of two loops of different kinds: `validateBreakOrContinue` asks of loops of the
  other kind only that they do not reach in from outside, and so takes it for a break or a
  continue of the outer loop.
* `StackFollowsPath` says nothing of conditional jumps that leave the stack as it is: the generator
  pops a condition for each of them. It, `AnalysisDefined` and `GroupsAreStatements` are about
  `FunctionsSeparate`: a group that runs on into the next function takes the stack of the function before it
  along, and a merge across that border can remove the last out-edge of a conditional jump.
  `GroupsAreStatements` moreover has a function begin with the first instruction, from which the sweep
  starts with an empty stack whatever the paths say.
* The properties of `FieldCode` but two are about fields whose entry points ascend (`Ordered`): the end of a
  script is the next different entry point, and one that lies before it makes the size of the script an
  unsigned number below zero. `OnStartEndsAtReturnApart` is about ifs no two of which exit to one place or across one
  another (`ExitsApart`); see `field_exits` for the others. `BlocksMatch` is about functions whose ifs nest and exit in
  the function: an end is printed where an if exits, and only there. `CharacterIdsKept` is about names without
  empty parts, which do not survive `FunctionMetaData`.
* `OperandsPaired` leaves `BATTLE` out, whose handler takes its two nibbles for the
  bank and the battle (`ff7_field_engine.cpp:625`) and never prints the word behind them.
* `ScriptsReadWhole` says what a script is read as until a seek leads elsewhere (`Strayed`), and `JumpsHitInstructions` where
  jumps lead in scripts without such seeks. Behind a seek neither holds: a sound reads instructions again, or passes over
  some, with addresses that go on from where they were. What does hold there is in `ScriptTypeOK`, and in the last clause of
  `ScriptsReadWhole`: a global or room script with a `beginOverride` and no sound is never disassembled (`CutOff`), because byte 3
  is the `P` of `SCRP` or the `D` of `ENCD` and `EXCD`, which are no opcodes.
* `ScriptTypeOK` lets a stack effect look like a mark where a number before it is no length of a list:
  a length far below zero or above `\h7fe0`, or the distance of a jump back, which `fixStackEffect` takes for one.
* `LevelsTracked` is about lists whose length is a number pushed in front of the call, from 0 to `\h7fe0` (`LongestList`; the effect has 16 bits), which is what
  `fixStackEffect` assumes: it takes the first parameter of whatever instruction it finds. The table itself
  is wrong for `arrayOps.assign2DimList`, which pops one value more than its effect says, and for
  `pickOneOfDefault`, whose effect `0x111` lacks a digit and is taken for 273.
* `ValuesReadBack` compares texts up to how operations of one level associate: `a - (b - c)` is printed as
  `a - b - c`. The world scripts are left out: `FF7SubStackInstruction` joins
  texts without parentheses, so that `!` before an operation negates its first operand only.
* `OperandsInOrder` asks of world scripts only that each value is in one place, because the two `pop`s of an
  expression may be evaluated in either order: `Write(897-1)` in the header of
  `ff7_world_disassembler.cpp:40` is what one of them gives.
* `DecodesRing` is about files without a reference to the byte a whole window back: at distance 0 the
  buffer has a fresh zero and the ring the byte written 4096 bytes before. A reference of 18 bytes begins right
  behind the place to be written, so that no encoder which looks for matches in the window makes one.

Each conditional jump of a stack machine is checked as an if, each jump of a field script as a goto or the
end of an if, because these are what their generators print.

The runs that find a violation state what the documentation or an assertion says:

* `loop_jumps`: "the jump is verified to go to the appropriate loop"
  (`cfg.tex`). A jump over an else that ends with a loop targets the first
  group after that loop and is reported as a break of it, from outside; a jump over an
  else that a while follows is reported as a continue of that while.
  `LoopJumpsSound` is the weaker statement that holds: no other jump is.
* `assertion`: `assert(_indentLevel > 0)` of `generatePass`. If the if of an if-else is
  dead code, but a jump leads into its else, the `} else {` is printed without the `if`.
* `else_nesting`: "this block is then validated to not cross block
  boundaries" (`cfg.tex`). `validateElseBlock` refuses an else block in which an else
  that was recorded earlier, and starts before it, ends. The outer of two ifs is recorded first, so
  an inner else that starts before the block of the outer else and ends in it is not
  refused, nor do the edges show it where the groups are single jumps. `ElseEndsKept` is the
  direction that holds.
* `field_exits`: "Only bail if its the first RET that isn't within an "if" block"
  (`ff7_field_disassembler.cpp:710`). An exit is taken off the list only when it is the last one, once for each
  instruction, and after the instruction's own has been pushed: two ifs that exit to one place, or an if at the exit of another,
  leave one for good, and on_start goes on to the end of the script.
* `level_warning`: differing stack levels of two paths are to be warned of. `seen`
  drops an instruction when it is put on the worklist, so that only paths from
  different functions are ever compared.

Other places where the documentation and the code differ, which the models
follow the code in: a group ends after a jump and not before the next one
(`cfg.tex:35`, `control_flow.cpp:216`); the search for an instruction with
a non-negative effect leaves out the last of the group (`cfg.tex:38`,
`control_flow.cpp:242`); `Function::_v` is the vertex of the entry point (`engine.tex:63`)
only as long as functions do not run into each other, which `FunctionsSeparate` says
and the constructor does not check.

Further ones, in the parts added later. A comment says `beginOverride` skips the jump behind it
(`scummv6/disassembler.cpp:173`); `Seek(3)` goes to byte 3 of the file, and `Seek(14)` behind a sound to
byte 14 (`:502`), as `BinaryReader::Seek` is absolute. So most scripts with an override end with an unknown opcode, which is what the
clause with `CutOff` of `ScriptsReadWhole` says: it states what the code does and not the comment. `w`, `j` and `i` add their argument twice, for want of a
`break` (`scummv6/codegen.cpp:259`). `value.h:145` says of `precedence` the opposite of what `value.cpp:194` does
with it. Shift right of world scripts is printed as `<<` (`ff7_world_engine.cpp:108`); what the disassembler
calls `and` and `logicand` is printed the other way round (`&&`, `&`), and so for `or`. `stoi` throws for the
chocobo, submarine and progress calls when their operand is not a number
(`ff7_world_engine.cpp:318`). A world file that ends with its return cannot be read, because the word behind it is asked for
(`ff7_world_disassembler.cpp:81`); a jump to what follows the first return leads to no instruction.

Fairness: the program is sequential and never blocks, so weak fairness of the
whole next-state relation is all that is assumed: it keeps running. Deadlock
checking is off in every run, because the program really stops when it is done
(or has left defined behaviour); that it does not stop before is
what `GroupingTerminates`, `AnalysisTerminates`, `GenerationTerminates`, `DecompileEnds` and `DecodesRing` say.
`StackCodeSpec` has no fairness, as its run checks invariants only.

## Proofs

TLAPS proves the following for every value of the constants: for the flow graph, every set of programs
of any length, with any kind, stack effect and destination of each instruction (`ProgramsAssumption` and
`CodeGeneratorAssumption` only say what a program is); for fields every file with instructions of the table,
any entry points and any jumps (`FieldAssumption`); for the stack machines every script of either engine,
in any block and at any place, whatever its seeks lead to (`ScriptsAssumption`); for LZS every size of a nibble and every file.

Groups (`Grouping_proofs`).

* `GroupingTypeCorrect`, `GroupsAlwaysTile`. The invariant is `GroupingInv`: the types,
  `GroupsTile`, and `Frontier`, which says what a merge needs and neither of
  the others gives: during the sweep every group behind the current position is
  still a single instruction. Without it, merging could
  swallow a group whose address map `merge` does not update in full (the loop
  leaves out the last instruction of a longer group); with it the second
  group of a merge always is one instruction, for which the loop is right.
* `GroupingPreservesFlow`: under `FunctionsSeparate`, group edges are the flow edges
  that leave a last instruction. A single induction step, `MergeFlow`, shows that
  the guard `Cardinality(Predecessors(Nxt)) # 1`, together with there being no
  edge out of the first group but the one to its neighbour, leaves nothing else to
  lose.
* `EntriesStayAlive`: under `FunctionsSeparate`, no merge removes the vertex of an entry point.
* `GroupingFormsBasicBlocks`: `Grouping` implements `BasicBlocks` under the refinement
  mapping `Blocks`; every merge is a `Join`, every other step a stutter. The assumption
  that functions are separate is needed: without it an entry point that one jump, or none, leads to
  is merged into the function before it.

Stack levels (`Grouping_proofs`). `PathLevels` is the set of levels a path of at most `Size` steps arrives
with; `PathsKept` shows that longer paths reach no further instruction, because the set of instructions
reached stops growing (`ChainCloses`), and `PathsClosed` that, where levels agree, they bring no further level.

* `UnreachableStaysUngrouped`, from `LevelsReached`: a level is only ever set, or queued, for an instruction on a
  path, and a group without a level is one instruction that no merge touches.
* `LevelsAreExact`, from `LevelsFound`: while levels are assigned, what has one or is queued lies on a path with that
  level, and every successor of an instruction with a level has one or is queued. The second half is what
  makes the end of the worklist the end of the search; `seen`, which the code asks instead, is
  in between.
* `GroupsStayStatements`, from `SweepLevels` (the sweep's running `stackLevel` is that of the paths, and the level of
  a group is the lowest in it) and `StatementsSettled` (each place the sweep has passed is decided, and no later merge
  decides it again).

Analysis (`ControlFlow_proofs`).

* `TypeCorrect`, `FlagsAreFinal`, from `Inv`: the types, `GroupingInv`, and
  that nothing is flagged before grouping is over.
* `UndefinedOnlyThere`, from `UndefinedExcused`: every group flagged as an if ends with a conditional jump, whose
  edges grouping has preserved, so that `detectElse` finds a jump target, and a group before it.
* `ElsesEndInside`: what `validateElseBlock` refuses, over the chain of `_next`, whose vertices have no group between them
  that it could miss.

Generator (`CodeGenerator_proofs`).

* `GenTypeCorrect`, from `GenInv`: the types; nothing but the beginning of a function happens before the analysis is done.
* `StackAlwaysFollowsPath`, from `StackTracked`. An induction over the length of paths would not do, because the generator
  takes a group as a whole: the depth a vertex is pushed with is that of a path no longer than
  the instructions of the groups processed so far, no group is processed twice, and so no path gets longer than the
  program, which is as far as `PathLevels` looks.
* `StatementsAlwaysPrintedOnce`, from `PrintInv`, which relates what is printed to what is generated (`CodeFollows`): of the
  groups a path reaches, those before the current function are generated and printed; of the current function, those that were
  found and no longer wait are generated, those in front of `printing` are printed, and what lies behind has no statements yet.
  It rests on three facts. A group gets a line for each instruction that prints one, and an else that its `if` takes over,
  whose code is replaced, has none to lose (`CodeCount`). The search finds all of a function (`AllFound`): a set that contains the
  entry points and is closed under the edges contains the group of every instruction a path reaches (`ReachedInside`). And walking
  `_next` meets the groups in the order of their addresses (`BeforeNext`). It needs functions that share no edges
  (`FunctionsClosed`) and nothing of the levels, constructs or orders of edges.

Fields (`FieldCode_proofs`).

* `FieldTypeCorrect`, from `FieldInv`, which holds whatever the order of the entry points is: entry points, ends of scripts and
  the position are places of the layout (`LaidOut`: each instruction ends where the next begins, the last one where the
  strings do), so that reading at a position before the end of a script reads an instruction, and goes to the next place.
* `BodiesAlwaysMatch`, from `OrderInv`: the instructions read so far ascend in address; the scripts still to come
  begin where the one that is read ends, or behind it (`ScriptsAhead`); and each function that is known has got the instructions
  from its start to its end, with as many in front of it as were dealt to the functions before (`FunctionsDealt`). The last
  part is about every function while others are still to come, which is what the first loop of `generate` relies on
  in the end. `MapThenSumSet` adds up a set by picking an element at a time; that the sum of a set grows by what is added to it, whichever
  elements are picked (`TotalAdds`), is proved by induction over the size of the set (`SumRemoves`).
* `OnStartAlwaysEndsAtReturn`, from `StartInv`: while `on_start` is read, the exit addresses that are tracked are exactly those
  of the ifs read before that have not been reached (`TracksExits`), in falling order, and no free return lies behind
  (`ExitsGoOn`); so a return with none left is the first free one, and without one the last instruction before the end
  of the script is the last that was read (`LastRead`). An if exits behind itself because its distance is unsigned
  and counted from its last parameter, and that is where `ParamsSize` puts it for each if (`OperandsLie`,
  `IfsGoWhereStored`). What is known of one `on_start` stays known while the later scripts are read (`OnStartsEnd`).
* `RequestsAlwaysNameScripts`: a request is printed only with the name that the function it starts was given, from `NameInv` (what
  names are known and what functions have got them, entity by entity) and `LineInv` (every line printed so far is one of an instruction of the
  function whose code it is). Lines are joined by `FlattenSeq`, of which the proof needs only whose members the result has (`FlattenType`).
* `CharacterIdsAlwaysKept`, from `IdInv`: every `CHAR` read so far names a character by a text that is no mark of the metadata, so that a name without
  empty parts and an id come out of `ParseMetaData` as they went into `MetaData` (`MetaParsed`, by induction over the parts, `NonBlankAll`); and of the
  functions known so far those behind one with a character have one (`IdsFollow`). A function that is added lies behind all others of an ordered
  field (`FunctionsDealt`), and the search of `AddFunc` finds the first with the name if any has (`IdChosen`).
* `BlocksAlwaysMatch`, in three steps. What lines leave open follows line by line (`Leads`, and `LeadsFold` for the fold of the property).
  Within a function, behind its i-th instruction the ifs that are open are those not yet exited, in the order in which they were opened and on top of what was open before
  (`IfsTo`): as they nest, the ends printed ahead of an instruction close exactly those on top (`LabelsLead`), and behind the last instruction
  none is left (`BodyLeads`), for no if exits backwards (`IfsForward`). Function by function, `ClassInv` says that the marks `start` and `end` in the metadata
  alternate in the order of the addresses (`Linked`): the first script read of an entity opens its class, and the last function of the last script closes it,
  also when `on_update` is split off (`FrameMarked`, `ScriptsMarked`, and `MetaRead`: marks are read back whatever the name is). `BlockInv` puts the two
  together: behind each function at most one class is open, one of whose functions is still to come (`ClassesLeft`).

Stack machines (`StackCode_proofs`).

* `ScriptsAreReadWhole`, `JumpsLeadToInstructions`, from `ReadInv`: until a seek leads elsewhere (`Strayed`), after each opcode the position in the stream is that of the next
  instruction, and `_address` keeps its distance from it, over strings and escapes of any length (`AllInPlace`); the bytes at
  that position are the ones `StreamOf` put there (`StreamHolds`). `fixStackEffect` and `processInst` change
  neither an operation nor an address. Both theorems except what lies behind a seek, as the properties do. For the
  clause about overrides `ReadInv` says that a script whose block ends with no opcode and that has no sound is at byte 3 or has
  failed once it has strayed (`Locked`): nothing of the code begins before byte 8 (`ScummBegins`), and nothing elsewhere at byte 3 (`StreamTyped`).
* `EffectsOfScumm` is about the table alone: for each opcode, the stack effect written there is the number of values its class
  pushes less what its metadata takes, for a list of every length up to `LongestList` (`LettersAdd`), and `WrongEffects` are the only exceptions.
* `LevelsAreTracked`: the stack effects add up to the size of the stack, for lists of up to `LongestList` values, wherever seeks lead. `EffectsInv` says what `fixStackEffects`
  has made of each effect: it looks for the length by walking back over loads, which from a list whose length is pushed just before
  finds the push of the length (`InstBeforeLoads`, `LengthsAre`). `StackInv` says that this is the number which `createListValue` will read: as long as
  nothing but loads follow, what a load has pushed lies on the stack at its place (`LoadsInv`), and a value that is pushed as a number has that number in front of
  its text (`Sound`). What an instruction takes is then counted letter by letter of its metadata (`OperandsOneByOne`, `OperandsTake`).
* `OperandsAlwaysInOrder`: no value is lost or put in another's place. Each value has the numbers of the instructions it is made of (`from`),
  and `FromInv` says that those printed and on the stack are numbers of instructions processed. One instruction takes the numbers on
  top of the stack, in their order and whatever its metadata (`OperandsFromStack`), and `Placed` says where it may put them: for SCUMM the values pushed
  have the same order, behind them its own number if it is new (`OrderedBy`), for world scripts each goes to one place (`Spread`), and only a pop drops any.
  That every opcode does so is `ScummPlaces` and `WorldPlaces`, which go through the classes; that nothing more is needed is
  `AscendingStep` and `SpreadStep`, which know nothing of instructions. A number that is not new is doubled only by `dup`, and only as part of a value of one
  instruction (`DupOutcome`); any other value gets a name, which is a new value, and is printed.
* `ScriptsAreTyped`, from `CountInv`: the position stays within the stream, or two bytes behind it where the word after a world script has been read
  (`WithinStream`; behind a seek `PositionStays` and `CountsInString`), every instruction has an operation of its table, and no effect is as large as a mark unless a number
  that is no length of a list comes before it, for the walk of `fixStackEffect` stops at an instruction in front of the one it starts from
  (`InstBeforeWithin`, by the induction `CountedFrom`) and takes the length from there. That each value has a text and a precedence of the table follows
  from what is known of the stack (`Sound`, `PrecedenceTable`) and, for the values printed, from `PrintedAreSound`.

LZS (`Lzs_proofs`).

* `LzsTypeCorrect` (for every size of a nibble, number of control bits and set of
  files), from `LzsInv`: the types, with `output_offset < extract_size` whenever a byte may be written, and that
  nothing is written before the buffer is there. The size is rounded up and so never 0, a full buffer grows in the
  step that fills it, and a reference starts at or before the end of the output.
* `DecodesAsRing`: the initial state is that of the ring decoder, and every step is an `Emit` or leaves its variables alone, from
  `RingInv`: the buffer behind the output is zeros (what a run of copies reads ahead of itself), a reference lies no more
  than a window back, and the file has the length it says. The window of the refinement mapping is a function of the
  output (`WindowGrows`: a byte more changes one place of it), and what is left to read loses its first item with each read
  (`ItemsUnfold`). The theorem has the one exception that `DecodesRing` excludes in its files:
  for a reference a whole window back a zero is put out (`PutsZero`).

How recursion and folds are reasoned about. The library's induction theorems cannot be used here, so `Induction_proofs`
begins with the least element of a set of numbers (`LeastNatural`), from which an induction over a set of numbers that
contains 0 and the successor of each member follows (`InductionOnNat`); that a recursive function exists is proved once
for each shape of recursion (`RecursionExists`, `RecursionBetween`, `RecursionByRank`). How `FlattenSeq` joins sequences follows from its recursion (`FlattenSteps`), and from that what it yields
for one sequence of sequences behind another (`FlattenConcat`). `SimpleDisassembler_proofs` does the same
for folds: sums over prefixes (`BytesOneByOne`, `BytesAddUp`), tables laid out by repeated override (`TablesOf`, `TablesIn`, and
`EntriesOf` for a single entry), and one such override (`Overlaid`); in `StackCode_proofs` a fold is unfolded into the sequence of its
intermediate results (`OperandsOneByOne`, `ChangesOneByOne`).

What the proofs have shown about the model. `AnalysisDefined`, `GroupsAreStatements` and `StackFollowsPath` were false
without `FunctionsSeparate` for programs larger than those of the runs, and now say so. `StatementsPrintedOnce` told the code that can
be reached by its level, which is false where paths differ in the depth of the stack: the level may come to -1, the value of a group never
visited (`Unsteady` is such a program). It now asks the paths. The proof of `CodeCount` also found a `CASE` of `CodeOf` whose arms overlap.
`ScriptTypeOK` was false for some scripts: a list length far enough below zero, or a jump back in its place, gives `fixStackEffect`
(`scummv6/disassembler.cpp:445`) an effect that looks like a mark again; it now excepts the instructions behind such a number. Stack effects are numbers only until the first of them is taken apart, which is why `ReadInv` has `EffectsOfTable`.
`LevelsTracked` was false for a length below zero, of which no run had an instance: `createListValue` takes no value then, the stack effect counts some; `LengthsPushed`
now asks for a length of 0 or more. `CharacterIdsKept` needs that a field has a name for each entity and that the number of a character is never taken
for a mark of the metadata, neither of which `IsField` said.

Only model-checked:

* everything under fairness (`GroupingTerminates`, `AnalysisTerminates`, `GenerationTerminates`, `DecompileEnds`, and that
  `DecodesRing` puts every byte out);
* the round trip (`StructuredPrograms` generates its programs by recursion);
* `IndentationBalanced`, which needs the nesting of all constructs of a function at once;
* `ValuesReadBack`, which compares with a reader of expressions that goes over the words of a text by folds, for texts nested to any depth: an
  induction over the text;
* `OperandsPaired`, a fact about each opcode, of which the run has them all.

## Not modelled

* `refcounted.h`: lifetimes of C++ objects. Values of the models do not share memory, and the drivers keep every object they hand
  on until they end.
* `graph.cpp`, `common/`: formatting of DOT files, strings, and functors of ScummVM without state.
* Option parsing (`decompiler.cpp`), `ScaleFactor` and the names of
  variables, functions and characters.
* How the bytes of a file decide what is read where no instruction begins: `elsewhere` and `tail` are any opcodes and any string
  that end within the file.

## Plan

What is left is proofs, each of a property a run has already checked:

1. `IndentationBalanced`, for programs without an else first: each line that opens a block matched with the group that closes it.
