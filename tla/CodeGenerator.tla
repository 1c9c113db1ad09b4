--------------------------- MODULE CodeGenerator ---------------------------
(***************************************************************************)
(* CodeGenerator::generate (decompiler/decompiler_codegen.cpp) after the   *)
(* whole of ControlFlow.  For every function the groups that can be        *)
(* reached from its entry point are processed depth first, each appending  *)
(* lines to its own code; then all groups from the entry point on are      *)
(* printed in the order of their addresses.                                *)
(*                                                                         *)
(* A line is what it does to the structure of the output and to the        *)
(* indentation.  A value on the value stack is not told from another, so   *)
(* a stack is its depth.  Of what an instruction class does in processInst *)
(* a program says whether it adds a line (prints) and how many values it   *)
(* pops (pops).  The generator here prints every label: the pass that only *)
(* collects labels (mIsLabelPass) adds no line.                            *)
(***************************************************************************)
EXTENDS ControlFlow

CONSTANTS
  Signatures,       \* constructFuncSignature returns a text
  AllocationsAscend \* vertices were allocated at ascending addresses, so that
                    \*  the sets of edges, which are sorted by them, are in order

ASSUME CodeGeneratorAssumption ==
  /\ Signatures \in BOOLEAN
  /\ AllocationsAscend \in BOOLEAN
  /\ \A p \in Programs :
       /\ p.prints \in SUBSET (1 .. Len(p.code))
       /\ p.pops \in [1 .. Len(p.code) -> Nat]

VARIABLES
  gen,          \* "start", "process", "print", "done"; "undefined" when a value
                \*  is popped off the empty stack, "failed" when the assertion on
                \*  the indentation fails
  func,         \* the function that is generated, 0 before the first one
  dfsStack,     \* pairs of a vertex and the depth of the stack it starts with
  found,        \* `seen' of generatePass
  lastGroup,    \* the group with the highest address processed
  code,         \* Group::_code of each vertex
  coalesced,    \* vertices with Group::_coalescedElse
  printing,     \* the group to print next, `p' of generatePass
  indent,       \* _indentLevel
  output        \* the lines printed

genVars == <<gen, func, dfsStack, found, lastGroup, code, coalesced,
             printing, indent, output>>
allVars == <<vars, genVars>>

GenInit ==
  /\ Init
  /\ gen = "start"
  /\ func = 0
  /\ dfsStack = <<>>
  /\ found = {}
  /\ lastGroup = NULL
  /\ code = [i \in Insts |-> <<>>]
  /\ coalesced = {}
  /\ printing = NULL
  /\ indent = 0
  /\ output = <<>>

----------------------------------------------------------------------------
(***************************************************************************)
(* The lines of code.                                                      *)
(***************************************************************************)
Line(text, unindentBefore, indentAfter) ==
  [text |-> text, unindentBefore |-> unindentBefore, indentAfter |-> indentAfter]

Statement(text) == <<Line(text, FALSE, FALSE)>>
Opens(text)     == <<Line(text, FALSE, TRUE)>>
Closes(text)    == <<Line(text, TRUE, FALSE)>>
Reopens(text)   == <<Line(text, TRUE, TRUE)>>

\* The orders in which the vertices of a set may be met.
Orders(S) ==
  {order \in SetToSeqs(S) :
     AllocationsAscend => \A i, j \in DOMAIN order : i < j => order[i] < order[j]}

\* The attribute of an edge: merge copies it from the last instruction's edge.
IsJumpEdge(v, w) == IsJump(gend[v]) /\ Dest(gend[v]) = w

ElseStart(v) == IF v \in startElse THEN Reopens("else") ELSE <<>>

EdgeLineButElse(u, v) ==
  IF ~IsJumpEdge(u, v) \/ level[u] = Unset THEN <<>>
  ELSE CASE gtype[u] = "dowhile"         -> Opens("do")
         [] gtype[u] \in {"if", "while"} -> Closes("end")
         [] OTHER                        -> <<>>

\* What the edge from u makes v begin with.
EdgeLine(u, v) ==
  IF ~IsJumpEdge(u, v) \/ level[u] = Unset THEN <<>>
  ELSE CASE gtype[u] = "dowhile"                  -> Opens("do")
         [] gtype[u] = "if" /\ v \notin startElse -> Closes("end")
         [] gtype[u] = "while"                    -> Closes("end")
         [] OTHER                                 -> <<>>

EdgeLines(v, order) == FlattenSeq([k \in DOMAIN order |-> EdgeLine(order[k], v)])

\* The lines processInst adds for instruction i, before what a jump makes of it.
InstLine(i) == IF i \in prog.prints THEN Statement("stmt") ELSE <<>>
InstLines(v) == FlattenSeq([k \in 1 .. gend[v] - v + 1 |-> InstLine(v + k - 1)])

JumpPrintedAtLoops(v) ==
  next[v] # NULL => \A t \in Successors(v) : t # next[v] /\ next[v] \notin startElse

(***************************************************************************)
(* processUncondJumpInst.  A group of a do-while condition has two         *)
(* out-edges and does not end with an unconditional jump, so the footer of *)
(* an endless do-while is never added.                                     *)
(***************************************************************************)
JumpPrinted(v) ==
  next[v] # NULL =>
    \A t \in Successors(v) :
      /\ t # next[v]
      /\ next[v] \notin startElse
      /\ next[v] \notin Successors(t)

UncondLine(v) ==
  CASE gtype[v] = "break"    -> Statement("break")
    [] gtype[v] = "continue" -> Statement("continue")
    [] OTHER                 -> IF JumpPrinted(v) THEN Statement("goto") ELSE <<>>

\* processCondJumpInst: an if that is all of an else block takes the else over.
Coalesces(v, before) ==
  /\ gtype[v] = "if"
  /\ IsCondJump(gend[v])
  /\ v \in startElse
  /\ Len(before) = 1
  /\ \E t \in Successors(v) : v \in endElse[prev[t]]

CondLine(v) ==
  CASE gtype[v] = "if"      -> IF v \in coalesced THEN Reopens("if") ELSE Opens("if")
    [] gtype[v] = "while"   -> Opens("while")
    [] gtype[v] = "dowhile" -> Closes("dowhile")
    [] OTHER                -> <<>>

\* The code of v before its jump, and when its instructions have been processed.
Before(v, order) ==
  code[v] \o ElseStart(v) \o EdgeLines(v, order) \o InstLines(v)

CodeOf(v, before) ==
  IF Coalesces(v, before) THEN Reopens("elseif")
  ELSE CASE IsCondJump(gend[v])   -> before \o CondLine(v)
         [] IsUncondJump(gend[v]) -> before \o UncondLine(v)
         [] OTHER                 -> before

\* The else blocks that end with v and are not left to an if of theirs.
ElseEnds(v) ==
  FlattenSeq([k \in 1 .. Cardinality(endElse[v] \ coalesced') |-> Closes("end")])

----------------------------------------------------------------------------
(***************************************************************************)
(* The value stack.  An instruction pops before it pushes; the condition   *)
(* of a conditional jump is popped by processCondJumpInst.                 *)
(***************************************************************************)
Pops(i) == IF IsCondJump(i) THEN 1 ELSE prog.pops[i]

EffectButCond(i) == IF IsCondJump(i) THEN 0 ELSE Change(i)

Effect(i) == IF IsCondJump(i) THEN -1 ELSE Change(i)

\* The depth before each instruction of v and after the last, entered with d.
Depths(v, d) ==
  LET depth[i \in v .. gend[v] + 1] ==
        IF i = v THEN d ELSE depth[i - 1] + Effect(i - 1)
  IN depth

Underflows(v, d) == \E i \in v .. gend[v] : Depths(v, d)[i] < Pops(i)

----------------------------------------------------------------------------
(***************************************************************************)
(* generatePass.  The functions come in the order of their addresses.      *)
(***************************************************************************)
Analysed == pass = "done"

StartUnmarked ==
  /\ Analysed
  /\ gen = "start"
  /\ \E f \in Functions \cap vertices :
       /\ func < f
       /\ \A g \in Functions : g <= func \/ f <= g
       /\ func' = f
       /\ dfsStack' = << <<f, 0>> >>
       /\ found' = {}
       /\ lastGroup' = f
       /\ code' = [code EXCEPT ![f] = @ \o
            IF ~Signatures THEN <<>>
            ELSE (IF func = 0 THEN <<>> ELSE Statement("blank")) \o Opens("function")]
  /\ gen' = "process"
  /\ UNCHANGED <<vars, coalesced, printing, indent, output>>

StartFunctionCode ==
  /\ Analysed
  /\ gen = "start"
  /\ \E f \in Functions \cap vertices :
       /\ func < f
       /\ \A g \in Functions : g <= func \/ f <= g
       /\ func' = f
       /\ dfsStack' = << <<f, 0>> >>
       /\ found' = {f}
       /\ lastGroup' = f
       /\ code' = [code EXCEPT ![f] = @ \o
            IF ~Signatures THEN <<>>
            ELSE (IF func = 0 THEN <<>> ELSE Statement("blank")) \o Opens("function")]
  /\ gen' = "process"
  /\ UNCHANGED <<vars, coalesced, printing, indent, output>>

ProcessGroup ==
  /\ Analysed
  /\ gen = "process"
  /\ dfsStack # <<>>
  /\ LET v == Last(dfsStack)[1]
         d == Last(dfsStack)[2]
     IN /\ ~Underflows(v, d)
        /\ lastGroup' = IF lastGroup < v THEN v ELSE lastGroup
        /\ \E order \in Orders(Predecessors(v)) :
             LET before == Before(v, order)
             IN /\ coalesced' = IF Coalesces(v, before) THEN coalesced \cup {v} ELSE coalesced
                /\ code' = [code EXCEPT ![v] = CodeOf(v, before) \o ElseEnds(v)]
        /\ \E order \in Orders(Successors(v) \ found) :
             dfsStack' = Front(dfsStack) \o
               [k \in DOMAIN order |-> <<order[k], Depths(v, d)[gend[v] + 1]>>]
        /\ found' = found \cup Successors(v)
  /\ UNCHANGED <<vars, gen, func, printing, indent, output>>

PopEmptyStack ==
  /\ Analysed
  /\ gen = "process"
  /\ dfsStack # <<>>
  /\ Underflows(Last(dfsStack)[1], Last(dfsStack)[2])
  /\ gen' = "undefined"
  /\ UNCHANGED <<vars, func, dfsStack, found, lastGroup, code, coalesced,
                 printing, indent, output>>

EndFunctionCode ==
  /\ Analysed
  /\ gen = "process"
  /\ dfsStack = <<>>
  /\ code' = [code EXCEPT ![lastGroup] =
                @ \o IF Signatures THEN Closes("end") ELSE <<>>]
  /\ gen' = "print"
  /\ printing' = func
  /\ UNCHANGED <<vars, func, dfsStack, found, lastGroup, coalesced, indent, output>>

\* The indentation after the first k lines of c, or -1 if the assertion fails.
IndentAfter(c, k) ==
  LET after[j \in 0 .. k] ==
        IF j = 0 THEN indent
        ELSE IF after[j - 1] < 0 \/ (after[j - 1] = 0 /\ c[j].unindentBefore) THEN -1
        ELSE after[j - 1] - (IF c[j].unindentBefore THEN 1 ELSE 0)
                          + (IF c[j].indentAfter THEN 1 ELSE 0)
  IN after[k]

PrintUnchecked ==
  /\ Analysed
  /\ gen = "print"
  /\ printing # NULL
  /\ indent' = IndentAfter(code[printing], Len(code[printing]))
  /\ output' = output \o [k \in DOMAIN code[printing] |-> code[printing][k].text]
  /\ printing' = next[printing]
  /\ UNCHANGED <<vars, gen, func, dfsStack, found, lastGroup, code, coalesced>>

PrintGroup ==
  /\ Analysed
  /\ gen = "print"
  /\ printing # NULL
  /\ IndentAfter(code[printing], Len(code[printing])) >= 0
  /\ indent' = IndentAfter(code[printing], Len(code[printing]))
  /\ output' = output \o [k \in DOMAIN code[printing] |-> code[printing][k].text]
  /\ printing' = next[printing]
  /\ UNCHANGED <<vars, gen, func, dfsStack, found, lastGroup, code, coalesced>>

IndentationFails ==
  /\ Analysed
  /\ gen = "print"
  /\ printing # NULL
  /\ IndentAfter(code[printing], Len(code[printing])) < 0
  /\ gen' = "failed"
  /\ UNCHANGED <<vars, func, dfsStack, found, lastGroup, code, coalesced,
                 printing, indent, output>>

FunctionRestarts ==
  /\ Analysed
  /\ gen = "print"
  /\ printing = NULL
  /\ gen' = "start"
  /\ UNCHANGED <<vars, func, dfsStack, found, lastGroup, code, coalesced,
                 printing, indent, output>>

FunctionPrinted ==
  /\ Analysed
  /\ gen = "print"
  /\ printing = NULL
  /\ gen' = IF \E f \in Functions : func < f THEN "start" ELSE "done"
  /\ UNCHANGED <<vars, func, dfsStack, found, lastGroup, code, coalesced,
                 printing, indent, output>>

Generate ==
  \/ StartFunctionCode \/ ProcessGroup \/ PopEmptyStack \/ EndFunctionCode
  \/ PrintGroup \/ IndentationFails \/ FunctionPrinted

GenNext ==
  \/ (Next /\ UNCHANGED genVars)
  \/ Generate

GenSpec == GenInit /\ [][GenNext]_allVars /\ WF_allVars(GenNext)

----------------------------------------------------------------------------
(***************************************************************************)
(* Properties.                                                             *)
(***************************************************************************)
Texts == {"stmt", "if", "else", "elseif", "while", "do", "dowhile", "end",
          "break", "continue", "goto", "blank", "function"}

GenTypeOK ==
  /\ TypeOK
  /\ gen \in {"start", "process", "print", "done", "undefined", "failed"}
  /\ func \in Functions \cup {0}
  /\ dfsStack \in Seq(Insts \X Int)
  /\ found \in SUBSET Insts
  /\ lastGroup \in Insts \cup {NULL}
  /\ code \in [Insts -> Seq([text : Texts, unindentBefore : BOOLEAN, indentAfter : BOOLEAN])]
  /\ coalesced \in SUBSET Insts
  /\ printing \in Insts \cup {NULL}
  /\ indent \in Nat
  /\ output \in Seq(Texts)

\* Every jump stays in the function it is in.
FunctionsClosed ==
  \A e \in edges : {f \in Functions : f <= e[1]} = {f \in Functions : f <= e[2]}

(***************************************************************************)
(* The braces match, whatever the program jumps to: the lines that open    *)
(* and close blocks are added by different groups, each after its own      *)
(* edges, and nevertheless the indentation never falls below zero (the     *)
(* assertion of generatePass) and is back at zero after each function.     *)
(* Dead code may lose the end of an else, and a group that branches to     *)
(* itself is taken for an if.                                              *)
(***************************************************************************)
IndentationBalanced ==
  /\ FunctionsClosed
  /\ \A v \in vertices : level[v] # Unset /\ <<v, v>> \notin edges
  => /\ gen # "failed"
     /\ gen \in {"start", "done"} => indent = 0

\* The assertion of generatePass, `_indentLevel > 0'.
AssertionHolds == gen # "failed"

(***************************************************************************)
(* Functions that share no code are each printed once: every statement     *)
(* that can be reached is in the output exactly once, although every       *)
(* function prints all groups behind its entry point.  What can be reached *)
(* is asked of the paths: where they differ in the depth of the stack, the *)
(* level of a group may be -1, as if it had never been visited.  One       *)
(* statement is not told from another, so they are counted.                *)
(***************************************************************************)
StatementsPrintedOnce ==
  FunctionsClosed /\ gen = "done" =>
    Cardinality({k \in DOMAIN output : output[k] = "stmt"}) =
      Cardinality({i \in prog.prints : \E p \in PathLevels : p[1] = i})

(***************************************************************************)
(* A group is processed with the stack of a path that leads to it: the     *)
(* depth copied with it is that of a path from the start of a function,    *)
(* however grouping has cut the path into groups, and the empty stack is   *)
(* only popped if some path of the program does so.  Conditional jumps pop *)
(* their condition, and functions do not run into each other: a group that *)
(* reaches into the next function would take its stack along.              *)
(***************************************************************************)
StackFollowsPath ==
  FunctionsSeparate /\ (\A i \in Insts : IsCondJump(i) => Change(i) = -1) =>
    /\ gen = "process" /\ dfsStack # <<>> => Last(dfsStack) \in PathLevels
    /\ gen = "undefined" => \E p \in PathLevels : p[2] < Pops(p[1])

\* Every script is generated, or the generator leaves defined behaviour.
GenerationTerminates ==
  <>(\/ gen \in {"done", "undefined", "failed"}
     \/ "undefined" \in {phase, pass})

=============================================================================
