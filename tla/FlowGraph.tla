----------------------------- MODULE FlowGraph -----------------------------
(***************************************************************************)
(* The code flow graph of decompiler/control_flow.cpp and                  *)
(* decompiler/graph.h: the program as the control-flow analysis sees it,   *)
(* the graph the constructor of ControlFlow builds from it, and            *)
(* ControlFlow::merge.                                                     *)
(*                                                                         *)
(* An instruction is named by its position 1..n in the InstVec (the vector *)
(* is sorted by address, so positions and addresses have the same order).  *)
(* A vertex, and the Group it carries, is named by the first instruction   *)
(* of the group, which never changes.  0 is the null Group pointer.        *)
(***************************************************************************)
EXTENDS Integers, Sequences

CONSTANT
  Programs      \* the instruction streams the disassemblers may deliver

(***************************************************************************)
(* What the analysis asks of an instruction: isCondJump, isUncondJump,     *)
(* isReturn and isStackOp (no instruction class answers two of them with   *)
(* true), _stackChange, and the destination of a jump.  A destination that *)
(* is no position is an address at which no instruction starts.            *)
(***************************************************************************)
Kinds == {"op", "stackop", "cond", "jump", "return"}

Instruction == [kind : Kinds, change : Int, dest : Nat]

IsProgram(p) ==
  /\ p.code \in Seq(Instruction)
  /\ p.code # <<>>
  /\ p.funcs \in SUBSET (1 .. Len(p.code))

ASSUME ProgramsAssumption == \A p \in Programs : IsProgram(p)

NULL == 0

VARIABLES
  prog,         \* the program under analysis (never changes)
  vertices,     \* boost::vertices(_g)
  edges,        \* the edges of _g: a set, out-edges being kept in a setS
  addrMap,      \* _addrMap: the vertex an instruction belongs to
  gend,         \* Group::_end of each vertex
  prev, next    \* Group::_prev and Group::_next of each vertex

graphVars == <<prog, vertices, edges, addrMap, gend, prev, next>>

Size  == Len(prog.code)
Insts == 1 .. Size

Change(i) == prog.code[i].change
Dest(i)   == prog.code[i].dest

IsCondJump(i)   == prog.code[i].kind = "cond"
IsUncondJump(i) == prog.code[i].kind = "jump"
IsJump(i)       == IsCondJump(i) \/ IsUncondJump(i)
IsReturn(i)     == prog.code[i].kind = "return"
IsStackOp(i)    == prog.code[i].kind = "stackop"

Successors(v)   == {w \in vertices : <<v, w>> \in edges}
Predecessors(v) == {u \in vertices : <<u, v>> \in edges}

----------------------------------------------------------------------------
(***************************************************************************)
(* The constructor.  A script without functions gets one that starts at    *)
(* its first instruction.  No edge falls into the start of a function, nor *)
(* out of an unconditional jump or a return.                               *)
(***************************************************************************)
Functions == IF prog.funcs = {} THEN {1} ELSE prog.funcs

FallsThrough(i) ==
  /\ i + 1 \in Insts
  /\ ~IsUncondJump(i)
  /\ ~IsReturn(i)
  /\ i + 1 \notin Functions

FlowEdges ==
  {<<i, i + 1>> : i \in {j \in Insts : FallsThrough(j)}} \cup
  {<<i, Dest(i)>> : i \in {j \in Insts : IsJump(j) /\ Dest(j) \in Insts}}

\* find(uint32) dereferences end() for an address no instruction has
DestinationsKnown == \A i \in Insts : IsJump(i) => Dest(i) \in Insts

GraphInit ==
  /\ prog \in Programs
  /\ vertices = Insts
  /\ edges = FlowEdges
  /\ addrMap = [i \in Insts |-> i]
  /\ gend = [i \in Insts |-> i]
  /\ prev = [i \in Insts |-> i - 1]
  /\ next = [i \in Insts |-> IF i = Size THEN NULL ELSE i + 1]

----------------------------------------------------------------------------
(***************************************************************************)
(* The two do-while loops over a group, in merge and in createGroups, test *)
(* for its last instruction before they look at it: they see the last one  *)
(* only when it is the only one.                                           *)
(***************************************************************************)
LoopRange(v) == IF gend[v] = v THEN {v} ELSE v .. gend[v] - 1

(***************************************************************************)
(* merge(g1, g2): g1 takes over the end, the addresses and the out-edges   *)
(* of g2, and g2 disappears together with every edge to it.                *)
(***************************************************************************)
MergeButPrev(g1, g2) ==
  /\ gend' = [gend EXCEPT ![g1] = gend[g2]]
  /\ addrMap' = [i \in Insts |-> IF i \in LoopRange(g2) THEN g1 ELSE addrMap[i]]
  /\ edges' = {e \in edges \cup {<<g1, w>> : w \in Successors(g2)} :
                 e[1] # g2 /\ e[2] # g2}
  /\ next' = [next EXCEPT ![g1] = next[g2]]
  /\ vertices' = vertices \ {g2}
  /\ UNCHANGED <<prog, prev>>

MergeButInEdges(g1, g2) ==
  /\ gend' = [gend EXCEPT ![g1] = gend[g2]]
  /\ addrMap' = [i \in Insts |-> IF i \in LoopRange(g2) THEN g1 ELSE addrMap[i]]
  /\ edges' = {e \in edges \cup {<<g1, w>> : w \in Successors(g2)} : e[1] # g2}
  /\ next' = [next EXCEPT ![g1] = next[g2]]
  /\ prev' = [v \in Insts |-> IF v = next[g2] THEN prev[g2] ELSE prev[v]]
  /\ vertices' = vertices \ {g2}
  /\ UNCHANGED prog

Merge(g1, g2) ==
  /\ gend' = [gend EXCEPT ![g1] = gend[g2]]
  /\ addrMap' = [i \in Insts |-> IF i \in LoopRange(g2) THEN g1 ELSE addrMap[i]]
  /\ edges' = {e \in edges \cup {<<g1, w>> : w \in Successors(g2)} :
                 e[1] # g2 /\ e[2] # g2}
  /\ next' = [next EXCEPT ![g1] = next[g2]]
  /\ prev' = [v \in Insts |-> IF v = next[g2] THEN prev[g2] ELSE prev[v]]
  /\ vertices' = vertices \ {g2}
  /\ UNCHANGED prog

----------------------------------------------------------------------------
GraphTypeOK ==
  /\ IsProgram(prog)
  /\ vertices \in SUBSET Insts
  /\ edges \in SUBSET (vertices \X vertices)
  /\ addrMap \in [Insts -> Insts]
  /\ gend \in [Insts -> Insts]
  /\ prev \in [Insts -> Insts \cup {NULL}]
  /\ next \in [Insts -> Insts \cup {NULL}]

=============================================================================
