------------------------------ MODULE Grouping ------------------------------
(***************************************************************************)
(* ControlFlow::setStackLevel and ControlFlow::createGroups                *)
(* (decompiler/control_flow.cpp): a depth-first pass gives every reachable *)
(* instruction the stack level it is entered with, then one sweep over the *)
(* instructions merges neighbouring vertices into groups, each of them the *)
(* instructions of one statement.                                          *)
(***************************************************************************)
EXTENDS FlowGraph, FiniteSets, SequencesExt

CONSTANT
  PureGrouping  \* Engine::usePureGrouping(): group by branches only

ASSUME PureGroupingAssumption == PureGrouping \in BOOLEAN

Unset == -1     \* the value Group::_stackLevel starts with

VARIABLES
  phase,        \* "levels", "groups", "grouped", or "undefined": behaviour the
                \*  C++ standard leaves undefined has been reached
  level,        \* Group::_stackLevel of each vertex
  pending,      \* functions whose entry setStackLevel has not been called with
  todo,         \* levelStack of setStackLevel: pairs of a vertex and a level
  seen,         \* its local `seen'
  warned,       \* instructions the inconsistency warning has been printed for
  pos,          \* curInst of the sweep (nextInst is pos + 1)
  stackLevel    \* stackLevel of the sweep

levelVars == <<level, pending, todo, seen, warned>>
sweepVars == <<pos, stackLevel>>
groupingVars == <<graphVars, phase, levelVars, sweepVars>>

GroupingInit ==
  /\ GraphInit
  /\ phase = IF DestinationsKnown THEN "levels" ELSE "undefined"
  /\ level = [i \in Insts |-> Unset]
  /\ pending = Functions
  /\ todo = <<>>
  /\ seen = {}
  /\ warned = {}
  /\ pos = 1
  /\ stackLevel = 0

----------------------------------------------------------------------------
(***************************************************************************)
(* setStackLevel, called with level 0 for the functions in the order of    *)
(* their addresses (FuncMap is a std::map).                                *)
(***************************************************************************)
StartFunction ==
  /\ phase = "levels"
  /\ todo = <<>>
  /\ \E f \in pending :
       /\ \A g \in pending : f <= g
       /\ pending' = pending \ {f}
       /\ todo' = << <<f, 0>> >>
       /\ seen' = {f}
  /\ UNCHANGED <<graphVars, phase, level, warned, sweepVars>>

\* The level an instruction entered with level l leaves behind.
LevelKept(v, l) == l
LevelBehind(v, l) == l + Change(v)

\* The popped vertex has no level yet.  Its out-edges are followed in the order
\* of their targets' addresses in memory, which may be any order.
VisitVertex ==
  /\ phase = "levels"
  /\ todo # <<>>
  /\ LET v == Last(todo)[1]
         l == Last(todo)[2]
     IN /\ level[v] = Unset
        /\ level' = [level EXCEPT ![v] = l]
        /\ seen' = seen \cup Successors(v)
        /\ \E order \in SetToSeqs(Successors(v) \ seen) :
             todo' = Front(todo) \o
               [k \in DOMAIN order |-> <<order[k], LevelBehind(v, l)>>]
  /\ UNCHANGED <<graphVars, phase, pending, warned, sweepVars>>

\* The popped vertex has a level already: warn if it differs.
RevisitVertex ==
  /\ phase = "levels"
  /\ todo # <<>>
  /\ LET v == Last(todo)[1]
     IN /\ level[v] # Unset
        /\ warned' = IF level[v] = Last(todo)[2] THEN warned ELSE warned \cup {v}
  /\ todo' = Front(todo)
  /\ UNCHANGED <<graphVars, phase, level, pending, seen, sweepVars>>

LevelsAssigned ==
  /\ phase = "levels"
  /\ todo = <<>>
  /\ pending = {}
  /\ phase' = "groups"
  /\ UNCHANGED <<graphVars, levelVars, sweepVars>>

----------------------------------------------------------------------------
(***************************************************************************)
(* The sweep of createGroups: one step per pair curInst, nextInst.         *)
(***************************************************************************)
Cur == addrMap[pos]
Nxt == addrMap[pos + 1]

InSweep == phase = "groups" /\ pos < Size

UnreachedNever == FALSE
Unreached == level[Cur] < 0

\* The level the group of curInst is expected to return to, lowered to that of
\* the next vertex if that is lower and set.
LevelNotLowered == level[Cur]
LoweredLevel ==
  IF 0 <= level[Nxt] /\ level[Nxt] < level[Cur] THEN level[Nxt] ELSE level[Cur]

LevelAfter == stackLevel + Change(pos)

\* After a stack operation the level it leaves is the expected one from then on.
ExpectedLevel == IF IsStackOp(pos) THEN LevelAfter ELSE LoweredLevel

UpdateLevels ==
  level' = [level EXCEPT ![Cur] = LoweredLevel,
                         ![Nxt] = IF IsStackOp(pos) THEN LevelAfter ELSE @]

GroupEndsButAtTargets == IsJump(pos) \/ IsReturn(pos)
GroupEndsButAtReturns == IsJump(pos) \/ Cardinality(Predecessors(Nxt)) # 1
GroupEnds ==
  \/ IsJump(pos)
  \/ IsReturn(pos)
  \/ Cardinality(Predecessors(Nxt)) # 1

\* Nothing the loop sees of the group pushes or keeps the level.
ForceMerge == \A i \in LoopRange(Cur) : Change(i) < 0

StatementEnds ==
  /\ ~PureGrouping
  /\ LevelAfter = ExpectedLevel
  /\ ~ForceMerge
  /\ ~IsCondJump(pos + 1)

SkipInPlace ==
  /\ InSweep
  /\ Unreached
  /\ stackLevel' = level[Nxt]
  /\ UNCHANGED <<graphVars, phase, levelVars, pos>>

SkipUnreachable ==
  /\ InSweep
  /\ Unreached
  /\ stackLevel' = level[Nxt]
  /\ pos' = pos + 1
  /\ UNCHANGED <<graphVars, phase, levelVars>>

EndGroup ==
  /\ InSweep
  /\ ~Unreached
  /\ GroupEnds
  /\ UpdateLevels
  /\ stackLevel' = level'[Nxt]
  /\ pos' = pos + 1
  /\ UNCHANGED <<graphVars, phase, pending, todo, seen, warned>>

EndStatement ==
  /\ InSweep
  /\ ~Unreached
  /\ ~GroupEnds
  /\ StatementEnds
  /\ UpdateLevels
  /\ stackLevel' = LevelAfter
  /\ pos' = pos + 1
  /\ UNCHANGED <<graphVars, phase, pending, todo, seen, warned>>

MergeNext ==
  /\ InSweep
  /\ ~Unreached
  /\ ~GroupEnds
  /\ ~StatementEnds
  /\ UpdateLevels
  /\ Merge(Cur, Nxt)
  /\ stackLevel' = LevelAfter
  /\ pos' = pos + 1
  /\ UNCHANGED <<phase, pending, todo, seen, warned>>

SweepDone ==
  /\ phase = "groups"
  /\ pos = Size
  /\ phase' = "grouped"
  /\ UNCHANGED <<graphVars, levelVars, sweepVars>>

GroupingNext ==
  \/ StartFunction \/ VisitVertex \/ RevisitVertex \/ LevelsAssigned
  \/ SkipUnreachable \/ EndGroup \/ EndStatement \/ MergeNext
  \/ SweepDone

GroupingSpec ==
  GroupingInit /\ [][GroupingNext]_groupingVars /\ WF_groupingVars(GroupingNext)

----------------------------------------------------------------------------
(***************************************************************************)
(* Properties.                                                             *)
(***************************************************************************)
GroupingTypeOK ==
  /\ GraphTypeOK
  /\ phase \in {"levels", "groups", "grouped", "undefined"}
  /\ level \in [Insts -> Int]
  /\ pending \in SUBSET Functions
  /\ todo \in Seq(Insts \X Int)
  /\ seen \in SUBSET Insts
  /\ warned \in SUBSET Insts
  /\ pos \in Insts
  /\ stackLevel \in Int

(***************************************************************************)
(* The groups tile the program.  Whatever the order of merges, the group   *)
(* an instruction is mapped to is alive and contains it, the groups are    *)
(* disjoint intervals, and _prev and _next link each of them to its        *)
(* neighbours by address (merge and Group::Group).  Code generation walks  *)
(* the links and the map interchangeably.                                  *)
(***************************************************************************)
GroupsTile ==
  /\ \A i \in Insts :
       /\ addrMap[i] \in vertices
       /\ addrMap[i] <= i
       /\ i <= gend[addrMap[i]]
  /\ \A v \in vertices :
       /\ addrMap[v] = v
       /\ \A i \in v .. gend[v] : addrMap[i] = v
       /\ next[v] = IF gend[v] = Size THEN NULL ELSE gend[v] + 1
       /\ prev[v] = IF v = 1 THEN NULL ELSE addrMap[v - 1]

(***************************************************************************)
(* No instruction falls through into the first one of a function.  The     *)
(* constructor leaves that edge out, so a function whose last instruction  *)
(* is no jump and no isReturn() looks to the sweep as if it ran on.        *)
(***************************************************************************)
FunctionsSeparate ==
  \A f \in Functions \ {1} : IsUncondJump(f - 1) \/ IsReturn(f - 1)

(***************************************************************************)
(* Grouping keeps the control flow: the group edges are exactly the edges  *)
(* of the instruction graph that leave the last instruction of a group,    *)
(* each of them enters a group at its first instruction, and inside a      *)
(* group control can only run to the next instruction (merge, and the      *)
(* three "group ends" conditions of createGroups).                         *)
(***************************************************************************)
FlowPreserved ==
  FunctionsSeparate =>
  /\ edges = {<<addrMap[e[1]], e[2]>> :
                e \in {f \in FlowEdges : f[1] = gend[addrMap[f[1]]]}}
  /\ \A e \in FlowEdges :
       e[1] # gend[addrMap[e[1]]] => e[2] = e[1] + 1

\* The pairs of an instruction and a level with which some path of at most k
\* instructions from the start of a function reaches it.
Extended(paths) ==
  paths \cup {<<ep[1][2], ep[2][2] + Change(ep[1][1])>> :
               ep \in {x \in FlowEdges \X paths : x[1][1] = x[2][1]}}

PathsUpTo[k \in 0 .. Size] ==
  IF k = 0 THEN Functions \X {0} ELSE Extended(PathsUpTo[k - 1])

PathLevels == PathsUpTo[Size]

Consistent(paths) ==
  \A p \in paths : p[2] >= 0 /\ \A q \in paths : p[1] = q[1] => p = q

(***************************************************************************)
(* cfg.tex, "unreachable code is not grouped": an instruction no path from *)
(* a function reaches is a group of its own when grouping ends.            *)
(***************************************************************************)
UnreachableUngrouped ==
  phase = "grouped" =>
    LET reached == {p[1] : p \in PathLevels}
    IN \A i \in Insts \ reached : addrMap[i] = i /\ gend[i] = i

(***************************************************************************)
(* The depth-first pass finds the levels.  If all paths from functions     *)
(* agree on the level of each instruction, and none underflows the stack,  *)
(* those are the levels setStackLevel sets, in whatever order it meets the *)
(* out-edges; it leaves unreachable instructions alone and warns of        *)
(* nothing.                                                                *)
(***************************************************************************)
LevelsExact ==
  phase = "groups" /\ pos = 1 =>
    LET paths == PathLevels
    IN Consistent(paths) =>
         /\ {<<i, level[i]>> : i \in {j \in Insts : level[j] # Unset}} = paths
         /\ warned = {}

(***************************************************************************)
(* Grouping only forms basic blocks: every step of it is a step, or no     *)
(* step, of BasicBlocks.  (Functions must not fall through into each       *)
(* other: see FunctionsSeparate.)                                          *)
(***************************************************************************)
Blocks == {v .. gend[v] : v \in vertices}

BB == INSTANCE BasicBlocks WITH insts <- Insts, flow <- FlowEdges, blocks <- Blocks

FormsBasicBlocks == BB!Spec

(***************************************************************************)
(* cfg.tex, "the current group corresponds to a single line of code": in a *)
(* program with consistent levels a group that ends for no other reason    *)
(* than that its statement does leaves the stack no higher than it was     *)
(* anywhere in the group, and a group does not run past such a point       *)
(* unless the instructions that lead to it only pop, or a conditional jump *)
(* follows.  (Stack operations move the expected level, so programs with   *)
(* one are left out; so are functions that run into each other, as the     *)
(* sweep carries the level of the first into the second, and scripts that  *)
(* do not start with a function, as the sweep starts at level 0.)          *)
(***************************************************************************)
LevelIn(paths, i) == CHOOSE l \in {p[2] : p \in paths} : <<i, l>> \in paths

Balanced(paths, i) ==
  \A j \in addrMap[i] .. i : LevelIn(paths, i + 1) <= LevelIn(paths, j)

\* Instructions inside reachable groups after which the statement could end.
StatementPoints(paths) ==
  {i \in {p[1] : p \in paths} : FallsThrough(i) /\ ~IsJump(i)}

StatementProgram(paths) ==
  /\ ~PureGrouping
  /\ FunctionsSeparate /\ 1 \in Functions
  /\ Consistent(paths)
  /\ \A i \in Insts : ~IsStackOp(i)

LeadOnlyPops(i) ==
  \A j \in addrMap[i] .. i : Change(j) < 0 \/ (j = i /\ i # addrMap[i])

GroupsAreStatements ==
  phase = "grouped" =>
    LET paths == PathLevels
    IN StatementProgram(paths) =>
         \A i \in StatementPoints(paths) :
           IF i = gend[addrMap[i]]
           THEN Balanced(paths, i) \/ Cardinality({e \in FlowEdges : e[2] = i + 1}) # 1
           ELSE Balanced(paths, i) => IsCondJump(i + 1) \/ LeadOnlyPops(i)

(***************************************************************************)
(* cfg.tex: "If multiple paths are found to the same instruction, a        *)
(* warning will be output if the expected stack level from each path       *)
(* differs."                                                               *)
(***************************************************************************)
DifferingPathsWarned ==
  phase = "groups" /\ pos = 1 =>
    \A e \in FlowEdges :
      level[e[1]] # Unset /\ level[e[2]] # level[e[1]] + Change(e[1]) => e[2] \in warned

(***************************************************************************)
(* engine.tex: _v "is the GraphVertex containing the entry point"; it is   *)
(* assigned by the constructor and never moved, so the vertex must stay.   *)
(* The code generator starts from it.                                      *)
(***************************************************************************)
EntriesAlive == FunctionsSeparate => Functions \subseteq vertices

\* The analysis of grouping comes to an end: every loop in it is bounded.
GroupingTerminates == <>(phase \in {"grouped", "undefined"})

=============================================================================
