---------------------------- MODULE ControlFlow ----------------------------
(***************************************************************************)
(* The whole of ControlFlow (decompiler/control_flow.cpp), as the driver   *)
(* calls it: the constructor, createGroups (both in Grouping), and then    *)
(* analyze, which finds the control structures of the source program among *)
(* the groups.                                                             *)
(*                                                                         *)
(* analyze runs six detectors in a fixed order.  Each of the first five    *)
(* looks at every vertex once and what it decides for one vertex depends   *)
(* on no decision of the same detector, so it is one step here.  The last, *)
(* detectElse, reads the else ends it has recorded before, and takes one   *)
(* step per vertex.                                                        *)
(***************************************************************************)
EXTENDS Grouping

CONSTANT
  Base          \* the address of the first instruction

ASSUME BaseAssumption == Base \in Nat

VARIABLES
  pass,         \* the detector that runs next, "done", or "undefined"
  visit,        \* vertices below this one have been visited by detectElse
  gtype,        \* Group::_type of each vertex
  startElse,    \* vertices with Group::_startElse
  endElse       \* Group::_endElse of each vertex: starts of else blocks

analysisVars == <<pass, visit, gtype, startElse, endElse>>
vars == <<groupingVars, analysisVars>>

GroupTypes == {"normal", "while", "dowhile", "if", "break", "continue"}
Passes == {"dowhile", "while", "break", "continue", "if", "else", "done", "undefined"}

Address(i) == Base + i - 1

Init ==
  /\ GroupingInit
  /\ pass = "dowhile"
  /\ visit = 1
  /\ gtype = [i \in Insts |-> "normal"]
  /\ startElse = {}
  /\ endElse = [i \in Insts |-> {}]

----------------------------------------------------------------------------
(***************************************************************************)
(* The conditions of the detectors.                                        *)
(***************************************************************************)
UnflaggedAll == vertices
Unflagged == {v \in vertices : gtype[v] = "normal"}

\* Ends with a conditional jump, by its edges; ends with an unconditional one.
Branches(v) == Cardinality(Successors(v)) = 2
JumpsAway(v) == IsUncondJump(gend[v]) /\ Cardinality(Successors(v)) = 1

DoWhileConds ==
  {v \in Unflagged : Branches(v) /\ \E w \in Successors(v) : w < v}

WhileCondsBeforeDoWhile ==
  {v \in Unflagged : Branches(v) /\ \E u \in Predecessors(v) : u > v}

WhileConds ==
  {v \in Unflagged :
     Branches(v) /\ \E u \in Predecessors(v) : u > v /\ gtype[u] # "dowhile"}

(***************************************************************************)
(* validateBreakOrContinue(g, c): between the jump g and the condition c   *)
(* of the loop it is about, every other loop of the kind of c lies between *)
(* them completely, and no loop of the other kind reaches in from outside. *)
(* The walk along _next stops before the last group of the program.        *)
(***************************************************************************)
ValidateNothing(g, c) == TRUE
ValidateBreakOrContinue(g, c) ==
  LET kind  == gtype[c]
      other == IF kind = "dowhile" THEN "while" ELSE "dowhile"
      from  == IF kind = "dowhile" THEN g ELSE next[c]
      to    == IF kind = "dowhile" THEN c ELSE g
      Walked == {w \in vertices :
                   from <= w /\ (from <= to => w < to) /\ next[w] # NULL}
      Outside(w) == w < from \/ to < w
  IN \A l \in Walked : gtype[l] = kind =>
       \A t \in Successors(l) :
         /\ ~Outside(t)
         /\ \A u \in Predecessors(t) : gtype[u] = other => ~Outside(u)

LeavesWhile(t, c) == gtype[c] = "while"
LeavesLoop(t, c) ==
  \/ gtype[c] = "dowhile" /\ prev[t] = c
  \/ gtype[c] = "while"

Breaks ==
  {v \in Unflagged : JumpsAway(v) /\
     \E t \in Successors(v) : v < t /\
       \E c \in Predecessors(t) :
         LeavesLoop(t, c) /\ ValidateBreakOrContinue(v, c)}

Continues ==
  {v \in Unflagged : JumpsAway(v) /\
     \E c \in Successors(v) :
       /\ gtype[c] \in {"while", "dowhile"}
       /\ ~(gtype[c] = "while" /\ next[v] \in Successors(c))
       /\ \E t \in Successors(c) : t > v
       /\ ValidateBreakOrContinue(v, c)}

IfConds == {v \in Unflagged : IsCondJump(gend[v])}

Flag(S, type) == gtype' = [v \in Insts |-> IF v \in S THEN type ELSE gtype[v]]

Detect(name, S, type, then) ==
  /\ phase = "grouped"
  /\ pass = name
  /\ Flag(S, type)
  /\ pass' = then
  /\ UNCHANGED <<groupingVars, visit, startElse, endElse>>

DetectDoWhile  == Detect("dowhile", DoWhileConds, "dowhile", "while")
DetectWhile    == Detect("while", WhileConds, "while", "break")
DetectBreak    == Detect("break", Breaks, "break", "continue")
DetectContinue == Detect("continue", Continues, "continue", "if")
DetectIf       == Detect("if", IfConds, "if", "else")

----------------------------------------------------------------------------
(***************************************************************************)
(* detectElse.  The jump target of an if condition is the out-edge with    *)
(* the highest address above 0.                                            *)
(***************************************************************************)
Conditions == {"if", "while", "dowhile"}

LowestTargets(v) ==
  {t \in Successors(v) : Address(t) > 0 /\ \A w \in Successors(v) : t <= w}
JumpTargets(v) ==
  {t \in Successors(v) : Address(t) > 0 /\ \A w \in Successors(v) : w <= t}

(***************************************************************************)
(* validateElseBlock(f, s, e): no group of the block leaves or is entered  *)
(* across the borders [s, e] of the block, but by unconditional jumps and  *)
(* from the if f itself, and no other else ends in it that began before.   *)
(***************************************************************************)
ValidateElseEnds(f, s, e) ==
  \A c \in {w \in vertices : s <= w /\ w < e} :
    /\ gtype[c] \in Conditions => \A t \in Successors(c) : s <= t /\ t <= e
    /\ IsUncondJump(c) \/
       \A u \in Predecessors(c) :
         gtype[u] \in Conditions => (s <= u /\ u <= e) \/ IsUncondJump(u) \/ u = f

ValidateElseBlock(f, s, e) ==
  \A c \in {w \in vertices : s <= w /\ w < e} :
    /\ gtype[c] \in Conditions => \A t \in Successors(c) : s <= t /\ t <= e
    /\ \A x \in endElse[prev[c]] : s <= x
    /\ IsUncondJump(c) \/
       \A u \in Predecessors(c) :
         gtype[u] \in Conditions => (s <= u /\ u <= e) \/ IsUncondJump(u) \/ u = f

\* The else block an if v has: its first group, and the group after it.
ElseBlocksAfterBreaks(v) ==
  {b \in JumpTargets(v) \X vertices :
     LET p == prev[b[1]]
     IN /\ IsUncondJump(gend[p])
        /\ b[2] \in Successors(p)
        /\ b[2] > gend[b[1]]
        /\ ValidateElseBlock(v, b[1], b[2])}

ElseBlocks(v) ==
  {b \in JumpTargets(v) \X vertices :
     LET p == prev[b[1]]
     IN /\ IsUncondJump(gend[p])
        /\ gtype[p] \notin {"continue", "break"}
        /\ b[2] \in Successors(p)
        /\ b[2] > gend[b[1]]
        /\ ValidateElseBlock(v, b[1], b[2])}

\* The vertex the iteration has reached
Visiting(v) ==
  /\ v \in vertices
  /\ visit <= v
  /\ \A w \in vertices : visit <= w => v <= w

InElsePass == phase = "grouped" /\ pass = "else"

\* `target' is never assigned, or is the first group, which has no _prev
ElseUndefined(v) ==
  gtype[v] = "if" /\ (JumpTargets(v) = {} \/ 1 \in JumpTargets(v))

VisitElse(v) ==
  /\ InElsePass
  /\ Visiting(v)
  /\ ~ElseUndefined(v)
  /\ LET blocks == IF gtype[v] = "if" THEN ElseBlocks(v) ELSE {}
     IN /\ startElse' = startElse \cup {b[1] : b \in blocks}
        /\ endElse' = [w \in Insts |->
             endElse[w] \cup {b[1] : b \in {x \in blocks : prev[x[2]] = w}}]
  /\ visit' = v + 1
  /\ UNCHANGED <<groupingVars, pass, gtype>>

VisitUndefined(v) ==
  /\ InElsePass
  /\ Visiting(v)
  /\ ElseUndefined(v)
  /\ pass' = "undefined"
  /\ UNCHANGED <<groupingVars, visit, gtype, startElse, endElse>>

ElseDoneLate ==
  /\ InElsePass
  /\ \A v \in vertices : v + 1 < visit
  /\ pass' = "done"
  /\ UNCHANGED <<groupingVars, visit, gtype, startElse, endElse>>

ElseDone ==
  /\ InElsePass
  /\ \A v \in vertices : v < visit
  /\ pass' = "done"
  /\ UNCHANGED <<groupingVars, visit, gtype, startElse, endElse>>

Analyze ==
  \/ DetectDoWhile \/ DetectWhile \/ DetectBreak \/ DetectContinue \/ DetectIf
  \/ \E v \in vertices : VisitElse(v) \/ VisitUndefined(v)
  \/ ElseDone

Next ==
  \/ (GroupingNext /\ UNCHANGED analysisVars)
  \/ Analyze

Spec == Init /\ [][Next]_vars /\ WF_vars(Next)

----------------------------------------------------------------------------
(***************************************************************************)
(* Properties.                                                             *)
(***************************************************************************)
TypeOK ==
  /\ GroupingTypeOK
  /\ pass \in Passes
  /\ visit \in 1 .. Size + 1
  /\ gtype \in [Insts -> GroupTypes]
  /\ startElse \in SUBSET Insts
  /\ endElse \in [Insts -> SUBSET Insts]

(***************************************************************************)
(* When createGroups and analyze are done every script whose conditional   *)
(* jumps can run on has been analysed without undefined behaviour; what    *)
(* that needs is a known destination for every jump, for each conditional  *)
(* jump an instruction to fall through to or a destination that is not the *)
(* first one (find, detectElse), and functions that do not run into each   *)
(* other: merging across their border can remove the last out-edge of a    *)
(* conditional jump.                                                       *)
(***************************************************************************)
AnalysisDefined ==
  phase = "undefined" \/ pass = "undefined" =>
    \/ ~DestinationsKnown
    \/ ~FunctionsSeparate
    \/ \E i \in Insts : IsCondJump(i) /\ ~FallsThrough(i) /\ Dest(i) = 1

(***************************************************************************)
(* cfg.tex, on else blocks: "this block is then validated to not cross     *)
(* block boundaries".  Two else blocks are disjoint, or one contains the   *)
(* other.                                                                  *)
(***************************************************************************)
ElseExtents == {b \in Insts \X vertices : b[1] \in endElse[b[2]]}

ElseBlocksNest ==
  \A b, c \in ElseExtents : b[1] <= c[1] => b[2] < c[1] \/ c[2] <= b[2] \/ b = c

(***************************************************************************)
(* As far as the code goes: an else block that begins in one recorded      *)
(* before it ends in it as well (validateElseBlock), so that the else of   *)
(* an if only crosses the else of an if that comes before it by beginning  *)
(* before that else.                                                       *)
(***************************************************************************)
ElseEndsKept ==
  [][\A b \in ElseExtents' \ ElseExtents, c \in ElseExtents :
       c[1] < b[1] /\ b[1] <= c[2] => b[2] <= c[2]]_vars

(***************************************************************************)
(* A group is reported as at most one construct, and grouping is over when *)
(* the first is reported (cfg.tex: "Once a group has been flagged as being *)
(* some construct, it is skipped for the other constructs").               *)
(***************************************************************************)
FlaggedOnce ==
  [][\A v \in Insts : gtype[v] # "normal" =>
       gtype'[v] = gtype[v] /\ v \in vertices' /\ gend'[v] = gend[v]]_vars

\* The whole analysis comes to an end.
AnalysisTerminates == <>(phase = "undefined" \/ pass \in {"done", "undefined"})

=============================================================================
