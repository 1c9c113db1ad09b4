------------------------- MODULE ControlFlow_proofs -------------------------
(***************************************************************************)
(* Proofs about the whole of ControlFlow: the invariant of grouping        *)
(* carries over to the detectors, a flag is set once, undefined behaviour  *)
(* has one of three causes, and no else block ends across an older one.    *)
(***************************************************************************)
EXTENDS ControlFlow, Grouping_proofs

\* Nothing is flagged before grouping is over, and only groups are.
Unanalysed ==
  /\ phase # "grouped" => pass = "dowhile" /\ gtype = [i \in Insts |-> "normal"]
  /\ \A v \in Insts : gtype[v] # "normal" => v \in vertices

AnalysisTypeOK ==
  /\ pass \in Passes
  /\ visit \in 1 .. Size + 1
  /\ gtype \in [Insts -> GroupTypes]
  /\ startElse \in SUBSET Insts
  /\ endElse \in [Insts -> SUBSET Insts]

Inv == GroupingInv /\ AnalysisTypeOK /\ Unanalysed

----------------------------------------------------------------------------
LEMMA InitInv == Init => Inv
<1> SUFFICES ASSUME Init PROVE Inv
  OBVIOUS
<1>1. GroupingInv
  BY InvInit DEF Init
<1>2. Size \in Nat \ {0}
  BY <1>1, ProgramFacts DEF GroupingInv, GroupingTypeOK, GraphTypeOK
<1> QED
  BY <1>1, <1>2 DEF Init, Inv, AnalysisTypeOK, Unanalysed, Passes, GroupTypes

\* The detectors leave the graph and the groups alone; grouping leaves the
\* results of the detectors alone, and is over when they start.
LEMMA NextParts ==
  ASSUME Next
  PROVE  \/ GroupingNext /\ UNCHANGED analysisVars /\ phase # "grouped"
         \/ Analyze /\ UNCHANGED groupingVars /\ phase = "grouped"
<1>1. CASE GroupingNext /\ UNCHANGED analysisVars
  BY <1>1 DEF GroupingNext, StartFunction, VisitVertex, RevisitVertex, LevelsAssigned,
    SkipUnreachable, EndGroup, EndStatement, MergeNext, SweepDone, InSweep
<1>2. CASE Analyze
  BY <1>2 DEF Analyze, DetectDoWhile, DetectWhile, DetectBreak, DetectContinue, DetectIf,
    Detect, VisitElse, VisitUndefined, ElseDone, InElsePass
<1> QED
  BY <1>1, <1>2 DEF Next

\* Each of the first five detectors flags groups that have no flag yet.
LEMMA DetectorsFlag ==
  ASSUME DetectDoWhile \/ DetectWhile \/ DetectBreak \/ DetectContinue \/ DetectIf
  PROVE  /\ \E S \in SUBSET Unflagged, type \in GroupTypes \ {"normal"} : Flag(S, type)
         /\ pass' \in Passes
         /\ UNCHANGED <<visit, startElse, endElse>>
<1>1. /\ DoWhileConds \in SUBSET Unflagged /\ WhileConds \in SUBSET Unflagged
      /\ Breaks \in SUBSET Unflagged /\ Continues \in SUBSET Unflagged
      /\ IfConds \in SUBSET Unflagged
  BY DEF DoWhileConds, WhileConds, Breaks, Continues, IfConds
<1>2. CASE DetectDoWhile
  BY <1>1, <1>2 DEF DetectDoWhile, Detect, Passes, GroupTypes
<1>3. CASE DetectWhile
  BY <1>1, <1>3 DEF DetectWhile, Detect, Passes, GroupTypes
<1>4. CASE DetectBreak
  BY <1>1, <1>4 DEF DetectBreak, Detect, Passes, GroupTypes
<1>5. CASE DetectContinue
  BY <1>1, <1>5 DEF DetectContinue, Detect, Passes, GroupTypes
<1>6. CASE DetectIf
  BY <1>1, <1>6 DEF DetectIf, Detect, Passes, GroupTypes
<1> QED
  BY <1>2, <1>3, <1>4, <1>5, <1>6

LEMMA AnalyzeType ==
  ASSUME Inv, Analyze, UNCHANGED groupingVars
  PROVE  AnalysisTypeOK'
<1>1. AnalysisTypeOK /\ GraphTypeOK /\ vertices \in SUBSET Insts
  BY DEF Inv, GroupingInv, GroupingTypeOK, GraphTypeOK
<1>2. Insts' = Insts /\ Size' = Size
  BY DEF groupingVars, graphVars, Insts, Size
<1>3. Size \in Nat /\ Insts = 1 .. Size
  BY <1>1, ProgramFacts DEF GraphTypeOK
<1>4. CASE DetectDoWhile \/ DetectWhile \/ DetectBreak \/ DetectContinue \/ DetectIf
  <2>1. PICK S \in SUBSET Unflagged, type \in GroupTypes \ {"normal"} : Flag(S, type)
    BY <1>4, DetectorsFlag
  <2>2. gtype' \in [Insts -> GroupTypes]
    BY <2>1, <1>1 DEF Flag, AnalysisTypeOK
  <2> QED
    BY <2>2, <1>1, <1>2, <1>4, DetectorsFlag DEF AnalysisTypeOK
<1>5. ASSUME NEW v \in vertices, VisitElse(v)
      PROVE  AnalysisTypeOK'
  <2> DEFINE blocks == IF gtype[v] = "if" THEN ElseBlocks(v) ELSE {}
  <2>1. /\ startElse' = startElse \cup {b[1] : b \in blocks}
        /\ endElse' = [w \in Insts |->
             endElse[w] \cup {b[1] : b \in {x \in blocks : prev[x[2]] = w}}]
        /\ visit' = v + 1
        /\ UNCHANGED <<pass, gtype>>
    BY <1>5 DEF VisitElse
  <2>2. \A b \in blocks : b[1] \in Insts
    BY <1>1 DEF ElseBlocks, JumpTargets, Successors
  <2> HIDE DEF blocks
  <2>3. startElse' \in SUBSET Insts /\ endElse' \in [Insts -> SUBSET Insts]
    BY <2>1, <2>2, <1>1 DEF AnalysisTypeOK
  <2>4. visit' \in 1 .. Size + 1
    BY <2>1, <1>1, <1>3
  <2> QED
    BY <2>1, <2>3, <2>4, <1>1, <1>2 DEF AnalysisTypeOK
<1>6. ASSUME ElseDone \/ \E v \in vertices : VisitUndefined(v)
      PROVE  AnalysisTypeOK'
  BY <1>6, <1>1, <1>2 DEF ElseDone, VisitUndefined, AnalysisTypeOK, Passes
<1> QED
  BY <1>4, <1>5, <1>6 DEF Analyze

\* What analyze may do to the type of a group.
LEMMA AnalyzeFlags ==
  ASSUME Analyze
  PROVE  \A v \in Insts :
           /\ gtype[v] # "normal" => gtype'[v] = gtype[v]
           /\ gtype'[v] # "normal" => gtype[v] # "normal" \/ v \in vertices
<1>1. CASE DetectDoWhile \/ DetectWhile \/ DetectBreak \/ DetectContinue \/ DetectIf
  <2>1. PICK S \in SUBSET Unflagged, type \in GroupTypes \ {"normal"} : Flag(S, type)
    BY <1>1, DetectorsFlag
  <2> QED
    BY <2>1 DEF Flag, Unflagged
<1>2. CASE UNCHANGED gtype
  BY <1>2
<1> QED
  BY <1>1, <1>2 DEF Analyze, VisitElse, VisitUndefined, ElseDone

LEMMA NextInv == Inv /\ [Next]_vars => Inv'
<1> SUFFICES ASSUME Inv, [Next]_vars PROVE Inv'
  OBVIOUS
<1>1. CASE GroupingNext /\ UNCHANGED analysisVars /\ phase # "grouped"
  <2>1. GroupingInv'
    BY <1>1, InvNext DEF Inv
  <2>2. prog' = prog
    BY <1>1, ProgKept
  <2>3. Insts' = Insts /\ Size' = Size
    BY <2>2 DEF Insts, Size
  <2> QED
    BY <1>1, <2>1, <2>3 DEF Inv, AnalysisTypeOK, Unanalysed, analysisVars
<1>2. CASE Analyze /\ UNCHANGED groupingVars /\ phase = "grouped"
  <2>1. GroupingInv'
    BY <1>2, InvNext DEF Inv
  <2>2. phase' = "grouped" /\ vertices' = vertices /\ Insts' = Insts
    BY <1>2 DEF groupingVars, graphVars, Insts, Size
  <2>3. \A v \in Insts : gtype'[v] # "normal" => gtype[v] # "normal" \/ v \in vertices
    BY <1>2, AnalyzeFlags
  <2> QED
    BY <1>2, <2>1, <2>2, <2>3, AnalyzeType DEF Inv, Unanalysed
<1>3. CASE UNCHANGED vars
  <2>1. UNCHANGED groupingVars /\ UNCHANGED analysisVars
    BY <1>3 DEF vars
  <2>2. GroupingInv'
    BY <2>1, InvNext DEF Inv
  <2> QED
    BY <2>1, <2>2 DEF Inv, AnalysisTypeOK, Unanalysed, analysisVars, groupingVars,
      graphVars, Insts, Size
<1> QED
  BY <1>1, <1>2, <1>3, NextParts

THEOREM Invariant == Spec => []Inv
  BY InitInv, NextInv, PTL DEF Spec

(***************************************************************************)
(* Type correctness of the constructor, createGroups and analyze.          *)
(***************************************************************************)
THEOREM TypeCorrect == Spec => []TypeOK
<1>1. Inv => TypeOK
  BY DEF Inv, GroupingInv, AnalysisTypeOK, TypeOK
<1> QED
  BY <1>1, Invariant, PTL

(***************************************************************************)
(* A group that is flagged as some construct is skipped for the others,    *)
(* and is not merged or extended any more.                                 *)
(***************************************************************************)
THEOREM FlagsAreFinal == Spec => FlaggedOnce
<1> DEFINE Kept == \A v \in Insts : gtype[v] # "normal" =>
                     gtype'[v] = gtype[v] /\ v \in vertices' /\ gend'[v] = gend[v]
<1>1. Inv /\ [Next]_vars => [Kept]_vars
  <2> SUFFICES ASSUME Inv, Next PROVE Kept
    BY DEF vars
  <2>1. CASE GroupingNext /\ phase # "grouped"
    BY <2>1 DEF Inv, Unanalysed
  <2>2. CASE Analyze /\ UNCHANGED groupingVars /\ phase = "grouped"
    <3>1. vertices' = vertices /\ gend' = gend
      BY <2>2 DEF groupingVars, graphVars
    <3> QED
      BY <3>1, <2>2, AnalyzeFlags DEF Inv, Unanalysed
  <2> QED
    BY <2>1, <2>2, NextParts
<1> QED
  BY <1>1, Invariant, PTL DEF Spec, FlaggedOnce

----------------------------------------------------------------------------
(***************************************************************************)
(* Undefined behaviour.                                                    *)
(***************************************************************************)
\* What the program must lack for behaviour to become undefined.
Excuse ==
  \/ ~DestinationsKnown
  \/ ~FunctionsSeparate
  \/ \E i \in Insts : IsCondJump(i) /\ ~FallsThrough(i) /\ Dest(i) = 1

\* Every group detectElse asks for its jump target ends with a conditional jump.
IfsBranch == \A v \in Insts : gtype[v] = "if" => IsCondJump(gend[v])

UndefinedExcused ==
  /\ FlowPreserved
  /\ IfsBranch
  /\ phase = "undefined" \/ pass = "undefined" => Excuse

LEMMA ExcuseKept ==
  ASSUME prog' = prog
  PROVE  Excuse' <=> Excuse
  BY SeparateKept
    DEF Excuse, DestinationsKnown, FallsThrough, IsJump, IsCondJump, IsUncondJump, IsReturn,
        Functions, Dest, Insts, Size

\* Where an if group can go: to the destination of its jump, and behind it.
LEMMA IfTargets ==
  ASSUME Inv, FlowPreserved, IfsBranch, FunctionsSeparate, DestinationsKnown,
         NEW v \in vertices, gtype[v] = "if"
  PROVE  LET i == gend[v]
         IN /\ i \in Insts /\ IsCondJump(i) /\ Dest(i) \in Insts
            /\ Successors(v) = {Dest(i)} \cup {w \in {i + 1} : FallsThrough(i)}
<1> DEFINE i == gend[v]
<1>1. /\ GroupsTile /\ IsProgram(prog) /\ vertices \in SUBSET Insts
      /\ edges \in SUBSET (vertices \X vertices) /\ gend \in [Insts -> Insts]
      /\ addrMap \in [Insts -> Insts]
  BY DEF Inv, GroupingInv, GroupingTypeOK, GraphTypeOK
<1>2. Insts = 1 .. Size /\ Size \in Nat /\ FlowEdges \in SUBSET (Insts \X Insts)
  BY <1>1, ProgramFacts, FlowEdgesType
<1>3. v \in Insts /\ i \in Insts /\ v <= i /\ addrMap[i] = v
  <2>1. v \in Insts /\ i \in Insts /\ v <= i
    BY <1>1 DEF GroupsTile
  <2>2. i \in v .. gend[v]
    BY <2>1, <1>2
  <2> QED
    BY <2>1, <2>2, <1>1 DEF GroupsTile
<1>4. IsCondJump(i) /\ Dest(i) \in Insts
  BY <1>3 DEF IfsBranch, DestinationsKnown, IsJump
<1>5. edges = {<<addrMap[e[1]], e[2]>> : e \in {f \in FlowEdges : f[1] = gend[addrMap[f[1]]]}}
  BY DEF FlowPreserved
<1>6. \A w \in Insts : <<i, w>> \in FlowEdges <=> w = Dest(i) \/ (w = i + 1 /\ FallsThrough(i))
  BY <1>3, <1>4 DEF FlowEdges, IsJump
<1>7. \A w \in Insts : <<v, w>> \in edges <=> <<i, w>> \in FlowEdges
  <2> SUFFICES ASSUME NEW w \in Insts
               PROVE  <<v, w>> \in edges <=> <<i, w>> \in FlowEdges
    OBVIOUS
  <2>1. ASSUME <<i, w>> \in FlowEdges
        PROVE  <<v, w>> \in edges
    <3>1. <<i, w>> \in {f \in FlowEdges : f[1] = gend[addrMap[f[1]]]}
      BY <2>1, <1>3
    <3>2. <<addrMap[i], w>> \in edges
      BY <3>1, <1>5
    <3> QED
      BY <3>2, <1>3
  <2>2. ASSUME <<v, w>> \in edges
        PROVE  <<i, w>> \in FlowEdges
    <3>1. PICK e \in FlowEdges : e[1] = gend[addrMap[e[1]]] /\ <<v, w>> = <<addrMap[e[1]], e[2]>>
      BY <2>2, <1>5
    <3>2. e = <<e[1], e[2]>> /\ e[1] = i /\ e[2] = w
      BY <3>1, <1>2
    <3> QED
      BY <3>2
  <2> QED
    BY <2>1, <2>2
<1>8. \A w \in Insts : w \in Successors(v) <=> <<v, w>> \in edges
  BY <1>1 DEF Successors
<1>9. Successors(v) \in SUBSET Insts /\ (FallsThrough(i) => i + 1 \in Insts)
  BY <1>1 DEF Successors, FallsThrough
<1> QED
  BY <1>3, <1>4, <1>6, <1>7, <1>8, <1>9

LEMMA ElseUndefinedExcused ==
  ASSUME Inv, FlowPreserved, IfsBranch, NEW v \in vertices, ElseUndefined(v)
  PROVE  Excuse
<1> SUFFICES ASSUME FunctionsSeparate, DestinationsKnown
             PROVE  \E i \in Insts : IsCondJump(i) /\ ~FallsThrough(i) /\ Dest(i) = 1
  BY DEF Excuse
<1> DEFINE i == gend[v]
<1>1. /\ i \in Insts /\ IsCondJump(i) /\ Dest(i) \in Insts
      /\ Successors(v) = {Dest(i)} \cup {w \in {i + 1} : FallsThrough(i)}
  BY IfTargets DEF ElseUndefined
<1>2. Insts = 1 .. Size /\ Size \in Nat /\ Base \in Nat
  BY ProgramFacts, BaseAssumption DEF Inv, GroupingInv, GroupingTypeOK, GraphTypeOK
<1> HIDE DEF i
<1>3. i \in Nat /\ Dest(i) \in Nat /\ i >= 1 /\ Dest(i) >= 1
  BY <1>1, <1>2
<1>4. \A t \in Successors(v) : t \in Nat /\ (t > 1 => Address(t) > 0)
  BY <1>1, <1>2, <1>3 DEF Address
<1>5. ASSUME NEW m \in Successors(v), \A w \in Successors(v) : w <= m, m > 1
      PROVE  FALSE
  <2>1. m \in JumpTargets(v)
    BY <1>4, <1>5 DEF JumpTargets
  <2>2. 1 \notin JumpTargets(v)
    BY <1>5, <1>4 DEF JumpTargets
  <2> QED
    BY <2>1, <2>2 DEF ElseUndefined
<1>6. CASE FallsThrough(i)
  <2>1. Successors(v) = {Dest(i), i + 1}
    BY <1>1, <1>6
  <2>2. CASE Dest(i) <= i + 1
    <3>1. i + 1 \in Successors(v) /\ \A w \in Successors(v) : w <= i + 1
      BY <2>1, <2>2, <1>3
    <3> QED
      BY <3>1, <1>3, <1>5
  <2>3. CASE i + 1 < Dest(i)
    <3>1. Dest(i) \in Successors(v) /\ \A w \in Successors(v) : w <= Dest(i)
      BY <2>1, <2>3, <1>3
    <3> QED
      BY <3>1, <2>3, <1>3, <1>5
  <2> QED
    BY <2>2, <2>3, <1>3
<1>7. CASE ~FallsThrough(i)
  <2>1. Successors(v) = {Dest(i)}
    BY <1>1, <1>7
  <2>2. Dest(i) = 1
    BY <2>1, <1>3, <1>5
  <2> QED
    BY <2>2, <1>1, <1>7
<1> QED
  BY <1>6, <1>7

\* Only detectIf reports an if, and only where a group ends with a conditional jump.
LEMMA AnalyzeIfs ==
  ASSUME Analyze, UNCHANGED groupingVars, IfsBranch, vertices \in SUBSET Insts
  PROVE  IfsBranch'
<1>1. gend' = gend /\ prog' = prog /\ Insts' = Insts
  BY DEF groupingVars, graphVars, Insts, Size
<1>2. ASSUME \A v \in Insts : gtype'[v] = "if" => gtype[v] = "if" \/ IsCondJump(gend[v])
      PROVE  IfsBranch'
  BY <1>1, <1>2 DEF IfsBranch, IsCondJump
<1>3. CASE DetectDoWhile \/ DetectWhile \/ DetectBreak \/ DetectContinue
  BY <1>2, <1>3 DEF DetectDoWhile, DetectWhile, DetectBreak, DetectContinue, Detect, Flag
<1>4. CASE DetectIf
  BY <1>2, <1>4 DEF DetectIf, Detect, Flag, IfConds
<1>5. CASE UNCHANGED gtype
  BY <1>2, <1>5
<1> QED
  BY <1>3, <1>4, <1>5 DEF Analyze, VisitElse, VisitUndefined, ElseDone

LEMMA UndefinedInit == Init => UndefinedExcused
<1> SUFFICES ASSUME Init PROVE UndefinedExcused
  OBVIOUS
<1>1. FlowPreserved
  BY FlowInit DEF Init
<1>2. IfsBranch
  BY DEF Init, IfsBranch
<1>3. phase = "undefined" => ~DestinationsKnown
  BY DEF Init, GroupingInit
<1> QED
  BY <1>1, <1>2, <1>3 DEF UndefinedExcused, Excuse, Init

LEMMA UndefinedNext == Inv /\ UndefinedExcused /\ [Next]_vars => UndefinedExcused'
<1> SUFFICES ASSUME Inv, UndefinedExcused, [Next]_vars PROVE UndefinedExcused'
  OBVIOUS
<1>1. [GroupingNext]_groupingVars
  BY NextParts DEF vars
<1>2. FlowPreserved' /\ (Excuse' <=> Excuse)
  BY <1>1, FlowNext, ProgKept, ExcuseKept DEF Inv, UndefinedExcused
<1>3. CASE GroupingNext /\ UNCHANGED analysisVars /\ phase # "grouped"
  <2>1. gtype' = [i \in Insts |-> "normal"] /\ Insts' = Insts /\ pass' = pass
    BY <1>3, <1>1, ProgKept DEF Inv, Unanalysed, analysisVars, Insts, Size
  <2>2. IfsBranch'
    BY <2>1 DEF IfsBranch
  <2>3. phase' = "undefined" => phase = "undefined"
    BY <1>3 DEF GroupingNext, StartFunction, VisitVertex, RevisitVertex, LevelsAssigned,
      SkipUnreachable, EndGroup, EndStatement, MergeNext, SweepDone
  <2> QED
    BY <2>1, <2>2, <2>3, <1>2 DEF UndefinedExcused
<1>4. CASE Analyze /\ UNCHANGED groupingVars /\ phase = "grouped"
  <2>1. IfsBranch'
    BY <1>4, AnalyzeIfs DEF Inv, GroupingInv, GroupingTypeOK, GraphTypeOK, UndefinedExcused
  <2>2. phase' = "grouped"
    BY <1>4 DEF groupingVars
  <2>3. ASSUME pass' = "undefined"
        PROVE  Excuse
    <3>1. CASE \E v \in vertices : VisitUndefined(v)
      BY <3>1, ElseUndefinedExcused DEF VisitUndefined, UndefinedExcused
    <3>2. CASE pass = "undefined"
      BY <3>2 DEF UndefinedExcused
    <3> QED
      BY <3>1, <3>2, <2>3, <1>4
        DEF Analyze, DetectDoWhile, DetectWhile, DetectBreak, DetectContinue, DetectIf, Detect,
            VisitElse, ElseDone
  <2> QED
    BY <2>1, <2>2, <2>3, <1>2 DEF UndefinedExcused
<1>5. CASE UNCHANGED vars
  <2>1. UNCHANGED <<phase, pass, gtype, gend, prog>>
    BY <1>5 DEF vars, groupingVars, graphVars, analysisVars
  <2>2. IfsBranch'
    BY <2>1 DEF IfsBranch, IsCondJump, Insts, Size, UndefinedExcused
  <2> QED
    BY <2>1, <2>2, <1>2 DEF UndefinedExcused
<1> QED
  BY <1>3, <1>4, <1>5, NextParts

(***************************************************************************)
(* createGroups and analyze only reach undefined behaviour in a program    *)
(* with a jump to no instruction, with functions that run into each other, *)
(* or with a conditional jump to the first instruction that has nothing    *)
(* behind it: whatever the other jumps do, and wherever the program is     *)
(* loaded, find is given an address it knows and detectElse a jump target  *)
(* with a group before it.                                                 *)
(***************************************************************************)
THEOREM UndefinedOnlyThere == Spec => []AnalysisDefined
<1>1. UndefinedExcused => AnalysisDefined
  BY DEF UndefinedExcused, Excuse, AnalysisDefined
<1>2. Spec => []UndefinedExcused
  BY UndefinedInit, UndefinedNext, Invariant, PTL DEF Spec
<1> QED
  BY <1>1, <1>2, PTL

----------------------------------------------------------------------------
(***************************************************************************)
(* Else blocks.                                                            *)
(***************************************************************************)
\* A vertex behind another one is behind the end of its group, and the next
\* one after that end is a vertex.
LEMMA NextVertex ==
  ASSUME Inv, NEW c \in vertices, NEW w \in vertices, c < w
  PROVE  /\ gend[c] + 1 \in vertices
         /\ c < gend[c] + 1 /\ gend[c] + 1 <= w
         /\ prev[gend[c] + 1] = c
<1> DEFINE n == gend[c] + 1
<1>1. /\ GroupsTile /\ IsProgram(prog) /\ vertices \in SUBSET Insts
      /\ gend \in [Insts -> Insts] /\ addrMap \in [Insts -> Insts]
  BY DEF Inv, GroupingInv, GroupingTypeOK, GraphTypeOK
<1>2. Insts = 1 .. Size /\ Size \in Nat
  BY <1>1, ProgramFacts
<1>3. c \in Insts /\ w \in Insts /\ gend[c] \in Insts /\ addrMap[c] = c /\ addrMap[w] = w
  BY <1>1 DEF GroupsTile
<1>4. c <= gend[c]
  BY <1>1, <1>3 DEF GroupsTile
<1>5. \A i \in c .. gend[c] : addrMap[i] = c
  BY <1>1 DEF GroupsTile
<1>6. gend[c] < w
  BY <1>2, <1>3, <1>5
<1>7. n \in Insts /\ c < n /\ n <= w /\ n # 1 /\ n - 1 = gend[c]
  BY <1>2, <1>3, <1>4, <1>6
<1>8. addrMap[gend[c]] = c
  BY <1>2, <1>3, <1>4, <1>5
<1>9. n \in vertices
  <2> DEFINE u == addrMap[n]
  <2>1. u \in vertices /\ u \in Insts /\ u <= n /\ n <= gend[u]
    BY <1>1, <1>7 DEF GroupsTile
  <2>2. \A i \in u .. gend[u] : addrMap[i] = u
    BY <2>1, <1>1 DEF GroupsTile
  <2>3. gend[u] \in Insts
    BY <2>1, <1>1
  <2> HIDE DEF u
  <2>4. CASE u < n
    <3>1. gend[c] \in u .. gend[u]
      BY <2>1, <2>3, <2>4, <1>2, <1>3
    <3>2. u = c
      BY <3>1, <2>2, <1>8
    <3> QED
      BY <3>2, <2>1, <1>2, <1>3
  <2> QED
    BY <2>1, <2>4, <1>2, <1>7
<1>10. prev[n] = addrMap[n - 1]
  BY <1>1, <1>7, <1>9 DEF GroupsTile
<1> QED
  BY <1>7, <1>8, <1>9, <1>10

\* What detectElse records for v ends inside every block it begins in.
LEMMA NewElseInside ==
  ASSUME Inv, NEW v, NEW b \in ElseBlocks(v), NEW w \in vertices, prev[b[2]] = w,
         NEW c \in ElseExtents, c[1] < b[1], b[1] <= c[2]
  PROVE  w <= c[2]
<1>1. /\ GroupsTile /\ IsProgram(prog) /\ vertices \in SUBSET Insts /\ addrMap \in [Insts -> Insts]
  BY DEF Inv, GroupingInv, GroupingTypeOK, GraphTypeOK
<1>2. Insts = 1 .. Size /\ Size \in Nat
  BY <1>1, ProgramFacts
<1>3. PICK c1 \in Insts, c2 \in vertices : c1 = c[1] /\ c2 = c[2] /\ c1 \in endElse[c2]
  BY DEF ElseExtents
<1>4. PICK s \in vertices, e \in vertices : s = b[1] /\ e = b[2] /\ ValidateElseBlock(v, s, e)
  BY DEF ElseBlocks, JumpTargets, Successors
<1>5. c1 < s /\ s <= c2 /\ prev[e] = w
  BY <1>3, <1>4
<1>6. w < e
  <2>1. e # 1
    BY <1>1, <1>2, <1>5 DEF GroupsTile, NULL
  <2>2. e - 1 \in Insts
    BY <2>1, <1>1, <1>2
  <2>3. w = addrMap[e - 1]
    BY <2>1, <1>1, <1>5 DEF GroupsTile
  <2>4. w <= e - 1
    BY <2>2, <2>3, <1>1 DEF GroupsTile
  <2> QED
    BY <2>4, <1>1, <1>2
<1>7. SUFFICES ASSUME ~(w <= c2) PROVE FALSE
  BY <1>3
<1>8. c2 < w
  BY <1>7, <1>1, <1>2
<1>9. PICK n \in vertices : c2 < n /\ n <= w /\ prev[n] = c2
  BY <1>8, NextVertex
<1>10. s <= n /\ n < e
  BY <1>1, <1>2, <1>5, <1>6, <1>9
<1>11. \A x \in endElse[c2] : s <= x
  BY <1>4, <1>9, <1>10 DEF ValidateElseBlock
<1>12. s <= c1
  BY <1>3, <1>11
<1> QED
  BY <1>1, <1>2, <1>5, <1>12

\* Grouping only ever removes vertices, and the detectors none.
LEMMA VerticesShrink ==
  ASSUME Inv, [Next]_vars
  PROVE  vertices' \in SUBSET vertices /\ Insts' = Insts
<1>1. [GroupingNext]_groupingVars
  BY NextParts DEF vars
<1>2. Insts' = Insts
  BY <1>1, ProgKept DEF Insts, Size
<1>3. vertices' \in SUBSET vertices
  BY <1>1, MergeOrNot DEF graphVars, Merge
<1> QED
  BY <1>2, <1>3

(***************************************************************************)
(* An else block that begins in one recorded before it ends in it as well: *)
(* validateElseBlock looks at every group between its borders for an else  *)
(* that ended just before, and the group behind the older else is one.     *)
(***************************************************************************)
THEOREM ElsesEndInside == Spec => ElseEndsKept
<1> DEFINE Kept == \A b \in ElseExtents' \ ElseExtents, c \in ElseExtents :
                     c[1] < b[1] /\ b[1] <= c[2] => b[2] <= c[2]
<1>1. Inv /\ [Next]_vars => [Kept]_vars
  <2> SUFFICES ASSUME Inv, Next,
                      NEW b \in ElseExtents' \ ElseExtents, NEW c \in ElseExtents,
                      c[1] < b[1], b[1] <= c[2]
               PROVE  b[2] <= c[2]
    BY DEF vars
  <2>1. b \in Insts \X vertices /\ b[1] \in endElse'[b[2]] /\ b[1] \notin endElse[b[2]]
    BY VerticesShrink DEF ElseExtents
  <2>2. PICK v \in vertices : VisitElse(v)
    BY <2>1 DEF Next, analysisVars, Analyze, DetectDoWhile, DetectWhile, DetectBreak,
      DetectContinue, DetectIf, Detect, VisitUndefined, ElseDone
  <2> DEFINE blocks == IF gtype[v] = "if" THEN ElseBlocks(v) ELSE {}
  <2>3. endElse' = [w \in Insts |->
           endElse[w] \cup {x[1] : x \in {y \in blocks : prev[y[2]] = w}}]
    BY <2>2 DEF VisitElse
  <2>4. vertices \in SUBSET Insts
    BY DEF Inv, GroupingInv, GroupingTypeOK, GraphTypeOK
  <2>5. PICK x \in blocks : prev[x[2]] = b[2] /\ b[1] = x[1]
    <3> HIDE DEF blocks
    <3>1. b[2] \in Insts
      BY <2>1, <2>4
    <3>2. endElse'[b[2]] = endElse[b[2]] \cup {x[1] : x \in {y \in blocks : prev[y[2]] = b[2]}}
      BY <2>3, <3>1
    <3> QED
      BY <2>1, <3>2
  <2>6. x \in ElseBlocks(v) /\ b[2] \in vertices
    BY <2>1, <2>5
  <2> QED
    BY <2>5, <2>6, NewElseInside
<1> QED
  BY <1>1, Invariant, PTL DEF Spec, ElseEndsKept

=============================================================================
