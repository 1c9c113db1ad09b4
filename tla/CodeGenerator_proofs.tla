------------------------ MODULE CodeGenerator_proofs ------------------------
(***************************************************************************)
(* Proofs about the code generator, for every program: it keeps its types, *)
(* the values it has on its stack are those of a path of the program,      *)
(* whatever the grouping and the order in which the groups are processed,  *)
(* and each statement that can be reached is printed once.                 *)
(***************************************************************************)
EXTENDS CodeGenerator, ControlFlow_proofs, SequenceTheorems

----------------------------------------------------------------------------
(***************************************************************************)
(* Sequences.                                                              *)
(***************************************************************************)
LEMMA FrontFacts ==
  ASSUME NEW T, NEW s \in Seq(T), s # <<>>
  PROVE  /\ Len(s) - 1 \in Nat
         /\ Last(s) = s[Len(s)] /\ Last(s) \in T
         /\ Front(s) \in Seq(T) /\ Len(Front(s)) = Len(s) - 1
         /\ \A k \in 1 .. Len(s) - 1 : Front(s)[k] = s[k]
<1> DEFINE n == Len(s) - 1
<1>1. n \in Nat /\ Len(s) = n + 1 /\ Last(s) = s[Len(s)] /\ Last(s) \in T
  BY DEF Last
<1>2. \A k \in 1 .. n : s[k] \in T /\ 1 + k - 1 = k
  BY <1>1
<1>3. n - 1 + 1 = n /\ n \in Int
  BY <1>1
<1>4. Front(s) = SubSeq(s, 1, n)
  BY DEF Front
<1> HIDE DEF n
<1>5. /\ SubSeq(s, 1, n) \in Seq(T)
      /\ Len(SubSeq(s, 1, n)) = IF 1 <= n THEN n - 1 + 1 ELSE 0
      /\ \A k \in 1 .. n - 1 + 1 : SubSeq(s, 1, n)[k] = s[1 + k - 1]
  BY <1>2, <1>3, SubSeqProperties
<1>6. Front(s) \in Seq(T) /\ Len(Front(s)) = n /\ \A k \in 1 .. n : Front(s)[k] = s[k]
  BY <1>1, <1>2, <1>3, <1>4, <1>5
<1> QED
  BY <1>1, <1>6 DEF n

\* What the pairs of the elements of a set and m are.
LEMMA PairsPushed ==
  ASSUME NEW S, IsFiniteSet(S), NEW order \in SetToSeqs(S), NEW m
  PROVE  LET pushed == [k \in DOMAIN order |-> <<order[k], m>>]
         IN /\ pushed \in Seq(S \X {m}) /\ Len(pushed) = Cardinality(S)
            /\ \A k \in 1 .. Cardinality(S) : pushed[k] = <<order[k], m>>
<1> DEFINE pushed == [k \in DOMAIN order |-> <<order[k], m>>]
<1>1. Cardinality(S) \in Nat /\ DOMAIN order = 1 .. Cardinality(S)
  BY FS_CardinalityType DEF SetToSeqs
<1>2. pushed \in Seq(S \X {m})
  BY PushedType
<1>3. DOMAIN pushed = 1 .. Cardinality(S) /\ \A k \in 1 .. Cardinality(S) : pushed[k] = <<order[k], m>>
  BY <1>1
<1> HIDE DEF pushed
<1>4. Len(pushed) = Cardinality(S)
  BY <1>1, <1>2, <1>3
<1> QED
  BY <1>2, <1>3, <1>4 DEF pushed

----------------------------------------------------------------------------
(***************************************************************************)
(* What the recursive functions of the generator yield: the depth of the   *)
(* stack at each instruction of a group, and the indentation after a line. *)
(***************************************************************************)
LEMMA EffectInt ==
  ASSUME IsProgram(prog), NEW i \in Insts
  PROVE  Effect(i) \in Int
  BY ProgramFacts DEF Effect

LEMMA DepthsDefined ==
  ASSUME IsProgram(prog), NEW v \in Insts, gend[v] \in Insts, v <= gend[v], NEW d \in Int
  PROVE  /\ Depths(v, d)[v] = d
         /\ \A i \in v + 1 .. gend[v] + 1 : Depths(v, d)[i] = Depths(v, d)[i - 1] + Effect(i - 1)
         /\ \A i \in v .. gend[v] + 1 : Depths(v, d)[i] \in Int
<1> DEFINE hi == gend[v] + 1
           G == [k \in v + 1 .. hi |-> [x \in Int |-> x + Effect(k - 1)]]
           Eqn(h) == h = [i \in v .. gend[v] + 1 |-> IF i = v THEN d ELSE h[i - 1] + Effect(i - 1)]
<1>1. v \in Int /\ hi \in Int /\ v <= hi /\ \A k \in v + 1 .. hi : k - 1 \in Insts
  BY ProgramFacts
<1>2. \A k \in v + 1 .. hi : \A x \in Int : G[k][x] = x + Effect(k - 1) /\ G[k][x] \in Int
  BY <1>1, EffectInt
<1>3. Solvable(Int, d, v, hi, G)
  <2> HIDE DEF hi, G
  <2> QED
    BY <1>1, <1>2, RecursionBetween
<1>4. PICK g \in [v .. hi -> Int] : g[v] = d /\ \A k \in v + 1 .. hi : g[k] = G[k][g[k - 1]]
  BY <1>3 DEF Solvable
<1>5. Eqn(g)
  <2>1. ASSUME NEW i \in v + 1 .. hi
        PROVE  g[i] = g[i - 1] + Effect(i - 1)
    <3>1. g[i - 1] \in Int
      BY <1>1, <1>4
    <3> QED
      BY <3>1, <1>2, <1>4
  <2>2. \A i \in v .. hi : i = v \/ i \in v + 1 .. hi
    BY <1>1
  <2>3. \A i \in v .. hi : g[i] = IF i = v THEN d ELSE g[i - 1] + Effect(i - 1)
    BY <2>1, <2>2, <1>4
  <2> HIDE DEF G
  <2> QED
    BY <2>3, <1>4
<1> HIDE DEF G
<1> DEFINE depth == CHOOSE h : Eqn(h)
<1>6. Eqn(depth)
  <2> HIDE DEF Eqn
  <2> QED
    BY <1>5
<1>7. Depths(v, d) = depth
  BY DEF Depths
<1> HIDE DEF depth
<1>8. \A i \in v .. hi : depth[i] = IF i = v THEN d ELSE depth[i - 1] + Effect(i - 1)
  BY <1>6
<1>9. v \in v .. hi /\ \A i \in v + 1 .. hi : i \in v .. hi /\ i # v
  BY <1>1
<1>10. depth[v] = d /\ \A i \in v + 1 .. hi : depth[i] = depth[i - 1] + Effect(i - 1)
  BY <1>8, <1>9
<1>11. \A i \in v .. hi : depth[i] \in Int
  <2>1. \A i \in v + 1 .. hi : depth[i - 1] \in Int => depth[i] \in Int
    BY <1>1, <1>10, EffectInt
  <2> HIDE DEF hi
  <2> QED
    BY <2>1, <1>1, <1>10, RecursionTyped
<1> QED
  BY <1>7, <1>10, <1>11

LEMMA IndentInt ==
  ASSUME indent \in Int, NEW c, NEW k \in Nat
  PROVE  IndentAfter(c, k) \in Int
<1> DEFINE f(j, x) == IF x < 0 \/ (x = 0 /\ c[j].unindentBefore) THEN -1
                      ELSE x - (IF c[j].unindentBefore THEN 1 ELSE 0)
                             + (IF c[j].indentAfter THEN 1 ELSE 0)
           G == [j \in 0 + 1 .. k |-> [x \in Int |-> f(j, x)]]
           Eqn(h) == h = [j \in 0 .. k |->
                            IF j = 0 THEN indent
                            ELSE IF h[j - 1] < 0 \/ (h[j - 1] = 0 /\ c[j].unindentBefore) THEN -1
                            ELSE h[j - 1] - (IF c[j].unindentBefore THEN 1 ELSE 0)
                                          + (IF c[j].indentAfter THEN 1 ELSE 0)]
<1>1. \A j : \A x \in Int : f(j, x) \in Int
  OBVIOUS
<1>2. \A h : Eqn(h) <=> h = [j \in 0 .. k |-> IF j = 0 THEN indent ELSE f(j, h[j - 1])]
  OBVIOUS
<1> HIDE DEF f
<1>3. \A j \in 0 + 1 .. k : \A x \in Int : G[j][x] = f(j, x) /\ G[j][x] \in Int
  BY <1>1
<1> DEFINE a == indent
<1>4. Solvable(Int, a, 0, k, G)
  <2>1. 0 \in Int /\ k \in Int /\ 0 <= k /\ a \in Int
    OBVIOUS
  <2> HIDE DEF a, G
  <2> QED
    BY <2>1, <1>3, RecursionBetween
<1>5. PICK g \in [0 .. k -> Int] : g[0] = a /\ \A j \in 0 + 1 .. k : g[j] = G[j][g[j - 1]]
  BY <1>4 DEF Solvable
<1>6. Eqn(g)
  <2>1. ASSUME NEW j \in 0 + 1 .. k
        PROVE  g[j] = f(j, g[j - 1])
    <3>1. g[j - 1] \in Int
      BY <1>5
    <3> QED
      BY <3>1, <1>3, <1>5
  <2>2. \A j \in 0 .. k : j = 0 \/ j \in 0 + 1 .. k
    OBVIOUS
  <2>3. \A j \in 0 .. k : g[j] = IF j = 0 THEN indent ELSE f(j, g[j - 1])
    BY <2>1, <2>2, <1>5
  <2>4. g = [j \in 0 .. k |-> IF j = 0 THEN indent ELSE f(j, g[j - 1])]
    <3> HIDE DEF G
    <3> QED
      BY <2>3, <1>5
  <2> HIDE DEF Eqn
  <2> QED
    BY <2>4, <1>2
<1> HIDE DEF G
<1> DEFINE after == CHOOSE h : Eqn(h)
<1>7. IndentAfter(c, k) = after[k]
  BY DEF IndentAfter
<1>8. Eqn(after)
  <2> HIDE DEF Eqn
  <2> QED
    BY <1>6
<1> HIDE DEF after, Eqn
<1>9. \A j \in 0 .. k : after[j] = IF j = 0 THEN indent ELSE f(j, after[j - 1])
  BY <1>2, <1>8
<1>10. after[0] \in Int /\ \A j \in 0 + 1 .. k : after[j - 1] \in Int => after[j] \in Int
  <2>1. 0 \in 0 .. k /\ \A j \in 0 + 1 .. k : j \in 0 .. k /\ j # 0
    OBVIOUS
  <2> QED
    BY <2>1, <1>1, <1>9
<1>11. \A j \in 0 .. k : after[j] \in Int
  <2>1. 0 \in Int /\ k \in Int
    OBVIOUS
  <2> QED
    BY <2>1, <1>10, RecursionTyped
<1>12. k \in 0 .. k
  OBVIOUS
<1> QED
  BY <1>7, <1>11, <1>12

----------------------------------------------------------------------------
(***************************************************************************)
(* Types.                                                                  *)
(***************************************************************************)
Lines == [text : Texts, unindentBefore : BOOLEAN, indentAfter : BOOLEAN]

LEMMA LinesType ==
  /\ <<>> \in Seq(Lines)
  /\ \A text \in Texts :
       /\ Statement(text) \in Seq(Lines) /\ Opens(text) \in Seq(Lines)
       /\ Closes(text) \in Seq(Lines) /\ Reopens(text) \in Seq(Lines)
<1>1. \A text \in Texts, u, a \in BOOLEAN : <<Line(text, u, a)>> \in Seq(Lines)
  <2> SUFFICES ASSUME NEW text \in Texts, NEW u \in BOOLEAN, NEW a \in BOOLEAN
               PROVE  <<Line(text, u, a)>> \in Seq(Lines)
    OBVIOUS
  <2>1. Line(text, u, a) \in Lines
    BY DEF Line, Lines
  <2> QED
    BY <2>1
<1>2. <<>> \in Seq(Lines) /\ TRUE \in BOOLEAN /\ FALSE \in BOOLEAN
  OBVIOUS
<1> HIDE DEF Lines, Texts
<1>3. ASSUME NEW text \in Texts
      PROVE  /\ Statement(text) \in Seq(Lines) /\ Opens(text) \in Seq(Lines)
             /\ Closes(text) \in Seq(Lines) /\ Reopens(text) \in Seq(Lines)
  BY <1>1, <1>2 DEF Statement, Opens, Closes, Reopens
<1> QED
  BY <1>2, <1>3

\* The lines the edges and the else blocks add, whatever is said of each of them.
LEMMA EdgeLinesOf ==
  ASSUME Inv, NEW L, {<<>>, Opens("do"), Closes("end")} \subseteq Seq(L),
         NEW v \in vertices, NEW order \in Orders(Predecessors(v))
  PROVE  EdgeLines(v, order) \in Seq(L)
<1>1. IsFiniteSet(Insts)
  BY ProgramFacts, FS_Interval DEF Inv, GroupingInv, GroupingTypeOK, GraphTypeOK
<1>2. Predecessors(v) \in SUBSET Insts
  BY DEF Predecessors, Inv, GroupingInv, GroupingTypeOK, GraphTypeOK
<1>3. IsFiniteSet(Predecessors(v))
  BY <1>1, <1>2, FS_Subset
<1>4. \A u : EdgeLine(u, v) \in Seq(L)
  <2>1. Opens("do") \in Seq(L) /\ Closes("end") \in Seq(L) /\ <<>> \in Seq(L)
    OBVIOUS
  <2> QED
    BY <2>1 DEF EdgeLine
<1>5. Cardinality(Predecessors(v)) \in Nat /\ DOMAIN order = 1 .. Cardinality(Predecessors(v))
  BY <1>3, FS_CardinalityType DEF Orders, SetToSeqs
<1>6. [k \in DOMAIN order |-> EdgeLine(order[k], v)]
        \in [1 .. Cardinality(Predecessors(v)) -> Seq(L)]
  BY <1>4, <1>5
<1> QED
  BY <1>5, <1>6, FlattenType DEF EdgeLines

LEMMA ElseEndsOf ==
  ASSUME Inv, NEW L, Closes("end") \in Seq(L), NEW v \in Insts
  PROVE  ElseEnds(v) \in Seq(L)
<1>1. IsProgram(prog) /\ endElse[v] \in SUBSET Insts
  BY DEF Inv, GroupingInv, GroupingTypeOK, GraphTypeOK, AnalysisTypeOK
<1>5. IsFiniteSet(Insts)
  BY <1>1, ProgramFacts, FS_Interval
<1> DEFINE n == Cardinality(endElse[v] \ coalesced')
<1>2. n \in Nat
  BY <1>1, <1>5, FS_Subset, FS_CardinalityType
<1>3. [k \in 1 .. n |-> Closes("end")] \in [1 .. n -> Seq(L)]
  OBVIOUS
<1> HIDE DEF n
<1>4. FlattenSeq([k \in 1 .. n |-> Closes("end")]) \in Seq(L)
  BY <1>2, <1>3, FlattenType
<1> QED
  BY <1>4 DEF ElseEnds, n

\* A vertex that is generated, and the lines its code is made of.
LEMMA CodeType ==
  ASSUME Inv, code \in [Insts -> Seq(Lines)], NEW v \in vertices,
         NEW order \in Orders(Predecessors(v))
  PROVE  CodeOf(v, Before(v, order)) \in Seq(Lines)
<1>1. /\ vertices \in SUBSET Insts /\ IsFiniteSet(Insts) /\ v \in Insts /\ Insts = 1 .. Size
      /\ Size \in Nat /\ gend[v] \in Insts /\ v <= gend[v]
  <2>1. /\ IsProgram(prog) /\ vertices \in SUBSET Insts /\ v \in Insts /\ gend[v] \in Insts
        /\ v <= gend[v]
    BY DEF Inv, GroupingInv, GroupingTypeOK, GraphTypeOK, GroupsTile
  <2>2. Insts = 1 .. Size /\ Size \in Nat
    BY <2>1, ProgramFacts
  <2> QED
    BY <2>1, <2>2, FS_Interval
<1>2. code[v] \in Seq(Lines) /\ ElseStart(v) \in Seq(Lines)
  BY <1>1, LinesType DEF ElseStart, Texts
<1>3. EdgeLines(v, order) \in Seq(Lines)
  BY LinesType, EdgeLinesOf DEF Texts
<1>4. InstLines(v) \in Seq(Lines)
  <2> DEFINE n == gend[v] - v + 1
  <2>1. n \in Nat
    BY <1>1
  <2>2. \A i : InstLine(i) \in Seq(Lines)
    BY LinesType DEF InstLine, Texts
  <2>3. [k \in 1 .. n |-> InstLine(v + k - 1)] \in [1 .. n -> Seq(Lines)]
    BY <2>2
  <2>4. FlattenSeq([k \in 1 .. n |-> InstLine(v + k - 1)]) \in Seq(Lines)
    <3> HIDE DEF n
    <3> QED
      BY <2>1, <2>3, FlattenType
  <2> QED
    BY <2>4 DEF InstLines
<1> DEFINE before == Before(v, order)
<1>5. before \in Seq(Lines)
  BY <1>2, <1>3, <1>4 DEF Before
<1>6. CondLine(v) \in Seq(Lines) /\ UncondLine(v) \in Seq(Lines) /\ Reopens("elseif") \in Seq(Lines)
  BY LinesType DEF CondLine, UncondLine, Texts
<1> HIDE DEF before
<1>7. before \o CondLine(v) \in Seq(Lines) /\ before \o UncondLine(v) \in Seq(Lines)
  BY <1>5, <1>6
<1>8. CodeOf(v, before) \in Seq(Lines)
  BY <1>5, <1>6, <1>7 DEF CodeOf
<1> QED
  BY <1>8 DEF before

(***************************************************************************)
(* The inductive invariant of the generator.  It runs when the analysis is *)
(* done, so the graph stands still; the vertices on its stack are groups.  *)
(***************************************************************************)
GenTypes ==
  /\ gen \in {"start", "process", "print", "done", "undefined", "failed"}
  /\ func \in Functions \cup {0}
  /\ dfsStack \in Seq(vertices \X Int)
  /\ found \in SUBSET vertices
  /\ lastGroup \in Insts \cup {NULL}
  /\ code \in [Insts -> Seq(Lines)]
  /\ coalesced \in SUBSET Insts
  /\ printing \in Insts \cup {NULL}
  /\ indent \in Nat
  /\ output \in Seq(Texts)

AfterAnalysis ==
  /\ gen # "start" \/ func # 0 => pass = "done"
  /\ pass # "done" => dfsStack = <<>> /\ found = {}

GenInv == Inv /\ GenTypes /\ AfterAnalysis

LEMMA GenInvInit == GenInit => GenInv
<1> SUFFICES ASSUME GenInit PROVE GenInv
  OBVIOUS
<1>1. Inv
  BY InitInv DEF GenInit
<1>2. <<>> \in Seq(vertices \X Int) /\ <<>> \in Seq(Texts)
  OBVIOUS
<1> QED
  BY <1>1, <1>2, LinesType DEF GenInit, GenInv, GenTypes, AfterAnalysis

\* A step of the generator leaves the analysis as it is.
LEMMA GenSteps ==
  ASSUME Inv, AfterAnalysis, [GenNext]_allVars
  PROVE  /\ [Next]_vars
         /\ \/ Generate /\ UNCHANGED vars /\ pass = "done"
            \/ UNCHANGED genVars /\ gen = "start" /\ func = 0 /\ pass # "done"
            \/ UNCHANGED genVars /\ UNCHANGED vars
<1>1. CASE Generate
  <2>1. UNCHANGED vars /\ pass = "done"
    BY <1>1 DEF Generate, StartFunctionCode, ProcessGroup, PopEmptyStack, EndFunctionCode,
      PrintGroup, IndentationFails, FunctionPrinted, Analysed
  <2> QED
    BY <1>1, <2>1
<1>2. CASE Next /\ UNCHANGED genVars
  <2>1. pass # "done"
    <3>1. CASE phase # "grouped"
      BY <3>1 DEF Inv, Unanalysed
    <3>2. CASE Analyze
      BY <3>2 DEF Analyze, DetectDoWhile, DetectWhile, DetectBreak, DetectContinue, DetectIf,
        Detect, VisitElse, VisitUndefined, ElseDone, InElsePass
    <3> QED
      BY <3>1, <3>2, <1>2, NextParts
  <2> QED
    BY <1>2, <2>1 DEF AfterAnalysis
<1>3. CASE UNCHANGED allVars
  BY <1>3 DEF allVars
<1> QED
  BY <1>1, <1>2, <1>3 DEF GenNext

\* The group that is processed, and the depth it is processed with.
LEMMA TopOfStack ==
  ASSUME GenInv, gen = "process", dfsStack # <<>>
  PROVE  \E v \in vertices, d \in Int :
           /\ Last(dfsStack) = <<v, d>> /\ Last(dfsStack)[1] = v /\ Last(dfsStack)[2] = d
           /\ v \in Insts /\ v <= gend[v] /\ gend[v] \in Insts
           /\ Successors(v) \in SUBSET vertices /\ IsFiniteSet(Successors(v) \ found)
           /\ \A i \in v .. gend[v] + 1 : Depths(v, d)[i] \in Int
           /\ gend[v] + 1 \in v .. gend[v] + 1
<1>1. Last(dfsStack) \in vertices \X Int
  BY DEF GenInv, GenTypes, Last
<1>2. PICK v \in vertices, d \in Int : Last(dfsStack) = <<v, d>>
  BY <1>1
<1>3. /\ IsProgram(prog) /\ vertices \in SUBSET Insts /\ v \in Insts /\ gend[v] \in Insts
      /\ v <= gend[v] /\ Insts = 1 .. Size /\ Size \in Nat
  BY ProgramFacts DEF GenInv, Inv, GroupingInv, GroupingTypeOK, GraphTypeOK, GroupsTile
<1>4. Successors(v) \in SUBSET vertices
  BY DEF Successors
<1>5. IsFiniteSet(Successors(v) \ found)
  <2>1. IsFiniteSet(Insts)
    BY <1>3, FS_Interval
  <2> QED
    BY <2>1, <1>3, <1>4, FS_Subset
<1>6. \A i \in v .. gend[v] + 1 : Depths(v, d)[i] \in Int
  BY <1>3, DepthsDefined
<1>7. gend[v] + 1 \in v .. gend[v] + 1
  BY <1>3
<1>8. Last(dfsStack)[1] = v /\ Last(dfsStack)[2] = d
  BY <1>2
<1> QED
  BY <1>2, <1>3, <1>4, <1>5, <1>6, <1>7, <1>8

LEMMA GenInvNext == GenInv /\ [GenNext]_allVars => GenInv'
<1> SUFFICES ASSUME GenInv, [GenNext]_allVars PROVE GenInv'
  OBVIOUS
<1>1. Inv' /\ prog' = prog /\ Insts' = Insts /\ Functions' = Functions
  <2>1. [Next]_vars
    BY GenSteps DEF GenInv
  <2>2. prog' = prog
    <3>1. CASE Next
      BY <3>1, NextParts, ProgKept DEF groupingVars, graphVars
    <3>2. CASE UNCHANGED vars
      BY <3>2 DEF vars, groupingVars, graphVars
    <3> QED
      BY <2>1, <3>1, <3>2
  <2> QED
    BY <2>1, <2>2, NextInv DEF GenInv, Insts, Size, Functions
<1>2. /\ IsProgram(prog) /\ vertices \in SUBSET Insts /\ Functions \in SUBSET Insts
      /\ Insts = 1 .. Size /\ Size \in Nat /\ next \in [Insts -> Insts \cup {NULL}]
  BY ProgramFacts DEF GenInv, Inv, GroupingInv, GroupingTypeOK, GraphTypeOK
<1>3. CASE UNCHANGED genVars /\ gen = "start" /\ func = 0 /\ pass # "done"
  <2>1. dfsStack' = <<>> /\ found' = {} /\ gen' = "start" /\ func' = 0
    BY <1>3 DEF GenInv, AfterAnalysis, genVars
  <2>2. <<>> \in Seq(vertices' \X Int)
    OBVIOUS
  <2> QED
    BY <1>1, <1>3, <2>1, <2>2 DEF GenInv, GenTypes, AfterAnalysis, genVars
<1>4. CASE UNCHANGED genVars /\ UNCHANGED vars
  <2>1. UNCHANGED <<vertices, pass>>
    BY <1>4 DEF vars, groupingVars, graphVars, analysisVars
  <2> QED
    BY <1>1, <1>4, <2>1 DEF GenInv, GenTypes, AfterAnalysis, genVars
<1>5. CASE Generate /\ UNCHANGED vars /\ pass = "done"
  <2>1. UNCHANGED <<vertices, pass, gend, next, edges, endElse>> /\ pass' = "done"
    BY <1>5 DEF vars, groupingVars, graphVars, analysisVars
  <2>2. AfterAnalysis'
    BY <2>1 DEF AfterAnalysis
  <2>3. CASE StartFunctionCode
    <3>1. PICK f \in Functions \cap vertices :
            /\ func' = f /\ dfsStack' = << <<f, 0>> >> /\ found' = {f} /\ lastGroup' = f
            /\ code' = [code EXCEPT ![f] = @ \o
                 IF ~Signatures THEN <<>>
                 ELSE (IF func = 0 THEN <<>> ELSE Statement("blank")) \o Opens("function")]
      BY <2>3 DEF StartFunctionCode
    <3> DEFINE head == IF ~Signatures THEN <<>>
                       ELSE (IF func = 0 THEN <<>> ELSE Statement("blank")) \o Opens("function")
    <3>2. head \in Seq(Lines)
      <4>1. (IF func = 0 THEN <<>> ELSE Statement("blank")) \in Seq(Lines)
        BY LinesType DEF Texts
      <4>2. Opens("function") \in Seq(Lines)
        BY LinesType DEF Texts
      <4> QED
        BY <4>1, <4>2, LinesType
    <3> HIDE DEF head
    <3>3. code[f] \o head \in Seq(Lines)
      BY <3>2, <1>2 DEF GenInv, GenTypes
    <3>4. code' \in [Insts -> Seq(Lines)]
      BY <3>1, <3>3 DEF GenInv, GenTypes, head
    <3>5. << <<f, 0>> >> \in Seq(vertices \X Int)
      OBVIOUS
    <3>6. GenTypes'
      BY <2>1, <2>3, <3>1, <3>4, <3>5, <1>1, <1>2
        DEF StartFunctionCode, GenInv, GenTypes
    <3> QED
      BY <3>6, <2>2, <1>1 DEF GenInv
  <2>4. CASE ProcessGroup
    <3>1. PICK v \in vertices, d \in Int :
           /\ Last(dfsStack) = <<v, d>> /\ Last(dfsStack)[1] = v /\ Last(dfsStack)[2] = d
           /\ v \in Insts /\ v <= gend[v] /\ gend[v] \in Insts
           /\ Successors(v) \in SUBSET vertices /\ IsFiniteSet(Successors(v) \ found)
           /\ \A i \in v .. gend[v] + 1 : Depths(v, d)[i] \in Int
           /\ gend[v] + 1 \in v .. gend[v] + 1
      BY <2>4, TopOfStack DEF ProcessGroup
    <3> DEFINE m == Depths(v, d)[gend[v] + 1]
               S == Successors(v) \ found
    <3>2. /\ lastGroup' = IF lastGroup < v THEN v ELSE lastGroup
          /\ found' = found \cup Successors(v) /\ dfsStack # <<>>
          /\ UNCHANGED <<gen, func, printing, indent, output>>
      BY <2>4, <3>1 DEF ProcessGroup
    <3>3. PICK order \in Orders(Predecessors(v)) :
            LET before == Before(v, order)
            IN /\ coalesced' = IF Coalesces(v, before) THEN coalesced \cup {v} ELSE coalesced
               /\ code' = [code EXCEPT ![v] = CodeOf(v, before) \o ElseEnds(v)]
      BY <2>4, <3>1 DEF ProcessGroup
    <3>4. PICK out \in Orders(S) :
            dfsStack' = Front(dfsStack) \o [k \in DOMAIN out |-> <<out[k], m>>]
      BY <2>4, <3>1 DEF ProcessGroup
    <3>5. code' \in [Insts -> Seq(Lines)] /\ coalesced' \in SUBSET Insts
      <4>1. code \in [Insts -> Seq(Lines)] /\ coalesced \in SUBSET Insts
        BY DEF GenInv, GenTypes
      <4>2. CodeOf(v, Before(v, order)) \in Seq(Lines) /\ ElseEnds(v) \in Seq(Lines)
        <5>1. Closes("end") \in Seq(Lines)
          BY LinesType DEF Texts
        <5> QED
          BY <4>1, <3>1, <5>1, CodeType, ElseEndsOf DEF GenInv
      <4> DEFINE x == CodeOf(v, Before(v, order))
                 y == ElseEnds(v)
      <4>3. code' = [code EXCEPT ![v] = x \o y]
        BY <3>3
      <4> HIDE DEF x, y
      <4>4. x \o y \in Seq(Lines)
        BY <4>2 DEF x, y
      <4>5. code' \in [Insts -> Seq(Lines)]
        BY <4>1, <4>3, <4>4
      <4> QED
        BY <4>1, <4>5, <3>1, <3>3
    <3>6. dfsStack' \in Seq(vertices \X Int)
      <4>1. m \in Int /\ S \in SUBSET vertices /\ IsFiniteSet(S) /\ out \in SetToSeqs(S)
        BY <3>1, <3>4 DEF Orders
      <4>2. dfsStack \in Seq(vertices \X Int) /\ dfsStack # <<>>
        BY <3>2 DEF GenInv, GenTypes
      <4> DEFINE T == vertices \X Int
      <4> HIDE DEF m, S, T
      <4> QED
        <5>1. dfsStack \in Seq(T)
          BY <4>2 DEF T
        <5> DEFINE pushed == [k \in DOMAIN out |-> <<out[k], m>>]
        <5>2. /\ pushed \in Seq(S \X {m}) /\ Len(pushed) = Cardinality(S)
              /\ \A k \in 1 .. Cardinality(S) : pushed[k] = <<out[k], m>>
          BY <4>1, PairsPushed
        <5>3. dfsStack' = Front(dfsStack) \o pushed
          BY <3>4
        <5> HIDE DEF pushed
        <5>4. Front(dfsStack) \in Seq(T)
          BY <4>2, <5>1, FrontFacts
        <5>5. S \X {m} \subseteq T
          BY <4>1 DEF T
        <5>6. pushed \in Seq(T)
          BY <5>2, <5>5, SeqMonotonic
        <5>7. dfsStack' \in Seq(T)
          BY <5>3, <5>4, <5>6, ConcatProperties
        <5> QED
          BY <5>7 DEF T
    <3>7. GenTypes'
      BY <2>1, <3>1, <3>2, <3>5, <3>6, <1>1 DEF GenInv, GenTypes
    <3> QED
      BY <3>7, <2>2, <1>1 DEF GenInv
  <2>5. CASE PopEmptyStack \/ IndentationFails \/ FunctionPrinted
    BY <2>1, <2>2, <2>5, <1>1
      DEF PopEmptyStack, IndentationFails, FunctionPrinted, GenInv, GenTypes
  <2>6. CASE EndFunctionCode
    <3> DEFINE tail == IF Signatures THEN Closes("end") ELSE <<>>
    <3>1. tail \in Seq(Lines)
      BY LinesType DEF Texts
    <3>2. /\ code' = [code EXCEPT ![lastGroup] = @ \o tail]
          /\ code \in [Insts -> Seq(Lines)]
      BY <2>6 DEF EndFunctionCode, GenInv, GenTypes
    <3> HIDE DEF tail
    <3>3. code' \in [Insts -> Seq(Lines)]
      <4>1. \A i \in Insts : code[i] \o tail \in Seq(Lines)
        BY <3>1, <3>2
      <4> QED
        BY <3>2, <4>1
    <3>4. /\ gen' = "print" /\ printing' = func
          /\ UNCHANGED <<func, dfsStack, found, lastGroup, coalesced, indent, output>>
      BY <2>6 DEF EndFunctionCode
    <3>5. printing' \in Insts \cup {NULL}
      BY <3>4, <1>2 DEF GenInv, GenTypes, NULL
    <3>6. GenTypes'
      BY <2>1, <3>3, <3>4, <3>5, <1>1 DEF GenInv, GenTypes
    <3> QED
      BY <3>6, <2>2, <1>1 DEF GenInv
  <2>7. CASE PrintGroup
    <3> DEFINE c == code[printing]
               text == [k \in DOMAIN c |-> c[k].text]
    <3>1. printing \in Insts /\ c \in Seq(Lines) /\ indent \in Int
      BY <2>7 DEF PrintGroup, GenInv, GenTypes
    <3>2. /\ indent' = IndentAfter(c, Len(c)) /\ IndentAfter(c, Len(c)) >= 0
          /\ output' = output \o text /\ printing' = next[printing]
          /\ UNCHANGED <<gen, func, dfsStack, found, lastGroup, code, coalesced>>
      BY <2>7 DEF PrintGroup
    <3> HIDE DEF c
    <3>3. indent' \in Nat
      <4>1. Len(c) \in Nat
        BY <3>1
      <4> DEFINE k == Len(c)
      <4> HIDE DEF k
      <4>2. IndentAfter(c, k) \in Int
        BY <3>1, <4>1, IndentInt DEF k
      <4> QED
        BY <3>2, <4>2 DEF k
    <3>4. output' \in Seq(Texts)
      <4>2. DOMAIN c = 1 .. Len(c) /\ Len(c) \in Nat
        BY <3>1
      <4>0. \A k \in DOMAIN c : c[k] \in Lines
        BY <3>1, <4>2
      <4>1. \A k \in DOMAIN c : c[k].text \in Texts
        BY <4>0 DEF Lines
      <4> HIDE DEF text
      <4>3. text \in Seq(Texts)
        BY <4>1, <4>2 DEF text
      <4> QED
        BY <4>3, <3>2 DEF GenInv, GenTypes
    <3>5. GenTypes'
      BY <2>1, <3>1, <3>2, <3>3, <3>4, <1>1, <1>2 DEF GenInv, GenTypes
    <3> QED
      BY <3>5, <2>2, <1>1 DEF GenInv
  <2> QED
    BY <2>3, <2>4, <2>5, <2>6, <2>7, <1>5 DEF Generate
<1> QED
  BY <1>3, <1>4, <1>5, GenSteps DEF GenInv

THEOREM GenInvariant == GenSpec => []GenInv
  BY GenInvInit, GenInvNext, PTL DEF GenSpec

(***************************************************************************)
(* Type correctness of the whole pipeline, from the constructor to the     *)
(* lines that are printed; that the indentation is a natural number is     *)
(* what the assertion in generatePass guards.                              *)
(***************************************************************************)
THEOREM GenTypeCorrect == GenSpec => []GenTypeOK
<1>1. GenInv => GenTypeOK
  <2> SUFFICES ASSUME GenInv PROVE GenTypeOK
    OBVIOUS
  <2>1. TypeOK /\ vertices \in SUBSET Insts
    BY DEF GenInv, Inv, GroupingInv, AnalysisTypeOK, TypeOK, GroupingTypeOK, GraphTypeOK
  <2>2. dfsStack \in Seq(Insts \X Int)
    <3>1. vertices \X Int \subseteq Insts \X Int
      BY <2>1
    <3> DEFINE A == vertices \X Int
               B == Insts \X Int
    <3>2. dfsStack \in Seq(A)
      BY DEF GenInv, GenTypes
    <3> HIDE DEF A, B
    <3> QED
      BY <3>1, <3>2, SeqMonotonic DEF A, B
  <2> QED
    BY <2>1, <2>2 DEF GenInv, GenTypes, GenTypeOK, Lines
<1> QED
  BY <1>1, GenInvariant, PTL

----------------------------------------------------------------------------
(***************************************************************************)
(* The value stack.  Inside a group control runs from each instruction to  *)
(* the next, so what a group does to the stack is what a path through it   *)
(* does.  The depth a group starts with is that of a path no longer than   *)
(* the instructions of the groups that have been processed: a group is     *)
(* processed once, so no path gets longer than the program.                *)
(***************************************************************************)
GroupsRun ==
  FunctionsSeparate => \A v \in vertices : \A i \in v .. gend[v] - 1 : <<i, i + 1>> \in FlowEdges

Trackable == FunctionsSeparate /\ \A i \in Insts : IsCondJump(i) => Change(i) = -1

Waiting == {dfsStack[k][1] : k \in DOMAIN dfsStack}

Processed == {i \in Insts : addrMap[i] \in found \ Waiting}

StackTracked ==
  /\ FlowPreserved /\ GroupsRun
  /\ \A j, k \in DOMAIN dfsStack : j # k => dfsStack[j][1] # dfsStack[k][1]
  /\ Waiting \subseteq found
  /\ Trackable =>
       /\ \A k \in DOMAIN dfsStack : dfsStack[k] \in PathsUpTo[Cardinality(Processed)]
       /\ gen = "undefined" => \E p \in PathLevels : p[2] < Pops(p[1])

LEMMA TrackableKept ==
  ASSUME prog' = prog
  PROVE  /\ Trackable' <=> Trackable
         /\ PathsUpTo' = PathsUpTo /\ PathLevels' = PathLevels
<1>1. FlowEdges' = FlowEdges /\ Functions' = Functions /\ Size' = Size /\ Insts' = Insts
  BY FlowEdgesKept DEF Functions, Size, Insts
<1>2. PathsUpTo' = PathsUpTo
  BY <1>1 DEF PathsUpTo, Extended, Change
<1>3. PathLevels' = PathLevels
  BY <1>1, <1>2 DEF PathLevels
<1>4. FunctionsSeparate' <=> FunctionsSeparate
  BY SeparateKept
<1> QED
  BY <1>1, <1>2, <1>3, <1>4 DEF Trackable, IsCondJump, Change

LEMMA GroupsRunInit == GroupingInit => GroupsRun
<1> SUFFICES ASSUME GroupingInit, NEW v \in vertices, NEW i \in v .. gend[v] - 1 PROVE FALSE
  BY DEF GroupsRun
<1>1. IsProgram(prog) /\ v \in Insts /\ gend[v] = v
  BY ProgramsAssumption DEF GroupingInit, GraphInit
<1>2. v \in Nat
  BY <1>1, ProgramFacts
<1> QED
  BY <1>1, <1>2

LEMMA GroupsRunNext ==
  GroupingInv /\ FlowPreserved /\ GroupsRun /\ [GroupingNext]_groupingVars => GroupsRun'
<1> SUFFICES ASSUME GroupingInv, FlowPreserved, GroupsRun, [GroupingNext]_groupingVars,
                    FunctionsSeparate'
             PROVE  GroupsRun'
  BY DEF GroupsRun
<1>1. FlowEdges' = FlowEdges /\ FunctionsSeparate
  BY ProgKept, SeparateKept, FlowEdgesKept
<1>2. CASE UNCHANGED graphVars
  BY <1>1, <1>2 DEF GroupsRun, graphVars
<1>3. CASE InSweep /\ ~GroupEnds /\ Merge(Cur, Nxt)
  <2>1. <<pos, pos + 1>> \in FlowEdges
    BY <1>1, <1>3, NoEntryAhead, OnlyEdge DEF FlowPreserved, FlowKept
  <2>2. /\ gend' = [gend EXCEPT ![Cur] = pos + 1] /\ vertices' = vertices \ {pos + 1}
        /\ gend[Cur] = pos /\ pos \in Nat /\ Cur \in vertices /\ Cur \in Insts
    BY <1>3, MergeChanges, SweepFacts
  <2>3. gend \in [Insts -> Insts] /\ vertices \in SUBSET Insts /\ Insts = 1 .. Size /\ Size \in Nat
    BY ProgramFacts DEF GroupingInv, GroupingTypeOK, GraphTypeOK
  <2>4. ASSUME NEW v \in vertices', NEW i \in v .. gend'[v] - 1
        PROVE  <<i, i + 1>> \in FlowEdges
    <3>1. v \in vertices /\ v \in Insts /\ v \in Nat /\ gend[v] \in Nat
      BY <2>2, <2>3
    <3>2. CASE v = Cur
      <4>1. gend'[v] = pos + 1 /\ i \in v .. pos
        BY <3>1, <3>2, <2>2, <2>3
      <4>2. i = pos \/ i \in v .. gend[v] - 1
        BY <4>1, <3>1, <3>2, <2>2
      <4> QED
        BY <4>2, <3>1, <2>1, <1>1 DEF GroupsRun
    <3>3. CASE v # Cur
      <4>1. gend'[v] = gend[v]
        BY <3>1, <3>3, <2>2, <2>3
      <4> QED
        BY <4>1, <3>1, <1>1 DEF GroupsRun
    <3> QED
      BY <3>2, <3>3
  <2> QED
    BY <2>4, <1>1 DEF GroupsRun
<1> QED
  BY <1>2, <1>3, MergeOrNot

\* One step further along a path.
LEMMA PathStep ==
  ASSUME IsProgram(prog), NEW i, NEW j, <<i, j>> \in FlowEdges, NEW l \in Int,
         NEW k \in Nat, k + 1 <= Size, <<i, l>> \in PathsUpTo[k]
  PROVE  <<j, l + Change(i)>> \in PathsUpTo[k + 1]
<1>1. k + 1 \in 1 .. Size /\ (k + 1) - 1 = k /\ k \in 0 .. Size
  BY ProgramFacts
<1>2. PathsUpTo[k + 1] = Extended(PathsUpTo[k]) /\ PathsUpTo[k] \in SUBSET Pairs
  BY <1>1, PathsDefined
<1> DEFINE e == <<i, j>>
           paths == PathsUpTo[k]
<1>3. e \in FlowEdges /\ e[1] = i /\ e[2] = j
  OBVIOUS
<1> HIDE DEF e, paths
<1>4. <<e[2], l + Change(e[1])>> \in Extended(paths)
  <2>1. <<e[1], l>> \in paths /\ paths \in SUBSET Pairs
    BY <1>2, <1>3 DEF paths
  <2> QED
    BY <2>1, <1>3, ExtendedPairs
<1> QED
  BY <1>2, <1>3, <1>4 DEF paths

LEMMA AlongGroup ==
  ASSUME GenInv, FlowPreserved, GroupsRun, Trackable, NEW v \in vertices, NEW d \in Int,
         NEW n \in Nat, n + (gend[v] - v + 1) <= Size, <<v, d>> \in PathsUpTo[n]
  PROVE  /\ \A i \in v .. gend[v] : <<i, Depths(v, d)[i]>> \in PathsUpTo[n + (i - v)]
         /\ \A w \in Successors(v) :
              <<w, Depths(v, d)[gend[v] + 1]>> \in PathsUpTo[n + (gend[v] - v + 1)]
<1> DEFINE D == Depths(v, d)
           h == gend[v]
<1>1. /\ IsProgram(prog) /\ v \in Insts /\ h \in Insts /\ v <= h
      /\ GroupsTile /\ edges \in SUBSET (vertices \X vertices)
  BY DEF GenInv, Inv, GroupingInv, GroupingTypeOK, GraphTypeOK, GroupsTile
<1>2. Insts = 1 .. Size /\ Size \in Nat /\ v \in Nat /\ h \in Nat /\ FlowEdges \in SUBSET (Insts \X Insts)
  BY <1>1, ProgramFacts, FlowEdgesType
<1>3. /\ D[v] = d
      /\ \A i \in v + 1 .. h + 1 : D[i] = D[i - 1] + Effect(i - 1)
      /\ \A i \in v .. h + 1 : D[i] \in Int
  BY <1>1, DepthsDefined
<1>4. \A i \in v .. h : Effect(i) = Change(i)
  <2>1. \A i \in v .. h : i \in Insts
    BY <1>1, <1>2
  <2> QED
    BY <2>1 DEF Effect, Trackable
<1>5. \A i \in v .. h - 1 : <<i, i + 1>> \in FlowEdges
  BY DEF GroupsRun, Trackable
<1> HIDE DEF D, h
<1>6. ASSUME NEW i \in v .. h
      PROVE  D[i] \in Int /\ D[i + 1] = D[i] + Change(i)
  <2>1. i + 1 \in v + 1 .. h + 1 /\ (i + 1) - 1 = i /\ i \in v .. h + 1
    BY <1>2
  <2>2. D[i + 1] = D[(i + 1) - 1] + Effect((i + 1) - 1)
    BY <2>1, <1>3
  <2> QED
    BY <2>1, <2>2, <1>3, <1>4
<1> DEFINE T == {k \in Nat : v + k <= h => <<v + k, D[v + k]>> \in PathsUpTo[n + k]}
<1>7. 0 \in T
  <2>1. v + 0 = v /\ n + 0 = n
    BY <1>2
  <2> QED
    BY <2>1, <1>3
<1>8. ASSUME NEW k \in T
      PROVE  k + 1 \in T
  <2> SUFFICES ASSUME v + (k + 1) <= h
               PROVE  <<v + (k + 1), D[v + (k + 1)]>> \in PathsUpTo[n + (k + 1)]
    OBVIOUS
  <2> DEFINE i == v + k
             m == n + k
  <2>1. /\ k \in Nat /\ i \in v .. h /\ i \in v .. h - 1 /\ m \in Nat /\ m + 1 <= Size
        /\ v + (k + 1) = i + 1 /\ n + (k + 1) = m + 1
    BY <1>2 DEF h
  <2>2. <<i, D[i]>> \in PathsUpTo[m]
    BY <2>1
  <2> HIDE DEF i, m, T
  <2>3. <<i, i + 1>> \in FlowEdges /\ D[i] \in Int /\ D[i + 1] = D[i] + Change(i)
    BY <2>1, <1>5, <1>6
  <2>4. <<i + 1, D[i] + Change(i)>> \in PathsUpTo[m + 1]
    BY <2>1, <2>2, <2>3, <1>1, PathStep
  <2> QED
    BY <2>1, <2>3, <2>4
<1>9. T = Nat
  <2>1. T \subseteq Nat
    OBVIOUS
  <2> HIDE DEF T
  <2> QED
    BY <1>7, <1>8, <2>1, InductionOnNat
<1>10. ASSUME NEW i \in v .. h
       PROVE  <<i, D[i]>> \in PathsUpTo[n + (i - v)]
  <2>1. i - v \in Nat /\ v + (i - v) = i /\ i <= h
    BY <1>2
  <2> DEFINE k == i - v
  <2>2. k \in T
    <3> HIDE DEF T, k
    <3> QED
      BY <2>1, <1>9 DEF k
  <2> QED
    BY <2>1, <2>2
<1>11. ASSUME NEW w \in Successors(v)
       PROVE  <<w, D[h + 1]>> \in PathsUpTo[n + (h - v + 1)]
  <2>1. <<h, w>> \in FlowEdges
    <3>1. <<v, w>> \in edges
      BY DEF Successors
    <3>2. edges = {<<addrMap[e[1]], e[2]>> : e \in {f \in FlowEdges : f[1] = gend[addrMap[f[1]]]}}
      BY DEF FlowPreserved, Trackable
    <3>3. PICK e \in FlowEdges : e[1] = gend[addrMap[e[1]]] /\ <<v, w>> = <<addrMap[e[1]], e[2]>>
      BY <3>1, <3>2
    <3>4. e = <<e[1], e[2]>> /\ e[1] = h /\ e[2] = w
      BY <3>3, <1>2 DEF h
    <3> QED
      BY <3>4
  <2> DEFINE m == n + (h - v)
  <2>2. h \in v .. h /\ m \in Nat /\ m + 1 <= Size /\ n + (h - v + 1) = m + 1
    BY <1>1, <1>2 DEF h
  <2>3. <<h, D[h]>> \in PathsUpTo[m] /\ D[h] \in Int /\ D[h + 1] = D[h] + Change(h)
    BY <2>2, <1>6, <1>10
  <2> HIDE DEF m
  <2>4. <<w, D[h] + Change(h)>> \in PathsUpTo[m + 1]
    BY <2>1, <2>2, <2>3, <1>1, PathStep
  <2> QED
    BY <2>2, <2>3, <2>4
<1> QED
  BY <1>10, <1>11 DEF D, h

\* An order of a set meets every element of it.
LEMMA OrderMeetsAll ==
  ASSUME NEW S, IsFiniteSet(S), NEW out \in SetToSeqs(S)
  PROVE  \A x \in S : \E k \in DOMAIN out : out[k] = x
<1> DEFINE n == Cardinality(S)
<1>1. n \in Nat /\ out \in [1 .. n -> S] /\ \A j, k \in 1 .. n : j # k => out[j] # out[k]
  BY FS_CardinalityType DEF SetToSeqs
<1>2. IsFiniteSet(1 .. n) /\ Cardinality(1 .. n) = n
  <2> HIDE DEF n
  <2>1. n \in Nat
    BY <1>1
  <2> QED
    BY <2>1, FS_Interval
<1>3. out \in Injection(1 .. n, S)
  BY <1>1 DEF Injection, IsInjective
<1>4. out \in Surjection(1 .. n, S)
  <2> HIDE DEF n
  <2>1. Cardinality(1 .. n) = Cardinality(S)
    BY <1>2 DEF n
  <2> QED
    BY <2>1, <1>3, FS_Injection
<1> QED
  BY <1>1, <1>4 DEF Surjection

(***************************************************************************)
(* Processing the group at the top of the stack: the instructions of the   *)
(* group are added to those processed, and what is pushed lies at the end  *)
(* of a path that much longer.                                             *)
(***************************************************************************)
LEMMA StackAfter ==
  ASSUME GenInv, StackTracked, ProcessGroup, gen = "process", dfsStack # <<>>,
         NEW v \in vertices, NEW d \in Int, Last(dfsStack) = <<v, d>>
  PROVE  /\ v \in Waiting /\ \E k \in DOMAIN dfsStack : dfsStack[k] = <<v, d>>
         /\ \A j, k \in DOMAIN dfsStack' : j # k => dfsStack'[j][1] # dfsStack'[k][1]
         /\ \A k \in DOMAIN dfsStack' :
              \/ /\ dfsStack'[k][1] \in Waiting \ {v}
                 /\ \E j \in DOMAIN dfsStack : dfsStack'[k] = dfsStack[j]
              \/ \E w \in Successors(v) \ found :
                   dfsStack'[k] = <<w, Depths(v, d)[gend[v] + 1]>>
         /\ Waiting' = (Waiting \ {v}) \cup (Successors(v) \ found)
<1>1. PICK x \in vertices, y \in Int :
        /\ Last(dfsStack) = <<x, y>> /\ Last(dfsStack)[1] = x /\ Last(dfsStack)[2] = y
        /\ IsFiniteSet(Successors(x) \ found)
  BY TopOfStack
<1>2. x = v /\ y = d
  BY <1>1
<1> DEFINE S == Successors(v) \ found
           T == vertices \X Int
           m == Depths(v, d)[gend[v] + 1]
<1>3. PICK out \in Orders(S) :
        dfsStack' = Front(dfsStack) \o [k \in DOMAIN out |-> <<out[k], m>>]
  BY <1>1, <1>2 DEF ProcessGroup
<1> DEFINE pushed == [k \in DOMAIN out |-> <<out[k], m>>]
<1>4. IsFiniteSet(S) /\ out \in SetToSeqs(S) /\ dfsStack \in Seq(T)
  BY <1>1, <1>2 DEF Orders, GenInv, GenTypes
<1>5. S \cap found = {}
  OBVIOUS
<1> HIDE DEF S, T, m
<1>6. /\ pushed \in Seq(S \X {m}) /\ Len(pushed) = Cardinality(S)
      /\ \A k \in 1 .. Cardinality(S) : pushed[k] = <<out[k], m>>
  <2>1. Cardinality(S) \in Nat /\ DOMAIN out = 1 .. Cardinality(S)
    BY <1>4, FS_CardinalityType DEF SetToSeqs
  <2>2. pushed \in Seq(S \X {m})
    BY <1>4, PushedType
  <2>3. DOMAIN pushed = 1 .. Cardinality(S) /\ \A k \in 1 .. Cardinality(S) : pushed[k] = <<out[k], m>>
    BY <2>1
  <2> HIDE DEF pushed
  <2>4. Len(pushed) = Cardinality(S)
    BY <2>1, <2>2, <2>3
  <2> QED
    BY <2>2, <2>3, <2>4
<1>7. dfsStack' = Front(dfsStack) \o pushed
  BY <1>3
<1> HIDE DEF pushed
<1> DEFINE t == dfsStack'
           s == dfsStack
           n == Len(s) - 1
<1>8. /\ n \in Nat /\ Len(s) = n + 1 /\ DOMAIN s = 1 .. n + 1 /\ Last(s) = s[n + 1]
      /\ Cardinality(S) \in Nat /\ DOMAIN out = 1 .. Cardinality(S)
      /\ \A k \in DOMAIN out : out[k] \in S
      /\ \A j, k \in DOMAIN out : j # k => out[j] # out[k]
      /\ DOMAIN t = 1 .. n + Cardinality(S)
      /\ \A k \in 1 .. n : t[k] = s[k]
      /\ \A k \in n + 1 .. n + Cardinality(S) :
           k - n \in DOMAIN out /\ t[k] = <<out[k - n], m>>
  <2>1. /\ DOMAIN out = 1 .. Cardinality(S) /\ \A k \in DOMAIN out : out[k] \in S
        /\ \A j, k \in DOMAIN out : j # k => out[j] # out[k]
    BY <1>4 DEF SetToSeqs
  <2>2. /\ n \in Nat /\ Len(s) = n + 1 /\ DOMAIN s = 1 .. n + 1 /\ Last(s) = s[n + 1]
        /\ Cardinality(S) \in Nat /\ Front(s) \in Seq(T) /\ Len(Front(s)) = n
        /\ \A k \in 1 .. n : Front(s)[k] = s[k]
    <3>1. s \in Seq(T) /\ s # <<>>
      BY <1>4
    <3> HIDE DEF s, n
    <3>2. /\ Len(s) - 1 \in Nat /\ Last(s) = s[Len(s)]
          /\ Front(s) \in Seq(T) /\ Len(Front(s)) = Len(s) - 1
          /\ \A k \in 1 .. Len(s) - 1 : Front(s)[k] = s[k]
      BY <3>1, FrontFacts
    <3>3. n \in Nat /\ Len(s) = n + 1 /\ DOMAIN s = 1 .. n + 1
      BY <3>1, <3>2 DEF n
    <3>4. Cardinality(S) \in Nat
      BY <1>4, FS_CardinalityType
    <3> QED
      BY <3>2, <3>3, <3>4 DEF n
  <2> DEFINE U == T \cup S \X {m}
             u == Front(s) \o pushed
  <2>3. T \subseteq U /\ S \X {m} \subseteq U
    OBVIOUS
  <2> HIDE DEF U, s, n
  <2>4. Front(s) \in Seq(U) /\ pushed \in Seq(U)
    BY <2>2, <2>3, <1>6, SeqMonotonic
  <2>5. /\ u \in Seq(U) /\ Len(u) = Len(Front(s)) + Len(pushed)
        /\ \A k \in 1 .. Len(Front(s)) + Len(pushed) :
             u[k] = IF k <= Len(Front(s)) THEN Front(s)[k] ELSE pushed[k - Len(Front(s))]
    BY <2>4, ConcatProperties
  <2> HIDE DEF u
  <2>6. t = u
    BY <1>7 DEF s, u
  <2> HIDE DEF t
  <2>7. DOMAIN t = 1 .. n + Cardinality(S)
    BY <2>2, <2>5, <2>6, <1>6
  <2>8. ASSUME NEW k \in 1 .. n
        PROVE  t[k] = s[k]
    <3>1. k \in 1 .. n + Cardinality(S) /\ k <= n
      BY <2>2
    <3> QED
      BY <3>1, <2>2, <2>5, <2>6, <1>6
  <2>9. ASSUME NEW k \in n + 1 .. n + Cardinality(S)
        PROVE  k - n \in DOMAIN out /\ t[k] = <<out[k - n], m>>
    <3>1. k \in 1 .. n + Cardinality(S) /\ ~ (k <= n) /\ k - n \in 1 .. Cardinality(S)
      BY <2>2
    <3>2. t[k] = pushed[k - n]
      BY <3>1, <2>2, <2>5, <2>6, <1>6
    <3> QED
      BY <3>1, <3>2, <2>1, <1>6
  <2> QED
    BY <2>1, <2>2, <2>7, <2>8, <2>9
<1> HIDE DEF n
<1>9. s[n + 1] = <<v, d>> /\ n + 1 \in DOMAIN s
  BY <1>8
<1>10. v \in Waiting
  BY <1>9 DEF Waiting
<1>11. \A k \in 1 .. n : k \in DOMAIN s /\ k # n + 1 /\ t[k] = s[k] /\ t[k][1] \in Waiting \ {v}
  <2>1. \A k \in 1 .. n : k \in DOMAIN s /\ k # n + 1 /\ t[k] = s[k]
    BY <1>8
  <2>2. \A k \in 1 .. n : s[k][1] # s[n + 1][1]
    BY <2>1, <1>9 DEF StackTracked
  <2>3. s[n + 1][1] = v
    BY <1>9
  <2> QED
    BY <2>1, <2>2, <2>3 DEF Waiting
<1>12. \A k \in n + 1 .. n + Cardinality(S) :
         k - n \in DOMAIN out /\ t[k] = <<out[k - n], m>> /\ out[k - n] \in S
  BY <1>8
<1>13. \A k \in DOMAIN t : k \in 1 .. n \/ k \in n + 1 .. n + Cardinality(S)
  BY <1>8
<1>14. ASSUME NEW j \in DOMAIN t, NEW k \in DOMAIN t, j # k
       PROVE  t[j][1] # t[k][1]
  <2>1. Waiting \subseteq found
    BY DEF StackTracked
  <2>2. CASE j \in 1 .. n /\ k \in 1 .. n
    <3>1. j \in DOMAIN s /\ k \in DOMAIN s /\ t[j] = s[j] /\ t[k] = s[k]
      BY <2>2, <1>11
    <3>2. s[j][1] # s[k][1]
      BY <3>1, <1>14 DEF StackTracked
    <3> QED
      BY <3>1, <3>2
  <2>3. CASE j \in n + 1 .. n + Cardinality(S) /\ k \in n + 1 .. n + Cardinality(S)
    <3>1. j - n # k - n
      BY <2>3, <1>8, <1>14
    <3>2. out[j - n] # out[k - n]
      BY <2>3, <3>1, <1>8, <1>12
    <3>3. t[j] = <<out[j - n], m>> /\ t[k] = <<out[k - n], m>>
      BY <2>3, <1>12
    <3> QED
      BY <3>2, <3>3
  <2>4. \A i \in 1 .. n : t[i][1] \in found
    BY <2>1, <1>11
  <2>5. \A i \in n + 1 .. n + Cardinality(S) : t[i][1] \notin found
    BY <1>5, <1>12
  <2> QED
    BY <2>2, <2>3, <2>4, <2>5, <1>13
<1>15. ASSUME NEW k \in DOMAIN t
       PROVE  \/ t[k][1] \in Waiting \ {v} /\ \E j \in DOMAIN s : t[k] = s[j]
              \/ \E w \in S : t[k] = <<w, m>>
  BY <1>11, <1>12, <1>13
<1>16. Waiting \ {v} \subseteq Waiting'
  <2>1. \A k \in DOMAIN s : k = n + 1 \/ (k \in 1 .. n /\ k \in DOMAIN t)
    <3> DEFINE c == Cardinality(S)
    <3>1. n \in Nat /\ c \in Nat /\ DOMAIN s = 1 .. n + 1 /\ DOMAIN t = 1 .. n + c
      BY <1>8
    <3> HIDE DEF c, s, t
    <3> QED
      BY <3>1
  <2>2. ASSUME NEW k \in DOMAIN s, s[k][1] # v
        PROVE  s[k][1] \in Waiting'
    <3>1. k # n + 1
      BY <2>2, <1>9
    <3>2. k \in DOMAIN t /\ t[k] = s[k]
      BY <3>1, <2>1, <1>11
    <3> QED
      BY <3>2 DEF Waiting
  <2> QED
    BY <2>2 DEF Waiting
<1>17. S \subseteq Waiting'
  <2>1. \A w \in S : \E k \in DOMAIN out : out[k] = w
    BY <1>4, OrderMeetsAll
  <2>2. ASSUME NEW k \in DOMAIN out
        PROVE  out[k] \in Waiting'
    <3>1. n + k \in n + 1 .. n + Cardinality(S) /\ (n + k) - n = k /\ n + k \in DOMAIN t
      BY <1>8
    <3>2. t[n + k] = <<out[(n + k) - n], m>>
      BY <3>1, <1>12
    <3>3. t[n + k][1] = out[k]
      BY <3>1, <3>2
    <3> QED
      BY <3>1, <3>3 DEF Waiting
  <2> QED
    BY <2>1, <2>2
<1>18. Waiting' \subseteq (Waiting \ {v}) \cup S
  <2>1. ASSUME NEW k \in DOMAIN t
        PROVE  t[k][1] \in (Waiting \ {v}) \cup S
    BY <1>15
  <2> QED
    BY <2>1 DEF Waiting
<1>19. Waiting' = (Waiting \ {v}) \cup S
  BY <1>16, <1>17, <1>18
<1> QED
  BY <1>9, <1>10, <1>14, <1>15, <1>19 DEF S, m

LEMMA ProcessedGrows ==
  ASSUME GenInv, NEW v \in vertices, v \in Waiting, Waiting \subseteq found,
         UNCHANGED vars, found' = found \cup Successors(v),
         Waiting' \subseteq (Waiting \ {v}) \cup (Successors(v) \ found)
  PROVE  /\ Cardinality(Processed) \in Nat /\ Cardinality(Processed') \in Nat
         /\ Cardinality(Processed) + (gend[v] - v + 1) <= Cardinality(Processed')
         /\ Cardinality(Processed') <= Size
<1> DEFINE B == v .. gend[v]
<1>1. /\ IsProgram(prog) /\ v \in Insts /\ gend[v] \in Insts /\ v <= gend[v]
      /\ \A i \in B : addrMap[i] = v
  BY DEF GenInv, Inv, GroupingInv, GroupingTypeOK, GraphTypeOK, GroupsTile
<1>2. Insts = 1 .. Size /\ Size \in Nat
  BY <1>1, ProgramFacts
<1>3. Insts' = Insts /\ addrMap' = addrMap
  BY DEF vars, groupingVars, graphVars, Insts, Size
<1>4. B \subseteq Insts /\ B \cap Processed = {}
  BY <1>1, <1>2 DEF Processed
<1>5. Processed \cup B \subseteq Processed'
  <2>1. found \ Waiting \subseteq found' \ Waiting' /\ v \in found' \ Waiting'
    OBVIOUS
  <2>2. Processed' = {i \in Insts : addrMap[i] \in found' \ Waiting'}
    BY <1>3 DEF Processed
  <2> QED
    BY <2>1, <2>2, <1>1, <1>4 DEF Processed
<1>6. Processed \subseteq Insts /\ Processed' \subseteq Insts
  BY <1>3 DEF Processed
<1>7. /\ IsFiniteSet(Insts) /\ Cardinality(Insts) = Size
      /\ IsFiniteSet(B) /\ Cardinality(B) = gend[v] - v + 1
  <2>1. IsFiniteSet(1 .. Size) /\ Cardinality(1 .. Size) = Size
    BY <1>2, FS_Interval
  <2> DEFINE h == gend[v]
  <2>2. v \in Int /\ h \in Int /\ v <= h
    BY <1>1, <1>2
  <2> HIDE DEF h
  <2>3. IsFiniteSet(v .. h) /\ Cardinality(v .. h) = h - v + 1
    BY <2>2, FS_Interval
  <2> QED
    BY <2>1, <2>3, <1>2 DEF h
<1> DEFINE P == Processed
           Q == Processed'
<1>8. IsFiniteSet(P) /\ IsFiniteSet(Q) /\ Cardinality(Q) <= Cardinality(Insts)
  BY <1>6, <1>7, FS_Subset
<1> HIDE DEF B, P, Q
<1>9. Cardinality(P \cup B) = Cardinality(P) + Cardinality(B)
  <2>1. P \cap B = {}
    BY <1>4 DEF P
  <2>2. Cardinality(P \cup B) = Cardinality(P) + Cardinality(B) - Cardinality(P \cap B)
    BY <1>7, <1>8, FS_Union
  <2>3. Cardinality({}) = 0 /\ Cardinality(P) \in Nat /\ Cardinality(B) \in Nat
    BY <1>7, <1>8, FS_EmptySet, FS_CardinalityType
  <2> QED
    BY <2>1, <2>2, <2>3
<1>10. Cardinality(P \cup B) <= Cardinality(Q)
  BY <1>5, <1>8, FS_Subset DEF P, Q
<1>11. Cardinality(P) \in Nat /\ Cardinality(Q) \in Nat
  BY <1>8, FS_CardinalityType
<1> QED
  BY <1>7, <1>8, <1>9, <1>10, <1>11 DEF P, Q

LEMMA LastInDomain ==
  ASSUME NEW T, NEW s \in Seq(T), s # <<>>
  PROVE  \E k \in DOMAIN s : s[k] = Last(s)
<1>1. Len(s) \in DOMAIN s /\ s[Len(s)] = Last(s)
  BY DEF Last
<1> QED
  BY <1>1

\* The instructions of a group that waits are not among those processed.
LEMMA RoomForGroup ==
  ASSUME GenInv, NEW v \in vertices, v \in Waiting
  PROVE  /\ Cardinality(Processed) \in Nat
         /\ Cardinality(Processed) + (gend[v] - v + 1) <= Size
<1> DEFINE B == v .. gend[v]
           P == Processed
<1>1. /\ IsProgram(prog) /\ v \in Insts /\ gend[v] \in Insts /\ v <= gend[v]
      /\ \A i \in B : addrMap[i] = v
  BY DEF GenInv, Inv, GroupingInv, GroupingTypeOK, GraphTypeOK, GroupsTile
<1>2. Insts = 1 .. Size /\ Size \in Nat
  BY <1>1, ProgramFacts
<1>3. B \subseteq Insts /\ P \cap B = {} /\ P \subseteq Insts
  BY <1>1, <1>2 DEF Processed
<1>4. /\ IsFiniteSet(Insts) /\ Cardinality(Insts) = Size
      /\ IsFiniteSet(B) /\ Cardinality(B) = gend[v] - v + 1
  <2>1. IsFiniteSet(1 .. Size) /\ Cardinality(1 .. Size) = Size
    BY <1>2, FS_Interval
  <2> DEFINE h == gend[v]
  <2>2. v \in Int /\ h \in Int /\ v <= h
    BY <1>1, <1>2
  <2> HIDE DEF h
  <2>3. IsFiniteSet(v .. h) /\ Cardinality(v .. h) = h - v + 1
    BY <2>2, FS_Interval
  <2> QED
    BY <2>1, <2>3, <1>2 DEF h
<1> HIDE DEF B, P
<1>5. IsFiniteSet(P) /\ P \cup B \in SUBSET Insts
  BY <1>3, <1>4, FS_Subset
<1>6. Cardinality(P \cup B) <= Size
  BY <1>4, <1>5, FS_Subset
<1>7. Cardinality(P \cup B) = Cardinality(P) + Cardinality(B)
  <2>1. Cardinality(P \cup B) = Cardinality(P) + Cardinality(B) - Cardinality(P \cap B)
    BY <1>4, <1>5, FS_Union
  <2>2. Cardinality({}) = 0 /\ Cardinality(P) \in Nat /\ Cardinality(B) \in Nat
    BY <1>4, <1>5, FS_EmptySet, FS_CardinalityType
  <2>3. Cardinality(P \cap B) = 0
    BY <2>2, <1>3, Zenon
  <2> QED
    BY <2>1, <2>2, <2>3
<1>8. Cardinality(P) \in Nat
  BY <1>5, FS_CardinalityType
<1> QED
  BY <1>4, <1>6, <1>7, <1>8 DEF P

LEMMA TrackedInit == GenInit => StackTracked
<1> SUFFICES ASSUME GenInit PROVE StackTracked
  OBVIOUS
<1>1. FlowPreserved /\ GroupsRun
  BY FlowInit, GroupsRunInit DEF GenInit, Init
<1>2. dfsStack = <<>> /\ gen = "start"
  BY DEF GenInit
<1>3. DOMAIN dfsStack = {} /\ Waiting = {}
  BY <1>2 DEF Waiting
<1> QED
  BY <1>1, <1>2, <1>3 DEF StackTracked

\* The graph keeps what StackTracked says of it.
LEMMA GraphTracked ==
  ASSUME GenInv, StackTracked, [GenNext]_allVars
  PROVE  /\ FlowPreserved' /\ GroupsRun' /\ prog' = prog
         /\ Trackable' <=> Trackable
         /\ PathsUpTo' = PathsUpTo /\ PathLevels' = PathLevels
<1>1. [Next]_vars
  BY GenSteps DEF GenInv
<1>2. [GroupingNext]_groupingVars
  BY <1>1, NextParts DEF vars
<1>3. prog' = prog
  BY <1>2, ProgKept
<1> QED
  BY <1>2, <1>3, FlowNext, GroupsRunNext, TrackableKept DEF StackTracked, GenInv, Inv

\* A step that keeps the stack keeps what is said of it.
LEMMA StackKept ==
  ASSUME GenInv, StackTracked, [GenNext]_allVars, UNCHANGED <<dfsStack, found>>,
         dfsStack = <<>> \/ UNCHANGED vars,
         gen' = "undefined" => gen = "undefined"
  PROVE  StackTracked'
<1>1. /\ FlowPreserved' /\ GroupsRun' /\ prog' = prog
      /\ Trackable' <=> Trackable
      /\ PathsUpTo' = PathsUpTo /\ PathLevels' = PathLevels
  BY GraphTracked
<1>2. Waiting' = Waiting
  BY DEF Waiting
<1>3. \A i : Pops(i)' = Pops(i)
  BY <1>1 DEF Pops, IsCondJump
<1>4. Trackable => (gen' = "undefined" => \E p \in PathLevels' : p[2] < Pops(p[1])')
  BY <1>1, <1>3 DEF StackTracked
<1>5. CASE dfsStack = <<>>
  <2>1. DOMAIN dfsStack' = {}
    BY <1>5
  <2> QED
    BY <2>1, <1>1, <1>2, <1>4 DEF StackTracked
<1>6. CASE UNCHANGED vars
  <2>1. Processed' = Processed
    BY <1>2, <1>6 DEF Processed, vars, groupingVars, graphVars, Insts, Size
  <2> QED
    BY <2>1, <1>1, <1>2, <1>4 DEF StackTracked
<1> QED
  BY <1>5, <1>6

LEMMA TrackedStart ==
  ASSUME GenInv, StackTracked, StartFunctionCode
  PROVE  StackTracked'
<1>1. [GenNext]_allVars
  BY DEF GenNext, Generate
<1>2. /\ FlowPreserved' /\ GroupsRun' /\ prog' = prog
      /\ Trackable' <=> Trackable
      /\ PathsUpTo' = PathsUpTo /\ PathLevels' = PathLevels
  BY <1>1, GraphTracked
<1>3. PICK f \in Functions : dfsStack' = << <<f, 0>> >> /\ found' = {f}
  BY DEF StartFunctionCode
<1>4. gen' = "process"
  BY DEF StartFunctionCode
<1>5. DOMAIN dfsStack' = {1} /\ dfsStack'[1] = <<f, 0>>
  BY <1>3
<1>6. Waiting' = {f}
  BY <1>5 DEF Waiting
<1>7. Processed' = {}
  BY <1>3, <1>6 DEF Processed
<1>8. Cardinality(Processed') = 0
  BY <1>7, FS_EmptySet
<1>9. <<f, 0>> \in PathsUpTo[0]
  BY PathsDefined DEF GenInv, Inv, GroupingInv, GroupingTypeOK, GraphTypeOK
<1> QED
  BY <1>2, <1>3, <1>4, <1>5, <1>6, <1>8, <1>9 DEF StackTracked

\* What the paths to a group on the stack say when it is processed.
LEMMA TrackedGroup ==
  ASSUME GenInv, StackTracked, Trackable, NEW v \in vertices, NEW d \in Int,
         NEW n \in Nat, n + (gend[v] - v + 1) <= Size, <<v, d>> \in PathsUpTo[n]
  PROVE  \A i \in v .. gend[v] : <<i, Depths(v, d)[i]>> \in PathLevels
<1>1. /\ IsProgram(prog) /\ v \in Insts /\ gend[v] \in Insts
  BY DEF GenInv, Inv, GroupingInv, GroupingTypeOK, GraphTypeOK
<1>2. Insts = 1 .. Size /\ Size \in Nat
  BY <1>1, ProgramFacts
<1>3. \A i \in v .. gend[v] : <<i, Depths(v, d)[i]>> \in PathsUpTo[n + (i - v)]
  BY AlongGroup DEF StackTracked
<1>4. \A i \in v .. gend[v] : n + (i - v) \in 0 .. Size
  BY <1>1, <1>2
<1> QED
  BY <1>1, <1>3, <1>4, PathsGrow

LEMMA TrackedProcess ==
  ASSUME GenInv, StackTracked, ProcessGroup
  PROVE  StackTracked'
<1>1. [GenNext]_allVars /\ UNCHANGED vars
  BY DEF GenNext, Generate, ProcessGroup
<1>2. /\ FlowPreserved' /\ GroupsRun' /\ prog' = prog
      /\ Trackable' <=> Trackable
      /\ PathsUpTo' = PathsUpTo /\ PathLevels' = PathLevels
  BY <1>1, GraphTracked
<1>3. gen = "process" /\ dfsStack # <<>> /\ gen' = gen
  BY DEF ProcessGroup
<1>4. PICK v \in vertices, d \in Int :
        /\ Last(dfsStack) = <<v, d>> /\ Last(dfsStack)[1] = v /\ Last(dfsStack)[2] = d
        /\ v \in Insts /\ gend[v] \in Insts
  BY <1>3, TopOfStack
<1> DEFINE m == Depths(v, d)[gend[v] + 1]
<1>5. found' = found \cup Successors(v)
  BY <1>4 DEF ProcessGroup
<1>6. /\ v \in Waiting /\ \E k \in DOMAIN dfsStack : dfsStack[k] = <<v, d>>
      /\ \A j, k \in DOMAIN dfsStack' : j # k => dfsStack'[j][1] # dfsStack'[k][1]
      /\ \A k \in DOMAIN dfsStack' :
           \/ /\ dfsStack'[k][1] \in Waiting \ {v}
              /\ \E j \in DOMAIN dfsStack : dfsStack'[k] = dfsStack[j]
           \/ \E w \in Successors(v) \ found : dfsStack'[k] = <<w, m>>
  BY <1>3, <1>4, StackAfter
<1> HIDE DEF m
<1>7. Waiting' \subseteq (Waiting \ {v}) \cup (Successors(v) \ found)
  BY <1>6 DEF Waiting
<1>8. Waiting' \subseteq found'
  BY <1>5, <1>7 DEF StackTracked
<1>9. ASSUME Trackable, NEW k \in DOMAIN dfsStack'
      PROVE  dfsStack'[k] \in PathsUpTo[Cardinality(Processed')]
  <2> DEFINE n == Cardinality(Processed)
             c == Cardinality(Processed')
  <2>1. n \in Nat /\ c \in Nat /\ n + (gend[v] - v + 1) <= c /\ c <= Size
    BY <1>1, <1>5, <1>6, <1>7, ProcessedGrows DEF StackTracked
  <2>2. \A j \in DOMAIN dfsStack : dfsStack[j] \in PathsUpTo[n]
    BY <1>9 DEF StackTracked
  <2>3. /\ IsProgram(prog) /\ Insts = 1 .. Size /\ Size \in Nat /\ v <= gend[v]
    BY ProgramFacts DEF GenInv, Inv, GroupingInv, GroupingTypeOK, GraphTypeOK, GroupsTile
  <2> HIDE DEF n, c
  <2>4. \A j \in 0 .. c : PathsUpTo[j] \subseteq PathsUpTo[c]
    <3>1. c \in 0 .. Size
      BY <2>1, <2>3
    <3> QED
      BY <3>1, <2>3, PathsMonotone
  <2>5. CASE \E j \in DOMAIN dfsStack : dfsStack'[k] = dfsStack[j]
    <3>1. n \in 0 .. c
      BY <2>1, <2>3, <1>4
    <3> QED
      BY <3>1, <2>2, <2>4, <2>5 DEF c
  <2>6. CASE \E w \in Successors(v) \ found : dfsStack'[k] = <<w, m>>
    <3>1. <<v, d>> \in PathsUpTo[n]
      BY <2>2, <1>6
    <3>2. n + (gend[v] - v + 1) <= Size /\ n + (gend[v] - v + 1) \in 0 .. c
      BY <2>1, <2>3, <1>4
    <3>3. \A w \in Successors(v) : <<w, m>> \in PathsUpTo[n + (gend[v] - v + 1)]
      BY <3>1, <3>2, <2>1, <1>9, AlongGroup DEF m, StackTracked
    <3> QED
      BY <3>2, <3>3, <2>4, <2>6 DEF c
  <2> QED
    BY <2>5, <2>6, <1>6
<1> QED
  BY <1>2, <1>3, <1>6, <1>8, <1>9 DEF StackTracked

LEMMA TrackedPop ==
  ASSUME GenInv, StackTracked, PopEmptyStack
  PROVE  StackTracked'
<1>1. /\ [GenNext]_allVars /\ UNCHANGED vars /\ UNCHANGED <<dfsStack, found>>
      /\ gen = "process" /\ dfsStack # <<>>
  BY DEF GenNext, Generate, PopEmptyStack
<1>2. /\ FlowPreserved' /\ GroupsRun' /\ prog' = prog
      /\ Trackable' <=> Trackable
      /\ PathsUpTo' = PathsUpTo /\ PathLevels' = PathLevels
  BY <1>1, GraphTracked
<1>3. Waiting' = Waiting /\ \A i : Pops(i)' = Pops(i)
  BY <1>1, <1>2 DEF Waiting, Pops, IsCondJump
<1>4. Processed' = Processed
  BY <1>1, <1>3 DEF Processed, vars, groupingVars, graphVars, Insts, Size
<1>5. ASSUME Trackable
      PROVE  \E p \in PathLevels : p[2] < Pops(p[1])
  <2>1. PICK v \in vertices, d \in Int :
          /\ Last(dfsStack) = <<v, d>> /\ Last(dfsStack)[1] = v /\ Last(dfsStack)[2] = d
          /\ v \in Insts /\ gend[v] \in Insts
    BY <1>1, TopOfStack
  <2>2. PICK i \in v .. gend[v] : Depths(v, d)[i] < Pops(i)
    BY <2>1 DEF PopEmptyStack, Underflows
  <2>3. PICK k \in DOMAIN dfsStack : dfsStack[k] = <<v, d>>
    <3>1. dfsStack \in Seq(vertices \X Int) /\ dfsStack # <<>>
      BY <1>1 DEF GenInv, GenTypes
    <3>2. \E k \in DOMAIN dfsStack : dfsStack[k] = Last(dfsStack)
      BY <3>1, LastInDomain
    <3> QED
      BY <3>2, <2>1
  <2> DEFINE n == Cardinality(Processed)
  <2>4. <<v, d>> \in PathsUpTo[n]
    BY <2>3, <1>5 DEF StackTracked
  <2>5. n \in Nat /\ n + (gend[v] - v + 1) <= Size
    BY <2>1, <2>3, RoomForGroup DEF Waiting, StackTracked
  <2> HIDE DEF n
  <2>6. <<i, Depths(v, d)[i]>> \in PathLevels
    BY <2>4, <2>5, <1>5, TrackedGroup
  <2> DEFINE p == <<i, Depths(v, d)[i]>>
  <2>7. p[1] = i /\ p[2] = Depths(v, d)[i]
    OBVIOUS
  <2> QED
    BY <2>2, <2>6, <2>7
<1> QED
  BY <1>1, <1>2, <1>3, <1>4, <1>5 DEF StackTracked

LEMMA TrackedNext == GenInv /\ StackTracked /\ [GenNext]_allVars => StackTracked'
<1> SUFFICES ASSUME GenInv, StackTracked, [GenNext]_allVars PROVE StackTracked'
  OBVIOUS
<1>1. CASE UNCHANGED genVars /\ pass # "done"
  <2>1. dfsStack = <<>> /\ UNCHANGED <<dfsStack, found, gen>>
    BY <1>1 DEF GenInv, AfterAnalysis, genVars
  <2> QED
    BY <2>1, StackKept
<1>2. CASE UNCHANGED genVars /\ UNCHANGED vars
  <2>1. UNCHANGED <<dfsStack, found, gen>>
    BY <1>2 DEF genVars
  <2> QED
    BY <2>1, <1>2, StackKept
<1>3. CASE EndFunctionCode \/ PrintGroup \/ IndentationFails \/ FunctionPrinted
  <2>1. UNCHANGED <<dfsStack, found>> /\ UNCHANGED vars /\ (gen' = "undefined" => gen = "undefined")
    BY <1>3 DEF EndFunctionCode, PrintGroup, IndentationFails, FunctionPrinted
  <2> QED
    BY <2>1, StackKept
<1> QED
  BY <1>1, <1>2, <1>3, GenSteps, TrackedStart, TrackedProcess, TrackedPop DEF Generate, GenInv

(***************************************************************************)
(* The value stack a group is processed with is that of a path from the    *)
(* start of a function to it, and the generator pops the empty stack only  *)
(* if some path of the program does so, for every program whose            *)
(* conditional jumps pop their condition and whose functions do not run    *)
(* into each other, whatever the order in which edges are met.             *)
(***************************************************************************)
THEOREM StackAlwaysFollowsPath == GenSpec => []StackFollowsPath
<1>1. GenInv /\ StackTracked => StackFollowsPath
  <2> SUFFICES ASSUME GenInv, StackTracked, Trackable
               PROVE  /\ gen = "process" /\ dfsStack # <<>> => Last(dfsStack) \in PathLevels
                      /\ gen = "undefined" => \E p \in PathLevels : p[2] < Pops(p[1])
    BY DEF StackFollowsPath, Trackable
  <2>1. ASSUME gen = "process", dfsStack # <<>>
        PROVE  Last(dfsStack) \in PathLevels
    <3>1. PICK k \in DOMAIN dfsStack : dfsStack[k] = Last(dfsStack)
      BY <2>1, LastInDomain DEF GenInv, GenTypes
    <3>2. /\ IsProgram(prog)
      BY DEF GenInv, Inv, GroupingInv, GroupingTypeOK, GraphTypeOK
    <3>3. Insts = 1 .. Size /\ Size \in Nat
      BY <3>2, ProgramFacts
    <3>4. Cardinality(Processed) \in 0 .. Size
      <4> DEFINE P == Processed
      <4>1. P \in SUBSET Insts
        BY DEF Processed
      <4>2. IsFiniteSet(Insts) /\ Cardinality(Insts) = Size
        BY <3>3, FS_Interval
      <4> HIDE DEF P
      <4>3. IsFiniteSet(P) /\ Cardinality(P) <= Size
        BY <4>1, <4>2, FS_Subset
      <4>4. Cardinality(P) \in Nat
        BY <4>3, FS_CardinalityType
      <4> QED
        BY <4>3, <4>4, <3>3 DEF P
    <3> QED
      BY <3>1, <3>2, <3>4, PathsGrow DEF StackTracked
  <2> QED
    BY <2>1 DEF StackTracked
<1> QED
  BY <1>1, GenInvInit, GenInvNext, TrackedInit, TrackedNext, PTL DEF GenSpec

----------------------------------------------------------------------------
(***************************************************************************)
(* Counting the statements of a sequence of lines.                         *)
(***************************************************************************)
Count(s, P) == Cardinality({k \in DOMAIN s : s[k] \in P})

LEMMA CountNat ==
  ASSUME NEW S, NEW P, NEW s \in Seq(S)
  PROVE  IsFiniteSet({k \in DOMAIN s : s[k] \in P}) /\ Count(s, P) \in Nat
<1> DEFINE A == {k \in DOMAIN s : s[k] \in P}
<1>1. IsFiniteSet(1 .. Len(s)) /\ A \in SUBSET (1 .. Len(s))
  BY FS_Interval
<1> HIDE DEF A
<1>2. IsFiniteSet(A)
  BY <1>1, FS_Subset
<1>3. Cardinality(A) \in Nat
  BY <1>2, FS_CardinalityType
<1> QED
  BY <1>2, <1>3 DEF A, Count

LEMMA CountConcat ==
  ASSUME NEW S, NEW P, NEW s \in Seq(S), NEW t \in Seq(S)
  PROVE  Count(s \o t, P) = Count(s, P) + Count(t, P)
<1> DEFINE m == Len(s)
           n == Len(t)
           A == {k \in DOMAIN s : s[k] \in P}
           B == {k \in DOMAIN t : t[k] \in P}
           C == {k \in m + 1 .. m + n : t[k - m] \in P}
           st == s \o t
           D == {k \in DOMAIN st : st[k] \in P}
           shift == [k \in B |-> m + k]
<1>1. /\ m \in Nat /\ n \in Nat /\ DOMAIN s = 1 .. m /\ DOMAIN t = 1 .. n
      /\ DOMAIN st = 1 .. m + n
      /\ \A k \in 1 .. m + n : st[k] = IF k <= m THEN s[k] ELSE t[k - m]
  BY ConcatProperties
<1>2. D = A \cup C /\ A \cap C = {}
  <2> HIDE DEF m, n, st
  <2>1. \A k \in 1 .. m : k \in 1 .. m + n /\ k <= m
    BY <1>1
  <2>2. \A k \in m + 1 .. m + n : k \in 1 .. m + n /\ ~(k <= m)
    BY <1>1
  <2>3. \A k \in 1 .. m + n : k \in 1 .. m \/ k \in m + 1 .. m + n
    BY <1>1
  <2> QED
    BY <2>1, <2>2, <2>3, <1>1
<1>3. IsFiniteSet(A) /\ IsFiniteSet(B) /\ Cardinality(A) \in Nat /\ Cardinality(B) \in Nat
  BY CountNat DEF Count
<1>4. IsFiniteSet(C) /\ Cardinality(C) = Cardinality(B)
  <2>1. shift \in Bijection(B, C)
    <3> HIDE DEF m, n
    <3>1. \A k \in B : m + k \in C
      <4>1. \A k \in 1 .. n : m + k \in m + 1 .. m + n /\ (m + k) - m = k
        BY <1>1
      <4> QED
        BY <4>1, <1>1
    <3>2. \A k \in C : k - m \in B /\ m + (k - m) = k
      <4>1. \A k \in m + 1 .. m + n : k - m \in 1 .. n /\ m + (k - m) = k
        BY <1>1
      <4> QED
        BY <4>1, <1>1
    <3>3. \A j, k \in B : m + j = m + k => j = k
      BY <1>1
    <3> HIDE DEF B, C
    <3>4. shift \in [B -> C]
      BY <3>1
    <3>5. \A j, k \in B : shift[j] = shift[k] => j = k
      BY <3>3
    <3>6. \A x \in C : \E k \in B : shift[k] = x
      BY <3>2
    <3> HIDE DEF shift
    <3> QED
      BY <3>4, <3>5, <3>6 DEF Bijection, Injection, IsInjective, Surjection
  <2> HIDE DEF B, C, shift
  <2> QED
    BY <2>1, <1>3, FS_Bijection DEF ExistsBijection
<1>5. Cardinality(D) = Cardinality(A) + Cardinality(C) - Cardinality(A \cap C)
  <2> HIDE DEF A, B, C, D
  <2> QED
    BY <1>2, <1>3, <1>4, FS_Union
<1>6. Cardinality(D) = Cardinality(A) + Cardinality(B)
  <2> HIDE DEF A, B, C, D
  <2>1. Cardinality(A \cap C) = 0
    BY <1>2, FS_EmptySet
  <2> QED
    BY <2>1, <1>3, <1>4, <1>5
<1> QED
  BY <1>6 DEF Count

\* None of a sequence's elements is counted, or there are none.
LEMMA CountNone ==
  ASSUME NEW S, NEW P, NEW s \in Seq(S), S \cap P = {}
  PROVE  Count(s, P) = 0
<1>1. \A k \in DOMAIN s : s[k] \in S
  OBVIOUS
<1>2. {k \in DOMAIN s : s[k] \in P} = {}
  BY <1>1
<1> QED
  BY <1>2, FS_EmptySet DEF Count

\* Joining sequences adds up what is counted in each.
Adds(c, f, n, P) ==
  /\ c \in [0 .. n -> Nat] /\ c[0] = 0
  /\ \A k \in 1 .. n : c[k] = c[k - 1] + Count(f[k], P)

LEMMA FlattenCount ==
  ASSUME NEW S, NEW P, NEW n \in Nat, NEW f \in [1 .. n -> Seq(S)],
         NEW c, Adds(c, f, n, P)
  PROVE  Count(FlattenSeq(f), P) = c[n]
<1> USE DEF Adds
<1>1. CASE n = 0
  <2>1. FlattenSeq(f) = <<>>
    BY <1>1, FlattenSteps
  <2>2. {k \in DOMAIN <<>> : <<>>[k] \in P} = {}
    OBVIOUS
  <2>3. Count(<<>>, P) = 0
    BY <2>2, FS_EmptySet DEF Count
  <2> QED
    BY <2>1, <2>3, <1>1
<1>2. CASE n # 0
  <2>1. PICK h : FlattenSeq(f) = h[n] /\ Joined(h, f, n, S)
    BY <1>2, FlattenSteps
  <2> DEFINE T == {k \in 1 .. n : Count(h[k], P) = c[k]}
             id == [k \in 1 .. n |-> k]
  <2>2. 1 \in 1 .. n /\ n \in 1 .. n /\ 1 - 1 = 0
    BY <1>2
  <2>3. 1 \in T
    <3>1. Count(f[1], P) \in Nat
      BY <2>2, CountNat
    <3> QED
      BY <2>1, <2>2, <3>1 DEF Joined
  <2>4. ASSUME NEW k \in 2 .. n, k - 1 \in T
        PROVE  k \in T
    <3>1. k \in 1 .. n /\ k - 1 \in 1 .. n
      BY <2>2
    <3> DEFINE x == h[k - 1]
               y == f[k]
    <3>2. x \in Seq(S) /\ y \in Seq(S)
      BY <3>1, <2>1 DEF Joined
    <3>3. h[k] = x \o y
      BY <2>1 DEF Joined
    <3> HIDE DEF x, y
    <3>4. Count(x \o y, P) = Count(x, P) + Count(y, P)
      BY <3>2, CountConcat
    <3>5. c[k] = c[k - 1] + Count(y, P) /\ Count(x, P) = c[k - 1]
      BY <3>1, <2>4 DEF x, y
    <3> QED
      BY <3>1, <3>3, <3>4, <3>5
  <2>5. n \in T
    <3> HIDE DEF T
    <3>1. id[1] \in T
      BY <2>2, <2>3
    <3>2. \A k \in 1 + 1 .. n : id[k - 1] \in T => id[k] \in T
      <4>1. \A k \in 1 + 1 .. n : k \in 2 .. n /\ id[k - 1] = k - 1 /\ id[k] = k
        BY <2>2
      <4> QED
        BY <4>1, <2>4
    <3>3. 1 \in Int /\ n \in Int
      OBVIOUS
    <3> HIDE DEF id
    <3>4. \A k \in 1 .. n : id[k] \in T
      BY <3>1, <3>2, <3>3, RecursionTyped
    <3> QED
      BY <3>4, <2>2 DEF id
  <2> QED
    BY <2>1, <2>5
<1> QED
  BY <1>1, <1>2

----------------------------------------------------------------------------
(***************************************************************************)
(* The statements in the code of a group.                                  *)
(***************************************************************************)
Stmt  == {l \in Lines : l.text = "stmt"}
Quiet == {l \in Lines : l.text # "stmt"}

InGroup(v) == Cardinality(prog.prints \cap (v .. gend[v]))

LEMMA QuietLines ==
  /\ <<>> \in Seq(Quiet)
  /\ \A text \in Texts \ {"stmt"} :
       /\ Statement(text) \in Seq(Quiet) /\ Opens(text) \in Seq(Quiet)
       /\ Closes(text) \in Seq(Quiet) /\ Reopens(text) \in Seq(Quiet)
<1>1. \A text \in Texts \ {"stmt"}, u, a \in BOOLEAN : <<Line(text, u, a)>> \in Seq(Quiet)
  <2> SUFFICES ASSUME NEW text \in Texts \ {"stmt"}, NEW u \in BOOLEAN, NEW a \in BOOLEAN
               PROVE  <<Line(text, u, a)>> \in Seq(Quiet)
    OBVIOUS
  <2>1. Line(text, u, a) \in Quiet
    BY DEF Line, Lines, Quiet
  <2> QED
    BY <2>1
<1>2. <<>> \in Seq(Quiet) /\ TRUE \in BOOLEAN /\ FALSE \in BOOLEAN
  OBVIOUS
<1> HIDE DEF Quiet, Texts
<1>3. ASSUME NEW text \in Texts \ {"stmt"}
      PROVE  /\ Statement(text) \in Seq(Quiet) /\ Opens(text) \in Seq(Quiet)
             /\ Closes(text) \in Seq(Quiet) /\ Reopens(text) \in Seq(Quiet)
  BY <1>1, <1>2 DEF Statement, Opens, Closes, Reopens
<1> QED
  BY <1>2, <1>3

LEMMA QuietAdded ==
  ASSUME NEW s \in Seq(Lines), NEW t \in Seq(Quiet)
  PROVE  /\ Count(t, Stmt) = 0 /\ t \in Seq(Lines)
         /\ Count(s \o t, Stmt) = Count(s, Stmt) /\ Count(s, Stmt) \in Nat
<1>1. Quiet \cap Stmt = {} /\ Quiet \subseteq Lines
  BY DEF Quiet, Stmt
<1> HIDE DEF Quiet, Stmt, Lines
<1>2. Count(t, Stmt) = 0 /\ t \in Seq(Lines)
  BY <1>1, CountNone, SeqMonotonic
<1>3. Count(s \o t, Stmt) = Count(s, Stmt) + Count(t, Stmt) /\ Count(s, Stmt) \in Nat
  BY <1>2, CountConcat, CountNat
<1> QED
  BY <1>2, <1>3

LEMMA InstLineCount ==
  ASSUME NEW i
  PROVE  /\ InstLine(i) \in Seq(Lines)
         /\ Count(InstLine(i), Stmt) = IF i \in prog.prints THEN 1 ELSE 0
<1>1. CASE i \in prog.prints
  <2> DEFINE l == Line("stmt", FALSE, FALSE)
  <2>1. InstLine(i) = <<l>>
    BY <1>1 DEF InstLine, Statement
  <2>2. l \in Lines /\ l \in Stmt
    BY DEF Line, Lines, Texts, Stmt
  <2> HIDE DEF l
  <2>3. {k \in DOMAIN <<l>> : <<l>>[k] \in Stmt} = {1}
    BY <2>2
  <2>4. Count(<<l>>, Stmt) = 1
    BY <2>3, FS_Singleton DEF Count
  <2> QED
    BY <2>1, <2>2, <2>4, <1>1
<1>2. CASE i \notin prog.prints
  <2>1. InstLine(i) = <<>> /\ <<>> \in Seq(Lines)
    BY <1>2 DEF InstLine
  <2>2. Count(<<>>, Stmt) = 0
    BY QuietLines, QuietAdded, <2>1
  <2> QED
    BY <2>1, <2>2, <1>2
<1> QED
  BY <1>1, <1>2

LEMMA InstLinesCount ==
  ASSUME Inv, NEW v \in vertices
  PROVE  InstLines(v) \in Seq(Lines) /\ Count(InstLines(v), Stmt) = InGroup(v)
<1> DEFINE e == gend[v]
           n == e - v + 1
           f == [k \in 1 .. n |-> InstLine(v + k - 1)]
           A(k) == prog.prints \cap (v .. v + k - 1)
           c == [k \in 0 .. n |-> Cardinality(A(k))]
<1>1. v \in Int /\ e \in Int /\ v <= e
  BY ProgramFacts DEF Inv, GroupingInv, GroupingTypeOK, GraphTypeOK, GroupsTile
<1>2. n \in Nat /\ n \in 0 .. n /\ v + n - 1 = e
  BY <1>1
<1>3. f \in [1 .. n -> Seq(Lines)]
  BY InstLineCount
<1>4. InstLines(v) = FlattenSeq(f)
  BY DEF InstLines
<1> HIDE DEF e, n
<1>5. c \in [0 .. n -> Nat] /\ \A k \in 0 .. n : IsFiniteSet(A(k)) /\ Cardinality(A(k)) \in Nat
  <2> SUFFICES ASSUME NEW k \in 0 .. n PROVE IsFiniteSet(A(k)) /\ Cardinality(A(k)) \in Nat
    OBVIOUS
  <2>1. IsFiniteSet(v .. v + k - 1)
    BY <1>1, <1>2, FS_Interval
  <2> QED
    BY <2>1, FS_Subset, FS_CardinalityType
<1>6. c[0] = 0
  <2>1. A(0) = {} /\ 0 \in 0 .. n
    BY <1>1, <1>2
  <2> QED
    BY <2>1, FS_EmptySet
<1>7. ASSUME NEW k \in 1 .. n
      PROVE  c[k] = c[k - 1] + Count(f[k], Stmt)
  <2> DEFINE x == v + k - 1
  <2>1. k \in 0 .. n /\ k - 1 \in 0 .. n /\ f[k] = InstLine(x)
    BY <1>2
  <2>2. A(k) = IF x \in prog.prints THEN A(k - 1) \cup {x} ELSE A(k - 1)
    <3>1. \A i \in Int : i \in v .. v + k - 1 <=> i \in v .. v + (k - 1) - 1 \/ i = x
      BY <1>1, <1>2
    <3>2. x \in Int
      BY <1>1, <1>2
    <3> HIDE DEF x
    <3> QED
      BY <3>1, <3>2
  <2>3. x \notin A(k - 1)
    BY <1>1, <1>2
  <2>4. c[k] = Cardinality(A(k)) /\ c[k - 1] = Cardinality(A(k - 1))
    BY <2>1
  <2>5. IsFiniteSet(A(k - 1)) /\ Cardinality(A(k - 1)) \in Nat
    BY <2>1, <1>5
  <2> HIDE DEF A, x, f, c
  <2>6. Count(f[k], Stmt) = IF x \in prog.prints THEN 1 ELSE 0
    BY <2>1, InstLineCount
  <2>7. Cardinality(A(k)) = Cardinality(A(k - 1)) + Count(f[k], Stmt)
    <3> DEFINE B == A(k - 1)
    <3>1. IsFiniteSet(B) /\ x \notin B
      BY <2>3, <2>5
    <3> HIDE DEF B
    <3>2. Cardinality(B \cup {x}) = Cardinality(B) + 1
      BY <3>1, FS_AddElement
    <3> QED
      BY <3>2, <2>2, <2>5, <2>6 DEF B
  <2> QED
    BY <2>4, <2>5, <2>7
<1>8. c[n] = InGroup(v)
  BY <1>1, <1>2 DEF InGroup, e
<1> HIDE DEF f, c
<1>9. FlattenSeq(f) \in Seq(Lines)
  BY <1>2, <1>3, FlattenType
<1>10. Count(FlattenSeq(f), Stmt) = c[n]
  <2>1. n \in Nat /\ c \in [0 .. n -> Nat]
    BY <1>2, <1>5
  <2>2. \A k \in 1 .. n : c[k] = c[k - 1] + Count(f[k], Stmt)
    BY <1>7
  <2>3. Adds(c, f, n, Stmt)
    BY <2>1, <2>2, <1>6 DEF Adds
  <2> HIDE DEF Lines
  <2> QED
    BY <2>1, <2>3, <1>3, FlattenCount
<1> QED
  BY <1>4, <1>8, <1>9, <1>10

(***************************************************************************)
(* A group that has no code yet gets a line for each instruction that      *)
(* prints one, and no statement besides; in particular a group whose else  *)
(* is taken over by its if, and its code replaced, has none to lose.       *)
(***************************************************************************)
LEMMA CodeCount ==
  ASSUME Inv, code \in [Insts -> Seq(Lines)], NEW v \in vertices,
         NEW order \in Orders(Predecessors(v)), Count(code[v], Stmt) = 0
  PROVE  Count(CodeOf(v, Before(v, order)) \o ElseEnds(v), Stmt) = InGroup(v)
<1>1. v \in Insts
  BY DEF Inv, GroupingInv, GroupingTypeOK, GraphTypeOK
<1> DEFINE a == code[v]
           b == ElseStart(v)
           c == EdgeLines(v, order)
           d == InstLines(v)
           n == InGroup(v)
           before == Before(v, order)
<1>2. /\ a \in Seq(Lines) /\ Count(a, Stmt) = 0 /\ b \in Seq(Quiet) /\ c \in Seq(Quiet)
      /\ d \in Seq(Lines) /\ Count(d, Stmt) = n
  <2>1. b \in Seq(Quiet)
    BY QuietLines DEF ElseStart, Texts
  <2>2. c \in Seq(Quiet)
    BY QuietLines, EdgeLinesOf DEF Texts
  <2> QED
    BY <2>1, <2>2, <1>1, InstLinesCount
<1>3. before = a \o b \o c \o d
  BY DEF Before
<1>4. n \in Nat
  BY <1>2, CountNat
<1>5. /\ CondLine(v) \in Seq(Quiet) /\ UncondLine(v) \in Seq(Quiet)
      /\ Reopens("elseif") \in Seq(Quiet) /\ ElseEnds(v) \in Seq(Quiet)
  <2>1. /\ Reopens("if") \in Seq(Quiet) /\ Opens("if") \in Seq(Quiet)
        /\ Opens("while") \in Seq(Quiet) /\ Closes("dowhile") \in Seq(Quiet)
        /\ Statement("break") \in Seq(Quiet) /\ Statement("continue") \in Seq(Quiet)
        /\ Statement("goto") \in Seq(Quiet) /\ Reopens("elseif") \in Seq(Quiet)
        /\ <<>> \in Seq(Quiet)
    BY QuietLines DEF Texts
  <2>2. Closes("end") \in Seq(Quiet)
    BY QuietLines DEF Texts
  <2>3. ElseEnds(v) \in Seq(Quiet)
    BY <1>1, <2>2, ElseEndsOf
  <2> QED
    BY <2>1, <2>3 DEF CondLine, UncondLine
<1>6. Coalesces(v, before) => v \in startElse /\ Len(before) = 1
  BY DEF Coalesces
<1>7. v \in startElse => Len(b) = 1
  BY DEF ElseStart, Reopens
<1> HIDE DEF a, b, c, d, n, before
<1>8. before \in Seq(Lines) /\ Count(before, Stmt) = n
  <2> DEFINE x == a \o b \o c
  <2>1. a \o b \in Seq(Lines) /\ Count(a \o b, Stmt) = 0
    BY <1>2, QuietAdded, ConcatProperties
  <2>2. x \in Seq(Lines) /\ Count(x, Stmt) = 0
    BY <2>1, <1>2, QuietAdded, ConcatProperties
  <2> HIDE DEF x
  <2>3. x \o d \in Seq(Lines) /\ Count(x \o d, Stmt) = Count(x, Stmt) + Count(d, Stmt)
    BY <2>2, <1>2, CountConcat, ConcatProperties
  <2> QED
    BY <2>2, <2>3, <1>2, <1>3, <1>4 DEF x
<1>9. CASE Coalesces(v, before)
  <2>1. Len(before) = Len(a) + Len(b) + Len(c) + Len(d)
    BY <1>2, <1>3
  <2>2. Len(d) = 0
    <3>1. Len(a) \in Nat /\ Len(c) \in Nat /\ Len(d) \in Nat
      BY <1>2
    <3>2. Len(before) = 1 /\ Len(b) = 1
      BY <1>6, <1>7, <1>9
    <3>3. \A p, q, r \in Nat : 1 = p + 1 + q + r => r = 0
      OBVIOUS
    <3>4. 1 = Len(a) + 1 + Len(c) + Len(d)
      BY <2>1, <3>2
    <3> QED
      BY <3>1, <3>3, <3>4
  <2>3. n = 0
    <3>1. d = <<>>
      BY <2>2, <1>2
    <3>2. Count(<<>>, Stmt) = 0
      BY QuietLines, QuietAdded, <1>2, <3>1
    <3> QED
      BY <3>1, <3>2, <1>2
  <2>4. CodeOf(v, before) = Reopens("elseif")
    BY <1>9 DEF CodeOf
  <2> DEFINE x == Reopens("elseif")
             y == ElseEnds(v)
  <2>5. x \in Seq(Quiet) /\ y \in Seq(Quiet)
    BY <1>5
  <2> HIDE DEF x, y
  <2>6. Count(x, Stmt) = 0 /\ x \in Seq(Lines)
    BY <2>5, <1>2, QuietAdded
  <2>7. Count(x \o y, Stmt) = 0
    BY <2>5, <2>6, QuietAdded
  <2> QED
    BY <2>3, <2>4, <2>7 DEF x, y, n, before
<1>10. CASE ~Coalesces(v, before)
  <2> DEFINE z == IF IsCondJump(gend[v]) THEN CondLine(v)
                  ELSE IF IsUncondJump(gend[v]) THEN UncondLine(v) ELSE <<>>
             y == ElseEnds(v)
             x == CodeOf(v, before)
  <2>1. z \in Seq(Quiet) /\ y \in Seq(Quiet)
    BY <1>5
  <2>2. x = before \o z
    <3>1. before \o <<>> = before
      BY <1>8
    <3>2. ~(IsCondJump(gend[v]) /\ IsUncondJump(gend[v]))
      BY DEF IsCondJump, IsUncondJump
    <3>3. x = IF IsCondJump(gend[v]) THEN before \o CondLine(v)
              ELSE IF IsUncondJump(gend[v]) THEN before \o UncondLine(v) ELSE before
      BY <3>2, <1>10 DEF CodeOf
    <3>4. CASE IsCondJump(gend[v])
      BY <3>3, <3>4
    <3>5. CASE ~IsCondJump(gend[v]) /\ IsUncondJump(gend[v])
      BY <3>3, <3>5
    <3>6. CASE ~IsCondJump(gend[v]) /\ ~IsUncondJump(gend[v])
      BY <3>1, <3>3, <3>6
    <3> QED
      BY <3>4, <3>5, <3>6
  <2> HIDE DEF x, y, z
  <2>3. x \in Seq(Lines) /\ Count(x, Stmt) = n
    BY <2>1, <2>2, <1>8, QuietAdded, ConcatProperties
  <2>4. Count(x \o y, Stmt) = n
    BY <2>1, <2>3, QuietAdded
  <2> QED
    BY <2>4 DEF x, y, n, before
<1> QED
  BY <1>9, <1>10

----------------------------------------------------------------------------
(***************************************************************************)
(* What can be reached.  When the entry points have kept vertices of their *)
(* own, a group can be reached if its instructions can, and following the  *)
(* edges of the graph from the entry points leads to all of those groups.  *)
(***************************************************************************)
Flows == GroupingInv /\ LevelsReached /\ FlowKept /\ Functions \subseteq vertices

LEMMA EdgesReach ==
  ASSUME Flows
  PROVE  \A e \in edges : e[1] \in Reached => e[2] \in Reached
<1> SUFFICES ASSUME NEW e \in edges, e[1] \in Reached PROVE e[2] \in Reached
  OBVIOUS
<1>1. IsProgram(prog) /\ FlowEdges \in SUBSET (Insts \X Insts)
  BY FlowEdgesType DEF Flows, GroupingInv, GroupingTypeOK, GraphTypeOK
<1>2. PICK f \in FlowEdges : e = <<addrMap[f[1]], f[2]>>
  BY DEF Flows, FlowKept
<1>3. f[1] \in Insts /\ e[1] = addrMap[f[1]] /\ e[2] = f[2]
  BY <1>1, <1>2
<1>4. f[1] \in Reached
  BY <1>3 DEF Flows, LevelsReached
<1> QED
  BY <1>1, <1>3, <1>4, ReachedClosed

LEMMA ReachedInside ==
  ASSUME Flows, NEW T, Functions \subseteq T, \A e \in edges : e[1] \in T => e[2] \in T
  PROVE  \A i \in Reached : addrMap[i] \in T
<1> DEFINE I == {i \in Insts : addrMap[i] \in T}
           U == I \X Int
<1>1. /\ IsProgram(prog) /\ GroupsTile /\ vertices \in SUBSET Insts
      /\ edges \in SUBSET (vertices \X vertices) /\ gend \in [Insts -> Insts]
      /\ addrMap \in [Insts -> Insts]
  BY DEF Flows, GroupingInv, GroupingTypeOK, GraphTypeOK
<1>2. /\ Insts = 1 .. Size /\ Size \in Nat /\ FlowEdges \in SUBSET (Insts \X Insts)
      /\ \A i \in Insts : Change(i) \in Int
  BY <1>1, ProgramFacts, FlowEdgesType
<1>3. \A v \in vertices : v \in T => v \in I
  BY <1>1 DEF GroupsTile
<1>4. Functions \X {0} \subseteq U
  <2>1. Functions \subseteq I
    BY <1>3 DEF Flows
  <2> QED
    BY <2>1
<1>5. ASSUME NEW e \in FlowEdges, e[1] \in I
      PROVE  e[2] \in I
  <2> DEFINE a == addrMap[e[1]]
  <2>1. e[1] \in Insts /\ e[2] \in Insts /\ a \in T
    BY <1>2, <1>5
  <2>2. CASE e[1] = gend[a]
    <3>1. <<a, e[2]>> \in edges
      BY <2>2 DEF Flows, FlowKept
    <3>2. e[2] \in T /\ e[2] \in vertices
      <4> DEFINE g == <<a, e[2]>>
      <4>1. g \in edges /\ g[1] = a /\ g[2] = e[2]
        BY <3>1
      <4> HIDE DEF g, a
      <4>2. g[2] \in T
        BY <4>1, <2>1
      <4>3. g[2] \in vertices
        BY <4>1, <1>1
      <4> QED
        BY <4>1, <4>2, <4>3
    <3> QED
      BY <3>2, <1>3
  <2>3. CASE e[1] # gend[a]
    <3>1. e[2] = e[1] + 1
      BY <2>3 DEF Flows, FlowKept
    <3>2. a \in vertices /\ a <= e[1] /\ e[1] <= gend[a] /\ a \in Insts /\ gend[a] \in Insts
      BY <2>1, <1>1 DEF GroupsTile
    <3>3. e[2] \in a .. gend[a]
      <4> HIDE DEF a
      <4> QED
        BY <3>1, <3>2, <2>1, <2>3, <1>2
    <3>4. addrMap[e[2]] = a
      BY <3>2, <3>3, <1>1 DEF GroupsTile
    <3> QED
      BY <3>4, <2>1
  <2> QED
    BY <2>2, <2>3
<1>6. \A e \in FlowEdges, l \in Int :
        <<e[1], l>> \in U \cap PathLevels /\ <<e[2], l + Change(e[1])>> \in PathLevels
          => <<e[2], l + Change(e[1])>> \in U
  <2> SUFFICES ASSUME NEW e \in FlowEdges, NEW l \in Int, <<e[1], l>> \in U
               PROVE  <<e[2], l + Change(e[1])>> \in U
    OBVIOUS
  <2>1. e[1] \in I /\ e[1] \in Insts
    BY <1>2
  <2>2. l + Change(e[1]) \in Int
    BY <2>1, <1>2
  <2>3. e[2] \in I
    BY <2>1, <1>5
  <2> HIDE DEF I
  <2> QED
    BY <2>2, <2>3
<1>7. PathLevels \subseteq U
  <2> HIDE DEF U
  <2> QED
    BY <1>1, <1>4, <1>6, PathsLeast
<1>8. \A p \in U : p[1] \in I
  OBVIOUS
<1> QED
  BY <1>7, <1>8 DEF Reached

LEMMA GroupReached ==
  ASSUME Flows, NEW i \in Insts
  PROVE  i \in Reached <=> addrMap[i] \in Reached
<1>1. i \notin Reached => addrMap[i] = i
  BY DEF Flows, LevelsReached
<1>2. \A j \in Reached : addrMap[j] \in Reached
  <2>1. Functions \subseteq Reached
    BY ReachedClosed DEF Flows, GroupingInv, GroupingTypeOK, GraphTypeOK
  <2> QED
    BY <2>1, EdgesReach, ReachedInside
<1> QED
  BY <1>1, <1>2

----------------------------------------------------------------------------
(***************************************************************************)
(* What has been printed.  A function is told by its entry point from      *)
(* those before it; what it can reach it shares with no other.  Of the     *)
(* groups that can be reached, those before the current function have been *)
(* generated and printed with the functions they belong to; of the current *)
(* one those are generated that the search has found and that no longer    *)
(* wait on its stack, and those are printed that lie before `printing'.    *)
(* What lies behind has no code yet, although every function prints it.    *)
(***************************************************************************)
OfCurrent(v) == {f \in Functions : f <= v} = {f \in Functions : f <= func}

Earlier == {v \in vertices \cap Reached : v < func}

Finished == Earlier \cup (found \ Waiting)

Printed ==
  Earlier \cup
  {v \in found : \/ gen \in {"start", "done"}
                 \/ gen = "print" /\ (printing = NULL \/ v < printing)}

Statements(S) == {i \in prog.prints \cap Insts : addrMap[i] \in S}

CodeFollows ==
  /\ \A v \in found : OfCurrent(v) /\ v \in Reached
  /\ \A v \in found \ Waiting : Successors(v) \subseteq found
  /\ func # 0 => func \in found
  /\ gen # "process" => dfsStack = <<>>
  /\ gen = "print" /\ printing # NULL => printing \in vertices /\ func <= printing
  /\ \A v \in vertices : Count(code[v], Stmt) = IF v \in Finished THEN InGroup(v) ELSE 0
  /\ Count(output, {"stmt"}) = Cardinality(Statements(Printed))

FunctionsStarted ==
  /\ gen = "start" \/ func # 0
  /\ \A f \in Functions : f <= func => f \in vertices
  /\ gen = "done" => \A f \in Functions : f <= func

Sound == FunctionsClosed /\ Functions \subseteq vertices

NothingPrinted == pass # "done" => code = [i \in Insts |-> <<>>] /\ output = <<>>

PrintInv ==
  /\ LevelsReached
  /\ EntriesFlow
  /\ FunctionsStarted
  /\ NothingPrinted
  /\ Sound /\ pass = "done" /\ gen \notin {"undefined", "failed"} => CodeFollows

\* While the graph stands still.
LEMMA StandsStill ==
  ASSUME UNCHANGED vars
  PROVE  /\ UNCHANGED <<vertices, edges, addrMap, gend, next, prog, pass>>
         /\ Insts' = Insts /\ Size' = Size /\ Functions' = Functions /\ Reached' = Reached
         /\ Sound' <=> Sound
         /\ \A v : Successors(v)' = Successors(v) /\ InGroup(v)' = InGroup(v)
<1>1. UNCHANGED <<vertices, edges, addrMap, gend, next, prog, pass>>
  BY DEF vars, groupingVars, graphVars, analysisVars
<1>2. Insts' = Insts /\ Size' = Size /\ Functions' = Functions
  BY <1>1 DEF Insts, Size, Functions
<1>3. Reached' = Reached
  BY <1>1, PathsKept
<1>4. Sound' <=> Sound
  BY <1>1, <1>2 DEF Sound, FunctionsClosed
<1>5. \A v : Successors(v)' = Successors(v) /\ InGroup(v)' = InGroup(v)
  BY <1>1 DEF Successors, InGroup
<1> QED
  BY <1>1, <1>2, <1>3, <1>4, <1>5

LEMMA FlowsSound ==
  ASSUME GenInv, PrintInv, Sound
  PROVE  Flows
  BY DEF GenInv, Inv, PrintInv, Sound, EntriesFlow, Flows

\* What belongs to the current function does not lie before it.
LEMMA CurrentBehind ==
  ASSUME GenInv, CodeFollows, NEW v \in found
  PROVE  func <= v
<1>1. CASE func = 0
  BY <1>1, ProgramFacts
    DEF GenInv, GenTypes, Inv, GroupingInv, GroupingTypeOK, GraphTypeOK
<1>2. CASE func # 0
  <2>1. func \in Functions /\ func \in Int
    BY <1>2, ProgramFacts
      DEF GenInv, GenTypes, Inv, GroupingInv, GroupingTypeOK, GraphTypeOK
  <2>2. func \in {f \in Functions : f <= func}
    BY <2>1
  <2> QED
    BY <2>2 DEF CodeFollows, OfCurrent
<1> QED
  BY <1>1, <1>2

(***************************************************************************)
(* When the search is over it has found every group of the current         *)
(* function that can be reached: any path to it starts at that function    *)
(* and stays in it.                                                        *)
(***************************************************************************)
LEMMA AllFound ==
  ASSUME GenInv, PrintInv, Sound, CodeFollows, gen # "process"
  PROVE  \A v \in vertices \cap Reached : OfCurrent(v) => v \in found
<1> DEFINE T == found \cup {v \in vertices : ~OfCurrent(v)}
<1>1. Flows /\ Waiting = {}
  <2>1. dfsStack = <<>>
    BY DEF CodeFollows
  <2>2. DOMAIN dfsStack = {}
    BY <2>1
  <2> QED
    BY <2>2, FlowsSound DEF Waiting
<1>2. /\ Functions \in SUBSET Insts /\ Insts = 1 .. Size /\ Size \in Nat
      /\ edges \in SUBSET (vertices \X vertices) /\ GroupsTile
      /\ func \in Functions \cup {0}
  BY ProgramFacts
    DEF GenInv, GenTypes, Inv, GroupingInv, GroupingTypeOK, GraphTypeOK
<1>3. ASSUME NEW f \in Functions
      PROVE  f \in T
  <2>1. CASE ~OfCurrent(f)
    BY <2>1 DEF Sound
  <2>2. CASE OfCurrent(f)
    <3>1. f \in Int /\ f # 0 /\ func \in Int
      BY <1>2
    <3>2. f \in {g \in Functions : g <= f}
      BY <3>1
    <3>3. f <= func
      BY <2>2, <3>2 DEF OfCurrent
    <3>4. func \in Functions
      BY <3>1, <3>3, <1>2
    <3>5. func \in {g \in Functions : g <= func}
      BY <3>1, <3>4
    <3>6. func <= f
      BY <2>2, <3>5 DEF OfCurrent
    <3>7. f = func /\ func # 0
      BY <3>1, <3>3, <3>6
    <3> QED
      BY <3>7 DEF CodeFollows
  <2> QED
    BY <2>1, <2>2
<1>4. ASSUME NEW e \in edges, e[1] \in T
      PROVE  e[2] \in T
  <2>1. e[1] \in vertices /\ e[2] \in vertices /\ e = <<e[1], e[2]>>
    BY <1>2
  <2>2. CASE e[1] \in found
    <3>1. e[2] \in Successors(e[1])
      BY <2>1 DEF Successors
    <3> QED
      BY <3>1, <2>2, <1>1 DEF CodeFollows
  <2>3. CASE ~OfCurrent(e[1])
    <3>1. {f \in Functions : f <= e[1]} = {f \in Functions : f <= e[2]}
      BY DEF Sound, FunctionsClosed
    <3>2. ~OfCurrent(e[2])
      BY <2>3, <3>1 DEF OfCurrent
    <3> QED
      BY <2>1, <3>2
  <2> QED
    BY <1>4, <2>2, <2>3
<1> HIDE DEF T
<1>5. \A i \in Reached : addrMap[i] \in T
  <2>1. Functions \subseteq T
    BY <1>3
  <2> QED
    BY <1>1, <1>4, <2>1, ReachedInside
<1>6. \A v \in vertices : addrMap[v] = v
  BY <1>2 DEF GroupsTile
<1> QED
  BY <1>5, <1>6 DEF T

\* The next function begins: all of the one before it is behind.
LEMMA FollowsStart ==
  ASSUME GenInv, PrintInv, Sound, CodeFollows, UNCHANGED vars, StartFunctionCode
  PROVE  CodeFollows'
<1>1. PICK f \in Functions \cap vertices :
        /\ func < f /\ \A g \in Functions : g <= func \/ f <= g
        /\ func' = f /\ dfsStack' = << <<f, 0>> >> /\ found' = {f}
        /\ code' = [code EXCEPT ![f] = @ \o
             IF ~Signatures THEN <<>>
             ELSE (IF func = 0 THEN <<>> ELSE Statement("blank")) \o Opens("function")]
  BY DEF StartFunctionCode
<1>2. gen = "start" /\ gen' = "process" /\ output' = output /\ dfsStack = <<>>
  BY DEF StartFunctionCode, CodeFollows
<1>3. /\ UNCHANGED <<vertices, gend, addrMap, prog>>
      /\ Insts' = Insts /\ Functions' = Functions /\ Reached' = Reached
      /\ \A v : InGroup(v)' = InGroup(v)
  BY StandsStill
<1>4. /\ Functions \in SUBSET Insts /\ Insts = 1 .. Size /\ Size \in Nat
      /\ vertices \in SUBSET Insts /\ func \in Functions \cup {0} /\ IsProgram(prog)
      /\ found \in SUBSET vertices /\ code \in [Insts -> Seq(Lines)]
  BY ProgramFacts
    DEF GenInv, GenTypes, Inv, GroupingInv, GroupingTypeOK, GraphTypeOK
<1>5. Waiting = {} /\ Waiting' = {f}
  <2>1. DOMAIN dfsStack = {} /\ DOMAIN dfsStack' = {1} /\ dfsStack'[1] = <<f, 0>>
    BY <1>1, <1>2
  <2> QED
    BY <2>1 DEF Waiting
<1>6. Earlier' = {v \in vertices \cap Reached : v < f}
  BY <1>1, <1>3 DEF Earlier
<1>7. Earlier' = Earlier \cup found
  <2>1. ASSUME NEW v \in vertices \cap Reached, v < f
        PROVE  v < func \/ v \in found
    <3> SUFFICES ASSUME ~(v < func) PROVE v \in found
      OBVIOUS
    <3>1. v \in Int /\ f \in Int /\ func \in Int /\ func <= v
      BY <1>4
    <3>2. ASSUME NEW g \in Functions
          PROVE  g <= v <=> g <= func
      <4>1. g \in Int
        BY <1>4
      <4> QED
        BY <4>1, <3>1, <2>1, <1>1
    <3>3. OfCurrent(v)
      BY <3>2 DEF OfCurrent
    <3> QED
      BY <3>3, <1>2, AllFound
  <2>2. \A v \in Earlier : v \in vertices \cap Reached /\ v < f
    BY <1>1, <1>4 DEF Earlier
  <2>3. ASSUME NEW v \in found
        PROVE  v \in vertices \cap Reached /\ v < f
    <3>1. v \in Reached /\ {g \in Functions : g <= v} = {g \in Functions : g <= func}
      BY DEF CodeFollows, OfCurrent
    <3>2. f \notin {g \in Functions : g <= func}
      BY <1>1, <1>4
    <3>3. ~(f <= v)
      BY <3>1, <3>2
    <3> QED
      BY <3>1, <3>3, <1>4
  <2> QED
    BY <2>1, <2>2, <2>3, <1>6 DEF Earlier
<1>8. Finished' = Finished
  <2>1. found' \ Waiting' = {}
    BY <1>1, <1>5
  <2>2. Finished' = Earlier' \cup (found' \ Waiting')
    BY DEF Finished
  <2> QED
    BY <2>1, <2>2, <1>5, <1>7 DEF Finished
<1>9. Printed' = Printed
  <2>1. Printed = Earlier \cup found
    BY <1>2 DEF Printed
  <2>2. Printed' = Earlier'
    BY <1>2 DEF Printed
  <2> QED
    BY <2>1, <2>2, <1>7
<1>10. Statements(Printed)' = Statements(Printed)
  BY <1>3, <1>9 DEF Statements
<1>11. ASSUME NEW v \in vertices
       PROVE  Count(code'[v], Stmt) = Count(code[v], Stmt)
  <2> DEFINE head == IF ~Signatures THEN <<>>
                     ELSE (IF func = 0 THEN <<>> ELSE Statement("blank")) \o Opens("function")
  <2>1. head \in Seq(Quiet)
    <3>1. (IF func = 0 THEN <<>> ELSE Statement("blank")) \in Seq(Quiet)
      BY QuietLines DEF Texts
    <3>2. Opens("function") \in Seq(Quiet)
      BY QuietLines DEF Texts
    <3>3. (IF func = 0 THEN <<>> ELSE Statement("blank")) \o Opens("function") \in Seq(Quiet)
      BY <3>1, <3>2, ConcatProperties
    <3> QED
      BY <3>3, QuietLines
  <2>2. v \in Insts /\ code[v] \in Seq(Lines)
    BY <1>4
  <2>3. code'[v] = IF v = f THEN code[v] \o head ELSE code[v]
    BY <2>2, <1>1, <1>4
  <2> HIDE DEF head
  <2> QED
    BY <2>1, <2>2, <2>3, QuietAdded
<1>12. \A v \in found' : OfCurrent(v)' /\ v \in Reached'
  <2>1. f \in Reached
    BY <1>4, ReachedClosed
  <2>2. OfCurrent(f)'
    BY <1>1, <1>3 DEF OfCurrent
  <2> QED
    BY <2>1, <2>2, <1>1, <1>3
<1>13. \A v \in found' \ Waiting' : Successors(v)' \subseteq found'
  BY <1>1, <1>5
<1>14. \A v \in vertices' :
         Count(code'[v], Stmt) = IF v \in Finished' THEN InGroup(v)' ELSE 0
  BY <1>3, <1>8, <1>11 DEF CodeFollows
<1>15. Count(output', {"stmt"}) = Cardinality(Statements(Printed)')
  BY <1>2, <1>10 DEF CodeFollows
<1>16. func' \in found' /\ gen' = "process"
  BY <1>1, <1>2
<1> QED
  BY <1>12, <1>13, <1>14, <1>15, <1>16 DEF CodeFollows, Count, Stmt, Lines

\* A group has been processed.
LEMMA FollowsProcess ==
  ASSUME GenInv, PrintInv, StackTracked, Sound, CodeFollows, UNCHANGED vars, ProcessGroup
  PROVE  CodeFollows'
<1>1. gen = "process" /\ dfsStack # <<>> /\ UNCHANGED <<gen, func, printing, output>>
  BY DEF ProcessGroup
<1>2. PICK v \in vertices, d \in Int :
        /\ Last(dfsStack) = <<v, d>> /\ Last(dfsStack)[1] = v /\ Last(dfsStack)[2] = d
        /\ v \in Insts /\ gend[v] \in Insts
  BY <1>1, TopOfStack
<1> DEFINE S == Successors(v)
<1>3. found' = found \cup S
  BY <1>2 DEF ProcessGroup
<1>4. v \in Waiting /\ Waiting' = (Waiting \ {v}) \cup (S \ found)
  BY <1>1, <1>2, StackAfter
<1>5. PICK order \in Orders(Predecessors(v)) :
        code' = [code EXCEPT ![v] = CodeOf(v, Before(v, order)) \o ElseEnds(v)]
  BY <1>2 DEF ProcessGroup
<1>6. /\ UNCHANGED <<vertices, gend, addrMap, prog>>
      /\ Insts' = Insts /\ Functions' = Functions /\ Reached' = Reached
      /\ \A w : Successors(w)' = Successors(w) /\ InGroup(w)' = InGroup(w)
  BY StandsStill
<1>7. /\ vertices \in SUBSET Insts /\ code \in [Insts -> Seq(Lines)]
      /\ edges \in SUBSET (vertices \X vertices)
  BY DEF GenInv, GenTypes, Inv, GroupingInv, GroupingTypeOK, GraphTypeOK
<1>8. v \in found /\ Waiting \subseteq found
  BY <1>4 DEF StackTracked
<1>9. Earlier' = Earlier
  BY <1>1, <1>6 DEF Earlier
<1>10. found' \ Waiting' = (found \ Waiting) \cup {v}
  BY <1>3, <1>4, <1>8
<1>11. Finished' = Finished \cup {v}
  BY <1>9, <1>10 DEF Finished
<1>12. v \notin Finished
  <2>1. func <= v
    BY <1>8, CurrentBehind
  <2>2. func \in Int /\ v \in Int
    BY <1>2, ProgramFacts
      DEF GenInv, GenTypes, Inv, GroupingInv, GroupingTypeOK, GraphTypeOK
  <2>3. v \notin Earlier
    BY <2>1, <2>2 DEF Earlier
  <2> QED
    BY <2>3, <1>4 DEF Finished
<1>13. Printed' = Printed
  <2>1. Printed = Earlier /\ Printed' = Earlier'
    BY <1>1 DEF Printed
  <2> QED
    BY <2>1, <1>9
<1>14. Statements(Printed)' = Statements(Printed)
  BY <1>6, <1>13 DEF Statements
<1>15. ASSUME NEW w \in vertices
       PROVE  Count(code'[w], Stmt) = IF w \in Finished' THEN InGroup(w) ELSE 0
  <2>1. CASE w = v
    <3>1. Count(code[v], Stmt) = 0
      BY <1>12 DEF CodeFollows
    <3>2. Count(CodeOf(v, Before(v, order)) \o ElseEnds(v), Stmt) = InGroup(v)
      BY <3>1, <1>7, CodeCount DEF GenInv
    <3>3. code'[v] = CodeOf(v, Before(v, order)) \o ElseEnds(v)
      BY <1>2, <1>5, <1>7
    <3> QED
      BY <2>1, <3>2, <3>3, <1>11
  <2>2. CASE w # v
    <3>1. code'[w] = code[w]
      BY <2>2, <1>5, <1>7
    <3> QED
      BY <2>2, <3>1, <1>11 DEF CodeFollows
  <2> QED
    BY <2>1, <2>2
<1>16. ASSUME NEW w \in S
       PROVE  OfCurrent(w) /\ w \in Reached
  <2> DEFINE e == <<v, w>>
  <2>1. e \in edges /\ e[1] = v /\ e[2] = w
    BY DEF Successors
  <2>2. OfCurrent(v) /\ v \in Reached /\ Flows
    BY <1>8, FlowsSound DEF CodeFollows
  <2> HIDE DEF e
  <2>3. w \in Reached
    BY <2>1, <2>2, EdgesReach
  <2>4. {f \in Functions : f <= v} = {f \in Functions : f <= w}
    BY <2>1 DEF Sound, FunctionsClosed
  <2> QED
    BY <2>2, <2>3, <2>4 DEF OfCurrent
<1>17. \A w \in found' : OfCurrent(w)' /\ w \in Reached'
  <2>1. \A w \in found' : OfCurrent(w) /\ w \in Reached
    BY <1>3, <1>16 DEF CodeFollows
  <2>2. \A w : OfCurrent(w)' <=> OfCurrent(w)
    BY <1>1, <1>6 DEF OfCurrent
  <2> QED
    BY <2>1, <2>2, <1>6
<1>18. \A w \in found' \ Waiting' : Successors(w)' \subseteq found'
  BY <1>3, <1>6, <1>10 DEF CodeFollows
<1>19. func' # 0 => func' \in found'
  BY <1>1, <1>3 DEF CodeFollows
<1>20. \A w \in vertices' :
         Count(code'[w], Stmt) = IF w \in Finished' THEN InGroup(w)' ELSE 0
  BY <1>6, <1>15
<1>21. Count(output', {"stmt"}) = Cardinality(Statements(Printed)')
  BY <1>1, <1>14 DEF CodeFollows
<1>22. gen' = "process"
  BY <1>1
<1> QED
  BY <1>17, <1>18, <1>19, <1>20, <1>21, <1>22 DEF CodeFollows, Count, Stmt, Lines

\* The search is over: printing begins at the entry point.
LEMMA FollowsEnd ==
  ASSUME GenInv, PrintInv, Sound, CodeFollows, UNCHANGED vars, EndFunctionCode
  PROVE  CodeFollows'
<1> DEFINE tail == IF Signatures THEN Closes("end") ELSE <<>>
<1>1. /\ gen = "process" /\ dfsStack = <<>> /\ gen' = "print" /\ printing' = func
      /\ code' = [code EXCEPT ![lastGroup] = @ \o tail]
      /\ UNCHANGED <<func, dfsStack, found, output>>
  BY DEF EndFunctionCode
<1>2. /\ UNCHANGED <<vertices, addrMap, prog>> /\ Insts' = Insts
      /\ Functions' = Functions /\ Reached' = Reached
      /\ \A w : Successors(w)' = Successors(w) /\ InGroup(w)' = InGroup(w)
  BY StandsStill
<1>3. /\ vertices \in SUBSET Insts /\ code \in [Insts -> Seq(Lines)] /\ func # 0
      /\ found \in SUBSET vertices /\ Insts = 1 .. Size /\ Size \in Nat
      /\ func \in Functions \cup {0} /\ Functions \in SUBSET Insts
  BY <1>1, ProgramFacts DEF PrintInv, FunctionsStarted, GenInv, GenTypes, Inv, GroupingInv,
    GroupingTypeOK, GraphTypeOK
<1>4. func \in vertices /\ func \in found /\ func \in Int
  BY <1>3 DEF CodeFollows
<1>5. Earlier' = Earlier /\ Waiting' = Waiting
  BY <1>1, <1>2 DEF Earlier, Waiting
<1>6. Finished' = Finished
  BY <1>1, <1>5 DEF Finished
<1>7. Printed' = Printed
  <2>1. Printed = Earlier
    BY <1>1 DEF Printed
  <2>2. Printed' = Earlier \cup {v \in found : func = NULL \/ v < func}
    BY <1>1, <1>5 DEF Printed
  <2>3. \A v \in found : ~(v < func)
    <3>1. \A v \in found : v \in Int
      BY <1>3
    <3> QED
      BY <3>1, <1>4, CurrentBehind
  <2> QED
    BY <2>1, <2>2, <2>3, <1>3 DEF NULL
<1>8. Statements(Printed)' = Statements(Printed)
  BY <1>2, <1>7 DEF Statements
<1>9. ASSUME NEW v \in vertices
      PROVE  Count(code'[v], Stmt) = Count(code[v], Stmt)
  <2>1. tail \in Seq(Quiet)
    BY QuietLines DEF Texts
  <2>2. v \in Insts /\ code[v] \in Seq(Lines)
    BY <1>3
  <2>3. code'[v] = IF v = lastGroup THEN code[v] \o tail ELSE code[v]
    BY <2>2, <1>1, <1>3
  <2> HIDE DEF tail
  <2> QED
    BY <2>1, <2>2, <2>3, QuietAdded
<1>10. \A w \in found' : OfCurrent(w)' /\ w \in Reached'
  <2>1. \A w : OfCurrent(w)' <=> OfCurrent(w)
    BY <1>1, <1>2 DEF OfCurrent
  <2> QED
    BY <2>1, <1>1, <1>2 DEF CodeFollows
<1>11. \A w \in found' \ Waiting' : Successors(w)' \subseteq found'
  BY <1>1, <1>2, <1>5 DEF CodeFollows
<1>12. func' \in found' /\ dfsStack' = <<>> /\ printing' \in vertices' /\ func' <= printing'
  BY <1>1, <1>2, <1>4
<1>13. \A w \in vertices' :
         Count(code'[w], Stmt) = IF w \in Finished' THEN InGroup(w)' ELSE 0
  BY <1>2, <1>6, <1>9 DEF CodeFollows
<1>14. Count(output', {"stmt"}) = Cardinality(Statements(Printed)')
  BY <1>1, <1>8 DEF CodeFollows
<1> QED
  BY <1>10, <1>11, <1>12, <1>13, <1>14 DEF CodeFollows, Count, Stmt, Lines

\* The vertex behind a group, and what is before it.
LEMMA BeforeNext ==
  ASSUME Inv, NEW p \in vertices
  PROVE  /\ next[p] # NULL => next[p] \in vertices /\ p < next[p]
         /\ \A v \in vertices : next[p] = NULL \/ v < next[p] <=> v < p \/ v = p
         /\ \A i \in Insts : addrMap[i] = p <=> i \in p .. gend[p]
<1>1. /\ GroupsTile /\ IsProgram(prog) /\ vertices \in SUBSET Insts
      /\ gend \in [Insts -> Insts] /\ addrMap \in [Insts -> Insts]
  BY DEF Inv, GroupingInv, GroupingTypeOK, GraphTypeOK
<1>2. Insts = 1 .. Size /\ Size \in Nat
  BY <1>1, ProgramFacts
<1> DEFINE h == gend[p]
<1>3. /\ p \in Insts /\ h \in Insts /\ p <= h /\ addrMap[p] = p
      /\ \A i \in p .. h : addrMap[i] = p
      /\ next[p] = IF h = Size THEN NULL ELSE h + 1
  BY <1>1 DEF GroupsTile
<1>4. \A i \in Insts : addrMap[i] = p <=> i \in p .. h
  <2>1. ASSUME NEW i \in Insts, addrMap[i] = p
        PROVE  i \in p .. h
    <3>1. p <= i /\ i <= h
      BY <2>1, <1>1 DEF GroupsTile
    <3> HIDE DEF h
    <3> QED
      BY <3>1, <1>2, <1>3
  <2> QED
    BY <2>1, <1>3
<1> HIDE DEF h
<1>5. ASSUME NEW v \in vertices
      PROVE  v <= h <=> v < p \/ v = p
  <2>1. v \in Insts /\ addrMap[v] = v
    BY <1>1 DEF GroupsTile
  <2>2. v \in p .. h => v = p
    BY <2>1, <1>4
  <2> QED
    BY <2>1, <2>2, <1>2, <1>3
<1>6. CASE h = Size
  <2>1. next[p] = NULL /\ \A v \in vertices : v <= h
    BY <1>1, <1>2, <1>3, <1>6
  <2> QED
    BY <2>1, <1>4, <1>5 DEF h
<1>7. CASE h # Size
  <2>1. next[p] = h + 1 /\ h + 1 # NULL /\ h + 1 \in Insts /\ p < h + 1
    BY <1>2, <1>3, <1>7 DEF NULL
  <2>2. \A v \in vertices : v < h + 1 <=> v <= h
    <3>1. h \in Int /\ \A v \in vertices : v \in Int
      BY <1>1, <1>2, <1>3
    <3> QED
      BY <3>1
  <2>3. h + 1 \in vertices
    <3> DEFINE a == addrMap[h + 1]
    <3>1. a \in vertices /\ a <= h + 1 /\ h + 1 <= gend[a] /\ a \in Insts
      BY <2>1, <1>1 DEF GroupsTile
    <3>2. \A i \in a .. gend[a] : addrMap[i] = a
      BY <3>1, <1>1 DEF GroupsTile
    <3>3. gend[a] \in Insts
      BY <3>1, <1>1
    <3> HIDE DEF a
    <3>4. a <= h => a = p
      <4>1. a <= h => a < p \/ a = p
        BY <3>1, <1>5
      <4>2. a < p => p \in a .. gend[a]
        BY <3>1, <3>3, <1>2, <1>3
      <4> QED
        BY <4>1, <4>2, <3>2, <1>3
    <3>5. ~(h + 1 <= h)
      BY <1>2, <1>3
    <3>6. a # p
      BY <3>1, <3>5 DEF h
    <3>7. a = h + 1
      BY <3>1, <3>4, <3>6, <2>1, <1>2, <1>3
    <3> QED
      BY <3>1, <3>7
  <2> QED
    BY <2>1, <2>2, <2>3, <1>4, <1>5 DEF h
<1> QED
  BY <1>6, <1>7

\* A group has been printed.
LEMMA FollowsPrint ==
  ASSUME GenInv, PrintInv, Sound, CodeFollows, UNCHANGED vars, PrintGroup
  PROVE  CodeFollows'
<1> DEFINE p == printing
           c == code[p]
           text == [k \in DOMAIN c |-> c[k].text]
           P == Printed
<1>1. /\ gen = "print" /\ p # NULL /\ printing' = next[p] /\ output' = output \o text
      /\ UNCHANGED <<gen, func, dfsStack, found, code>>
  BY DEF PrintGroup
<1>2. /\ UNCHANGED <<vertices, addrMap, prog>> /\ Insts' = Insts
      /\ Functions' = Functions /\ Reached' = Reached
      /\ \A w : Successors(w)' = Successors(w) /\ InGroup(w)' = InGroup(w)
  BY StandsStill
<1>3. /\ vertices \in SUBSET Insts /\ code \in [Insts -> Seq(Lines)]
      /\ found \in SUBSET vertices /\ Insts = 1 .. Size /\ Size \in Nat
      /\ func \in Functions \cup {0} /\ Functions \in SUBSET Insts
      /\ output \in Seq(Texts) /\ gend \in [Insts -> Insts]
  BY ProgramFacts DEF GenInv, GenTypes, Inv, GroupingInv, GroupingTypeOK, GraphTypeOK
<1>4. /\ p \in vertices /\ func <= p /\ p \in Int /\ func \in Int /\ p \in Insts
      /\ p .. gend[p] \subseteq Insts
  <2>1. p \in vertices /\ func <= p
    BY <1>1 DEF CodeFollows
  <2>2. \A v \in Insts : v \in Int /\ v \in 1 .. Size
    BY <1>3
  <2>3. p \in Insts /\ gend[p] \in Insts
    BY <2>1, <1>3
  <2>4. func \in Int
    BY <2>2, <1>3
  <2> DEFINE h == gend[p]
  <2>5. p \in 1 .. Size /\ h \in 1 .. Size
    BY <2>2, <2>3
  <2> HIDE DEF h, p
  <2>6. p .. h \subseteq 1 .. Size
    BY <2>5, <1>3
  <2> QED
    BY <2>1, <2>2, <2>3, <2>4, <2>6, <1>3 DEF h
<1>5. /\ next[p] # NULL => next[p] \in vertices /\ p < next[p]
      /\ \A v \in vertices : next[p] = NULL \/ v < next[p] <=> v < p \/ v = p
      /\ \A i \in Insts : addrMap[i] = p <=> i \in p .. gend[p]
  <2> HIDE DEF p
  <2> QED
    BY <1>4, BeforeNext DEF GenInv
<1>6. Waiting = {} /\ dfsStack = <<>>
  <2>1. dfsStack = <<>>
    BY <1>1 DEF CodeFollows
  <2>2. DOMAIN dfsStack = {}
    BY <2>1
  <2> QED
    BY <2>1, <2>2 DEF Waiting
<1>7. Earlier' = Earlier /\ Waiting' = Waiting /\ Finished' = Finished
  <2>1. Earlier' = Earlier /\ Waiting' = Waiting
    BY <1>1, <1>2 DEF Earlier, Waiting
  <2> QED
    BY <2>1, <1>1 DEF Finished
<1>8. p \notin Earlier
  BY <1>4 DEF Earlier
<1>9. p \in Finished <=> p \in found
  BY <1>6, <1>8 DEF Finished
<1>10. P = Earlier \cup {v \in found : v < p} /\ p \notin P
  BY <1>1, <1>4, <1>8 DEF Printed
<1>11. Printed' = P \cup ({p} \cap found)
  <2>1. Printed' = Earlier \cup {v \in found : next[p] = NULL \/ v < next[p]}
    BY <1>1, <1>7 DEF Printed
  <2>2. \A v \in found : next[p] = NULL \/ v < next[p] <=> v < p \/ v = p
    BY <1>3, <1>5
  <2> QED
    BY <2>1, <2>2, <1>10
<1>12. Statements(Printed)' = Statements(Printed')
  BY <1>2 DEF Statements
<1>13. Count(text, {"stmt"}) = Count(c, Stmt) /\ text \in Seq(Texts)
  <2>1. c \in Seq(Lines)
    BY <1>3, <1>4
  <2> HIDE DEF c
  <2>2. DOMAIN c = 1 .. Len(c) /\ Len(c) \in Nat /\ \A k \in DOMAIN c : c[k] \in Lines
    BY <2>1
  <2>3. \A k \in DOMAIN c : text[k] = c[k].text /\ c[k].text \in Texts
    BY <2>2 DEF Lines
  <2>4. DOMAIN text = DOMAIN c
    OBVIOUS
  <2> HIDE DEF text
  <2>5. {k \in DOMAIN text : text[k] \in {"stmt"}} = {k \in DOMAIN c : c[k] \in Stmt}
    BY <2>2, <2>3, <2>4 DEF Stmt
  <2>6. text \in Seq(Texts)
    BY <2>2, <2>3, <2>4 DEF text
  <2> QED
    BY <2>5, <2>6 DEF Count
<1>14. Count(c, Stmt) = IF p \in found THEN InGroup(p) ELSE 0
  BY <1>4, <1>9 DEF CodeFollows
<1>15. Count(output', {"stmt"})
         = Cardinality(Statements(P)) + (IF p \in found THEN InGroup(p) ELSE 0)
  <2> HIDE DEF text, c, p
  <2>1. Count(output \o text, {"stmt"}) = Count(output, {"stmt"}) + Count(text, {"stmt"})
    BY <1>3, <1>13, CountConcat
  <2> QED
    BY <2>1, <1>1, <1>13, <1>14 DEF CodeFollows, P
<1> DEFINE G == prog.prints \cap (p .. gend[p])
           A == Statements(P)
<1>16. IsFiniteSet(A) /\ IsFiniteSet(G) /\ A \cap G = {}
  <2>1. IsFiniteSet(Insts) /\ A \subseteq Insts
    <3>1. IsFiniteSet(1 .. Size)
      BY <1>3, FS_Interval
    <3> QED
      BY <3>1, <1>3 DEF Statements
  <2>2. G \subseteq Insts
    BY <1>4
  <2>3. A \cap G = {}
    BY <2>2, <1>5, <1>10 DEF Statements
  <2> HIDE DEF A, G
  <2> QED
    BY <2>1, <2>2, <2>3, FS_Subset
<1>17. Cardinality(Statements(Printed'))
         = Cardinality(A) + (IF p \in found THEN InGroup(p) ELSE 0)
  <2>1. CASE p \notin found
    <3>1. Printed' = P
      BY <2>1, <1>11
    <3>2. Cardinality(A) \in Nat
      <4> HIDE DEF A
      <4> QED
        BY <1>16, FS_CardinalityType
    <3> QED
      BY <2>1, <3>1, <3>2
  <2>2. CASE p \in found
    <3>1. Statements(Printed') = A \cup G
      <4>1. Printed' = P \cup {p}
        BY <2>2, <1>11
      <4>2. G \subseteq Insts
        BY <1>4
      <4> HIDE DEF P
      <4> QED
        BY <4>1, <4>2, <1>5 DEF Statements
    <3>2. InGroup(p) = Cardinality(G)
      BY DEF InGroup
    <3> HIDE DEF A, G
    <3>3. Cardinality(A \cup G) = Cardinality(A) + Cardinality(G) - Cardinality(A \cap G)
      BY <1>16, FS_Union
    <3>4. Cardinality(A \cap G) = 0 /\ Cardinality(A) \in Nat /\ Cardinality(G) \in Nat
      BY <1>16, FS_EmptySet, FS_CardinalityType
    <3> QED
      BY <2>2, <3>1, <3>2, <3>3, <3>4
  <2> QED
    BY <2>1, <2>2
<1>18. Count(output', {"stmt"}) = Cardinality(Statements(Printed)')
  BY <1>12, <1>15, <1>17
<1> HIDE DEF text, c, P, A, G
<1>19. \A w \in found' : OfCurrent(w)' /\ w \in Reached'
  <2>1. \A w : OfCurrent(w)' <=> OfCurrent(w)
    BY <1>1, <1>2 DEF OfCurrent
  <2> QED
    BY <2>1, <1>1, <1>2 DEF CodeFollows
<1>20. \A w \in found' \ Waiting' : Successors(w)' \subseteq found'
  BY <1>1, <1>2, <1>7 DEF CodeFollows
<1>21. /\ func' # 0 => func' \in found'
       /\ dfsStack' = <<>>
       /\ printing' # NULL => printing' \in vertices' /\ func' <= printing'
  <2>1. next[p] # NULL => func <= next[p]
    <3> DEFINE n == next[p]
    <3>1. n # NULL => n \in vertices /\ p < n
      BY <1>5
    <3>2. \A v \in vertices : v \in Int
      BY <1>3
    <3>3. p \in Int /\ func \in Int /\ func <= p
      BY <1>4
    <3> HIDE DEF n, p
    <3>4. n # NULL => func <= n
      BY <3>1, <3>2, <3>3
    <3> QED
      BY <3>4 DEF n
  <2> QED
    BY <2>1, <1>1, <1>2, <1>5, <1>6 DEF CodeFollows
<1>22. \A w \in vertices' :
         Count(code'[w], Stmt) = IF w \in Finished' THEN InGroup(w)' ELSE 0
  BY <1>1, <1>2, <1>7 DEF CodeFollows
<1> QED
  BY <1>18, <1>19, <1>20, <1>21, <1>22 DEF CodeFollows, Count, Stmt, Lines

\* The last group has been printed, and so has all of the function.
LEMMA FollowsPrinted ==
  ASSUME GenInv, PrintInv, Sound, CodeFollows, UNCHANGED vars, FunctionPrinted
  PROVE  CodeFollows'
<1>1. /\ gen = "print" /\ printing = NULL /\ gen' \in {"start", "done"}
      /\ UNCHANGED <<func, dfsStack, found, code, output>>
  BY DEF FunctionPrinted
<1>2. /\ UNCHANGED <<vertices, addrMap, prog>> /\ Insts' = Insts
      /\ Functions' = Functions /\ Reached' = Reached
      /\ \A w : Successors(w)' = Successors(w) /\ InGroup(w)' = InGroup(w)
  BY StandsStill
<1>3. Earlier' = Earlier /\ Waiting' = Waiting
  BY <1>1, <1>2 DEF Earlier, Waiting
<1>4. Finished' = Finished
  BY <1>1, <1>3 DEF Finished
<1>5. Printed' = Printed
  <2>1. Printed = Earlier \cup found
    BY <1>1 DEF Printed
  <2>2. Printed' = Earlier \cup found
    BY <1>1, <1>3 DEF Printed
  <2> QED
    BY <2>1, <2>2
<1>6. Statements(Printed)' = Statements(Printed)
  BY <1>2, <1>5 DEF Statements
<1>7. \A w \in found' : OfCurrent(w)' /\ w \in Reached'
  <2>1. \A w : OfCurrent(w)' <=> OfCurrent(w)
    BY <1>1, <1>2 DEF OfCurrent
  <2> QED
    BY <2>1, <1>1, <1>2 DEF CodeFollows
<1>8. \A w \in found' \ Waiting' : Successors(w)' \subseteq found'
  BY <1>1, <1>2, <1>3 DEF CodeFollows
<1>9. (func' # 0 => func' \in found') /\ dfsStack' = <<>> /\ gen' # "print"
  BY <1>1 DEF CodeFollows
<1>10. \A w \in vertices' :
         Count(code'[w], Stmt) = IF w \in Finished' THEN InGroup(w)' ELSE 0
  BY <1>1, <1>2, <1>4 DEF CodeFollows
<1>11. Count(output', {"stmt"}) = Cardinality(Statements(Printed)')
  BY <1>1, <1>6 DEF CodeFollows
<1> QED
  BY <1>7, <1>8, <1>9, <1>10, <1>11 DEF CodeFollows, Count, Stmt, Lines

----------------------------------------------------------------------------
LEMMA PrintInit == GenInit => PrintInv
<1> SUFFICES ASSUME GenInit PROVE PrintInv
  OBVIOUS
<1>1. LevelsReached /\ FlowKept
  BY FlowInit, ReachedInit DEF GenInit, Init
<1>2. /\ func = 0 /\ gen = "start" /\ code = [i \in Insts |-> <<>>] /\ output = <<>>
      /\ pass # "done" /\ Functions \in SUBSET Insts /\ Insts = 1 .. Size /\ Size \in Nat
  <2>1. IsProgram(prog)
    BY InitInv DEF GenInit, Inv, GroupingInv, GroupingTypeOK, GraphTypeOK
  <2> QED
    BY <2>1, ProgramFacts DEF GenInit, Init
<1>3. FunctionsStarted
  BY <1>2 DEF FunctionsStarted
<1> QED
  BY <1>1, <1>2, <1>3 DEF PrintInv, EntriesFlow, NothingPrinted

\* The graph keeps what PrintInv says of it.
LEMMA GraphReached ==
  ASSUME GenInv, PrintInv, [GenNext]_allVars
  PROVE  LevelsReached' /\ EntriesFlow' /\ Functions' = Functions /\ Insts' = Insts
<1>1. [Next]_vars
  BY GenSteps DEF GenInv
<1>2. [GroupingNext]_groupingVars
  BY <1>1, NextParts DEF vars
<1>3. prog' = prog
  BY <1>2, ProgKept
<1> QED
  BY <1>2, <1>3, ReachedNext, EntriesFlowNext DEF PrintInv, GenInv, Inv, Functions, Insts, Size

\* Generation begins with the analysis done, and nothing generated.
LEMMA FollowsAnalysis ==
  ASSUME GenInv, PrintInv, [GenNext]_allVars, UNCHANGED genVars, gen = "start", func = 0,
         pass # "done"
  PROVE  CodeFollows'
<1>1. /\ gen' = "start" /\ func' = 0 /\ found' = {} /\ dfsStack' = <<>>
      /\ code' = [i \in Insts |-> <<>>] /\ output' = <<>>
  BY DEF genVars, GenInv, AfterAnalysis, PrintInv, NothingPrinted
<1>2. GenInv'
  BY GenInvNext
<1>3. /\ vertices' \in SUBSET Insts /\ Insts' = Insts /\ \A i \in Insts : i \in Nat /\ ~(i < 0)
  <2>1. Insts' = Insts
    BY GraphReached
  <2>2. IsProgram(prog)
    BY DEF GenInv, Inv, GroupingInv, GroupingTypeOK, GraphTypeOK
  <2>3. Insts = 1 .. Size /\ Size \in Nat
    BY <2>2, ProgramFacts
  <2>4. vertices' \in SUBSET Insts'
    BY <1>2 DEF GenInv, Inv, GroupingInv, GroupingTypeOK, GraphTypeOK
  <2>5. \A i \in 1 .. Size : i \in Nat /\ ~(i < 0)
    BY <2>3
  <2> QED
    BY <2>1, <2>3, <2>4, <2>5
<1>4. Earlier' = {} /\ Finished' = {} /\ Printed' = {}
  <2>1. Earlier' = {}
    BY <1>1, <1>3 DEF Earlier
  <2> QED
    BY <2>1, <1>1 DEF Finished, Printed
<1>5. Count(<<>>, Stmt) = 0 /\ Count(<<>>, {"stmt"}) = 0
  <2>1. \A P : {k \in DOMAIN <<>> : <<>>[k] \in P} = {}
    OBVIOUS
  <2> QED
    BY <2>1, FS_EmptySet DEF Count
<1>6. Cardinality(Statements(Printed)') = 0
  <2>1. Statements(Printed)' = {}
    BY <1>4 DEF Statements
  <2> QED
    BY <2>1, FS_EmptySet
<1>7. \A w \in vertices' :
        Count(code'[w], Stmt) = IF w \in Finished' THEN InGroup(w)' ELSE 0
  BY <1>1, <1>3, <1>4, <1>5
<1>8. Count(output', {"stmt"}) = Cardinality(Statements(Printed)')
  BY <1>1, <1>5, <1>6
<1> QED
  BY <1>1, <1>7, <1>8 DEF CodeFollows, Count, Stmt, Lines

LEMMA StartedNext == GenInv /\ PrintInv /\ [GenNext]_allVars => FunctionsStarted'
<1> SUFFICES ASSUME GenInv, PrintInv, [GenNext]_allVars PROVE FunctionsStarted'
  OBVIOUS
<1>1. Functions' = Functions
  BY GraphReached
<1>2. /\ FunctionsStarted /\ Functions \in SUBSET Insts /\ Insts = 1 .. Size /\ Size \in Nat
      /\ func \in Functions \cup {0}
  BY ProgramFacts DEF PrintInv, GenInv, GenTypes, Inv, GroupingInv, GroupingTypeOK, GraphTypeOK
<1>3. \A f \in Functions : f \in Int /\ 0 < f
  BY <1>2
<1>4. CASE UNCHANGED genVars /\ gen = "start" /\ func = 0
  <2>1. gen' = "start" /\ func' = 0
    BY <1>4 DEF genVars
  <2> QED
    BY <2>1, <1>1, <1>3 DEF FunctionsStarted
<1>5. CASE UNCHANGED genVars /\ UNCHANGED vars
  <2>1. gen' = gen /\ func' = func /\ vertices' = vertices
    BY <1>5, StandsStill DEF genVars
  <2> QED
    BY <2>1, <1>1, <1>2 DEF FunctionsStarted
<1>6. CASE Generate /\ UNCHANGED vars
  <2>1. vertices' = vertices
    BY <1>6, StandsStill
  <2>2. CASE StartFunctionCode
    <3>1. PICK f \in Functions \cap vertices :
            func' = f /\ \A g \in Functions : g <= func \/ f <= g
      BY <2>2 DEF StartFunctionCode
    <3>2. gen' = "process" /\ f # 0
      BY <2>2, <3>1, <1>3 DEF StartFunctionCode
    <3>3. ASSUME NEW g \in Functions, g <= f
          PROVE  g \in vertices
      <4>1. g <= func \/ g = f
        BY <3>1, <3>3, <1>3
      <4> QED
        BY <4>1, <3>1, <1>2 DEF FunctionsStarted
    <3> QED
      BY <2>1, <3>1, <3>2, <3>3, <1>1 DEF FunctionsStarted
  <2>3. CASE ProcessGroup \/ PopEmptyStack \/ EndFunctionCode
    <3>1. func' = func /\ gen = "process" /\ gen' # "done"
      BY <2>3 DEF ProcessGroup, PopEmptyStack, EndFunctionCode
    <3> QED
      BY <2>1, <3>1, <1>1, <1>2 DEF FunctionsStarted
  <2>4. CASE PrintGroup \/ IndentationFails
    <3>1. func' = func /\ gen = "print" /\ gen' # "done"
      BY <2>4 DEF PrintGroup, IndentationFails
    <3> QED
      BY <2>1, <3>1, <1>1, <1>2 DEF FunctionsStarted
  <2>5. CASE FunctionPrinted
    <3>1. func' = func /\ gen = "print" /\ (gen' = "done" => ~ \E f \in Functions : func < f)
      BY <2>5 DEF FunctionPrinted
    <3>2. gen' = "done" => \A f \in Functions : f <= func
      BY <3>1, <1>2, <1>3
    <3> QED
      BY <2>1, <3>1, <3>2, <1>1, <1>2 DEF FunctionsStarted
  <2> QED
    BY <2>2, <2>3, <2>4, <2>5, <1>6 DEF Generate
<1> QED
  BY <1>4, <1>5, <1>6, GenSteps DEF GenInv

LEMMA PrintNext == GenInv /\ StackTracked /\ PrintInv /\ [GenNext]_allVars => PrintInv'
<1> SUFFICES ASSUME GenInv, StackTracked, PrintInv, [GenNext]_allVars PROVE PrintInv'
  OBVIOUS
<1>1. LevelsReached' /\ EntriesFlow' /\ FunctionsStarted' /\ Insts' = Insts
  BY GraphReached, StartedNext
<1>2. CASE UNCHANGED genVars /\ gen = "start" /\ func = 0 /\ pass # "done"
  <2>1. NothingPrinted'
    BY <1>1, <1>2 DEF PrintInv, NothingPrinted, genVars
  <2>2. CodeFollows'
    BY <1>2, FollowsAnalysis
  <2> QED
    BY <2>1, <2>2, <1>1 DEF PrintInv
<1>3. CASE UNCHANGED genVars /\ UNCHANGED vars
  <2>1. pass' = pass /\ (Sound' <=> Sound) /\ gen' = gen
    BY <1>3, StandsStill DEF genVars
  <2>2. NothingPrinted'
    BY <1>1, <1>3, <2>1 DEF PrintInv, NothingPrinted, genVars
  <2>3. CodeFollows => CodeFollows'
    <3> SUFFICES ASSUME CodeFollows PROVE CodeFollows'
      OBVIOUS
    <3>1. /\ UNCHANGED <<gen, func, dfsStack, found, code, printing, output>>
          /\ UNCHANGED <<vertices, addrMap, prog>> /\ Insts' = Insts
          /\ Functions' = Functions /\ Reached' = Reached
          /\ \A w : Successors(w)' = Successors(w) /\ InGroup(w)' = InGroup(w)
      BY <1>3, StandsStill DEF genVars
    <3>2. Earlier' = Earlier /\ Waiting' = Waiting /\ \A w : OfCurrent(w)' <=> OfCurrent(w)
      BY <3>1 DEF Earlier, Waiting, OfCurrent
    <3>3. Finished' = Finished /\ Printed' = Printed
      BY <3>1, <3>2 DEF Finished, Printed
    <3>4. Statements(Printed)' = Statements(Printed)
      BY <3>1, <3>3 DEF Statements
    <3>5. \A w \in found' : OfCurrent(w)' /\ w \in Reached'
      BY <3>1, <3>2 DEF CodeFollows
    <3>6. \A w \in found' \ Waiting' : Successors(w)' \subseteq found'
      BY <3>1, <3>2 DEF CodeFollows
    <3>7. \A w \in vertices' :
            Count(code'[w], Stmt) = IF w \in Finished' THEN InGroup(w)' ELSE 0
      BY <3>1, <3>3 DEF CodeFollows
    <3>8. Count(output', {"stmt"}) = Cardinality(Statements(Printed)')
      BY <3>1, <3>4 DEF CodeFollows
    <3> QED
      BY <3>1, <3>5, <3>6, <3>7, <3>8 DEF CodeFollows, Count, Stmt, Lines
  <2> QED
    BY <2>1, <2>2, <2>3, <1>1 DEF PrintInv
<1>4. CASE Generate /\ UNCHANGED vars /\ pass = "done"
  <2>1. pass' = pass /\ (Sound' <=> Sound)
    BY <1>4, StandsStill
  <2>2. NothingPrinted'
    BY <1>4, <2>1 DEF NothingPrinted
  <2>3. ASSUME Sound, gen' \notin {"undefined", "failed"}
        PROVE  CodeFollows'
    <3>1. ~PopEmptyStack /\ ~IndentationFails
      BY <2>3 DEF PopEmptyStack, IndentationFails
    <3>2. gen \in {"start", "process", "print"}
      BY <1>4 DEF Generate, StartFunctionCode, ProcessGroup, PopEmptyStack, EndFunctionCode,
        PrintGroup, IndentationFails, FunctionPrinted
    <3>3. CodeFollows
      BY <2>3, <3>2, <1>4 DEF PrintInv
    <3> QED
      BY <2>3, <3>1, <3>3, <1>4, FollowsStart, FollowsProcess, FollowsEnd, FollowsPrint,
        FollowsPrinted DEF Generate
  <2> QED
    BY <2>1, <2>2, <2>3, <1>1 DEF PrintInv
<1> QED
  BY <1>2, <1>3, <1>4, GenSteps DEF GenInv

(***************************************************************************)
(* A script whose functions share no code is printed with each of its      *)
(* statements exactly once, those no path reaches left out, whatever the   *)
(* grouping, the constructs that were found and the order in which edges   *)
(* are met: every function prints all groups behind its entry point, an    *)
(* else block may be taken over by its if, and no line is lost or printed  *)
(* twice for it.                                                           *)
(***************************************************************************)
THEOREM StatementsAlwaysPrintedOnce == GenSpec => []StatementsPrintedOnce
<1>1. GenInv /\ PrintInv => StatementsPrintedOnce
  <2> SUFFICES ASSUME GenInv, PrintInv, FunctionsClosed, gen = "done"
               PROVE  Count(output, {"stmt"}) =
                        Cardinality({i \in prog.prints : \E p \in PathLevels : p[1] = i})
    BY DEF StatementsPrintedOnce, Count
  <2>1. /\ Functions \in SUBSET Insts /\ Insts = 1 .. Size /\ Size \in Nat /\ IsProgram(prog)
        /\ func \in Functions \cup {0} /\ vertices \in SUBSET Insts
        /\ addrMap \in [Insts -> Insts] /\ GroupsTile
    BY ProgramFacts DEF GenInv, GenTypes, Inv, GroupingInv, GroupingTypeOK, GraphTypeOK
  <2>2. Sound /\ (\A f \in Functions : f <= func) /\ pass = "done"
    BY DEF Sound, PrintInv, FunctionsStarted, GenInv, AfterAnalysis
  <2>3. CodeFollows /\ Flows
    BY <2>2, FlowsSound DEF PrintInv
  <2>4. Printed = vertices \cap Reached
    <3>1. Printed = Earlier \cup found
      BY DEF Printed
    <3>2. \A v \in found : v \in vertices /\ v \in Reached
      BY <2>3 DEF CodeFollows, GenInv, GenTypes
    <3>3. ASSUME NEW v \in vertices \cap Reached, ~(v < func)
          PROVE  v \in found
      <4>1. v \in Int /\ func \in Int /\ func <= v
        BY <3>3, <2>1
      <4>2. \A f \in Functions : f <= v
        BY <4>1, <2>1, <2>2
      <4>3. OfCurrent(v)
        BY <4>2, <2>2 DEF OfCurrent
      <4> QED
        BY <4>3, <2>2, <2>3, AllFound
    <3> QED
      BY <3>1, <3>2, <3>3 DEF Earlier
  <2>5. Statements(Printed) = {i \in prog.prints : \E p \in PathLevels : p[1] = i}
    <3>1. \A i : i \in Reached <=> \E p \in PathLevels : p[1] = i
      BY DEF Reached
    <3>2. \A i \in Insts : addrMap[i] \in vertices
      BY <2>1 DEF GroupsTile
    <3>3. Reached \subseteq Insts
      BY <2>1, ReachedClosed
    <3>4. \A i \in Insts : addrMap[i] \in Printed <=> i \in Reached
      BY <2>3, <2>4, <3>2, GroupReached
    <3> QED
      BY <3>1, <3>3, <3>4 DEF Statements
  <2> QED
    BY <2>3, <2>5 DEF CodeFollows
<1> QED
  BY <1>1, GenInvInit, GenInvNext, TrackedInit, TrackedNext, PrintInit, PrintNext, PTL DEF GenSpec
=============================================================================
