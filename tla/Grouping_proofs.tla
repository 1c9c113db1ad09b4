-------------------------- MODULE Grouping_proofs --------------------------
(***************************************************************************)
(* Proofs about Grouping, for every program and both kinds of grouping:    *)
(* first that the sweep forms basic blocks, then that setStackLevel finds  *)
(* the levels of every program that has them, and that the sweep groups    *)
(* what it finds into statements.                                          *)
(***************************************************************************)
EXTENDS Grouping, Induction_proofs

(***************************************************************************)
(* The sweep leaves what lies ahead of it alone: behind pos every          *)
(* instruction is a vertex of its own, and the group pos is in ends there. *)
(***************************************************************************)
Frontier ==
  /\ phase \in {"levels", "undefined"} => pos = 1
  /\ \A i \in Insts : pos < i => i \in vertices /\ gend[i] = i /\ addrMap[i] = i
  /\ gend[addrMap[pos]] = pos

\* The inductive invariant of grouping.
GroupingInv == GroupingTypeOK /\ GroupsTile /\ Frontier

----------------------------------------------------------------------------
(***************************************************************************)
(* What IsProgram gives of the operators that look into prog.              *)
(***************************************************************************)
LEMMA ProgramFacts ==
  ASSUME IsProgram(prog)
  PROVE  /\ Size \in Nat \ {0}
         /\ Insts = 1 .. Size
         /\ \A i \in Insts : Change(i) \in Int /\ Dest(i) \in Nat
         /\ Functions \in SUBSET Insts
<1>1. prog.code \in Seq(Instruction) /\ prog.code # <<>>
  BY DEF IsProgram
<1>2. Size \in Nat \ {0} /\ Insts = 1 .. Size
  BY <1>1 DEF Size, Insts
<1>3. ASSUME NEW i \in Insts
      PROVE  Change(i) \in Int /\ Dest(i) \in Nat
  <2>1. prog.code[i] \in Instruction
    BY <1>1, <1>2 DEF Insts, Size
  <2> QED
    BY <2>1 DEF Instruction, Change, Dest
<1>4. Functions \in SUBSET Insts
  BY <1>2 DEF IsProgram, Functions, Insts, Size
<1> QED
  BY <1>2, <1>3, <1>4

LEMMA FlowEdgesType ==
  ASSUME IsProgram(prog)
  PROVE  FlowEdges \in SUBSET (Insts \X Insts)
  BY ProgramFacts DEF FlowEdges, FallsThrough

\* The queue VisitVertex leaves is a queue again, whatever the order.
LEMMA PushedType ==
  ASSUME NEW S, IsFiniteSet(S), NEW order \in SetToSeqs(S), NEW l
  PROVE  [k \in DOMAIN order |-> <<order[k], l>>] \in Seq(S \X {l})
<1>1. Cardinality(S) \in Nat
  BY FS_CardinalityType
<1>2. order \in [1 .. Cardinality(S) -> S]
  BY DEF SetToSeqs
<1>3. [k \in DOMAIN order |-> <<order[k], l>>] \in [1 .. Cardinality(S) -> S \X {l}]
  BY <1>2
<1> QED
  BY <1>1, <1>3

----------------------------------------------------------------------------
LEMMA InvInit == GroupingInit => GroupingInv
<1> SUFFICES ASSUME GroupingInit PROVE GroupingInv
  OBVIOUS
<1> USE DEF GroupingInit, GraphInit
<1>1. IsProgram(prog)
  BY ProgramsAssumption
<1>2. /\ Size \in Nat \ {0}
      /\ Insts = 1 .. Size
      /\ Functions \in SUBSET Insts
      /\ FlowEdges \in SUBSET (Insts \X Insts)
  BY <1>1, ProgramFacts, FlowEdgesType
<1>3. GraphTypeOK
  BY <1>1, <1>2 DEF GraphTypeOK, NULL
<1>4. GroupingTypeOK
  BY <1>2, <1>3 DEF GroupingTypeOK, Unset
<1>5. GroupsTile
  BY <1>2 DEF GroupsTile, NULL
<1>6. Frontier
  BY <1>2 DEF Frontier
<1> QED
  BY <1>4, <1>5, <1>6 DEF GroupingInv

(***************************************************************************)
(* Only the sweep changes the graph: a step that leaves it and pos alone   *)
(* preserves the two invariants on groups.                                 *)
(***************************************************************************)
LEMMA GraphKept ==
  ASSUME GroupsTile, Frontier, UNCHANGED <<graphVars, pos>>,
         phase' \in {"levels", "undefined"} => phase \in {"levels", "undefined"}
  PROVE  GroupsTile' /\ Frontier'
  BY DEF graphVars, GroupsTile, Frontier, Insts, Size

\* What the sweep knows of the pair of instructions it is at.
LEMMA SweepFacts ==
  ASSUME GroupingInv, InSweep
  PROVE  /\ pos \in Insts /\ pos + 1 \in Insts /\ pos \in Nat
         /\ Size \in Nat /\ Insts = 1 .. Size
         /\ Cur \in vertices /\ Cur \in Insts /\ Cur <= pos /\ gend[Cur] = pos
         /\ Nxt = pos + 1 /\ Nxt \in vertices /\ gend[Nxt] = Nxt
         /\ LevelAfter \in Int /\ LoweredLevel \in Int
<1> USE DEF GroupingInv
<1>1. IsProgram(prog)
  BY DEF GroupingTypeOK, GraphTypeOK
<1>2. /\ Size \in Nat /\ Insts = 1 .. Size
      /\ pos \in Insts /\ pos + 1 \in Insts /\ pos \in Nat
  BY <1>1, ProgramFacts DEF InSweep, GroupingTypeOK
<1>3. /\ Cur \in vertices /\ Cur \in Insts /\ Cur <= pos /\ gend[Cur] = pos
      /\ Nxt = pos + 1 /\ Nxt \in vertices /\ gend[Nxt] = Nxt
  <2>1. addrMap[pos] \in vertices /\ addrMap[pos] <= pos /\ addrMap[pos] \in Insts
    BY <1>2 DEF GroupsTile, GroupingTypeOK, GraphTypeOK
  <2>2. gend[addrMap[pos]] = pos
    BY DEF Frontier
  <2>3. pos + 1 \in vertices /\ gend[pos + 1] = pos + 1 /\ addrMap[pos + 1] = pos + 1
    BY <1>2 DEF Frontier
  <2> QED
    BY <2>1, <2>2, <2>3 DEF Cur, Nxt
<1>4. LevelAfter \in Int
  BY <1>1, <1>2, ProgramFacts DEF LevelAfter, GroupingTypeOK
<1>5. LoweredLevel \in Int
  BY <1>2, <1>3 DEF LoweredLevel, GroupingTypeOK
<1> QED
  BY <1>2, <1>3, <1>4, <1>5

LEMMA UpdateLevelsType ==
  ASSUME GroupingInv, InSweep, UpdateLevels
  PROVE  level' \in [Insts -> Int]
  BY SweepFacts DEF UpdateLevels, GroupingInv, GroupingTypeOK

\* A step of the sweep that merges nothing.
LEMMA SweepOn ==
  ASSUME GroupingInv, InSweep, UNCHANGED <<graphVars, phase>>, pos' = pos + 1
  PROVE  GroupsTile' /\ Frontier'
<1>1. GroupsTile'
  BY DEF GroupingInv, GroupsTile, graphVars, Insts, Size
<1>2. Frontier'
  BY SweepFacts DEF GroupingInv, Frontier, GroupsTile, graphVars, Insts, Size, InSweep, Nxt, Cur
<1> QED
  BY <1>1, <1>2

(***************************************************************************)
(* Merging the group that ends at pos with the vertex that follows it.     *)
(***************************************************************************)
LEMMA MergeChanges ==
  ASSUME GroupingInv, InSweep, Merge(Cur, Nxt)
  PROVE  /\ UNCHANGED <<prog, Size, Insts>>
         /\ gend' = [gend EXCEPT ![Cur] = pos + 1]
         /\ addrMap' = [addrMap EXCEPT ![pos + 1] = Cur]
         /\ vertices' = vertices \ {pos + 1}
         /\ edges' = {e \in edges \cup {<<Cur, w>> : w \in Successors(pos + 1)} :
                        e[1] # pos + 1 /\ e[2] # pos + 1}
         /\ next' = [next EXCEPT ![Cur] = next[pos + 1]]
         /\ prev' = [v \in Insts |-> IF v = next[pos + 1] THEN prev[pos + 1] ELSE prev[v]]
<1>1. LoopRange(pos + 1) = {pos + 1}
  BY SweepFacts DEF LoopRange
<1>2. addrMap \in [Insts -> Insts]
  BY DEF GroupingInv, GroupingTypeOK, GraphTypeOK
<1> QED
  BY <1>1, <1>2, SweepFacts DEF Merge, Size, Insts

LEMMA MergeType ==
  ASSUME GroupingInv, InSweep, Merge(Cur, Nxt)
  PROVE  GraphTypeOK'
<1> DEFINE n == pos + 1
<1>1. GraphTypeOK
  BY DEF GroupingInv, GroupingTypeOK
<1>2. /\ n \in vertices /\ n \in Insts
      /\ Cur \in vertices /\ Cur \in Insts /\ Cur # n
  BY SweepFacts
<1>3. prog' = prog /\ Insts' = Insts
  BY MergeChanges
<1>4. vertices' = vertices \ {n}
  BY MergeChanges
<1>5. edges' \in SUBSET (vertices' \X vertices')
  <2>1. edges' = {e \in edges \cup {<<Cur, w>> : w \in Successors(n)} :
                    e[1] # n /\ e[2] # n}
    BY MergeChanges
  <2>2. \A w \in Successors(n) : w \in vertices
    BY DEF Successors
  <2> HIDE DEF n
  <2> QED
    BY <1>1, <1>2, <1>4, <2>1, <2>2 DEF GraphTypeOK
<1>6. addrMap' \in [Insts -> Insts]
  BY <1>1, <1>2, MergeChanges DEF GraphTypeOK
<1>7. gend' \in [Insts -> Insts]
  BY <1>1, <1>2, MergeChanges DEF GraphTypeOK
<1>8. prev' \in [Insts -> Insts \cup {NULL}]
  BY <1>1, <1>2, MergeChanges DEF GraphTypeOK
<1>9. next' \in [Insts -> Insts \cup {NULL}]
  BY <1>1, <1>2, MergeChanges DEF GraphTypeOK
<1> QED
  BY <1>1, <1>3, <1>4, <1>5, <1>6, <1>7, <1>8, <1>9 DEF GraphTypeOK, IsProgram

LEMMA MergeTile ==
  ASSUME GroupingInv, InSweep, Merge(Cur, Nxt), pos' = pos + 1, UNCHANGED phase
  PROVE  GroupsTile' /\ Frontier'
<1>1. GraphTypeOK /\ GroupsTile /\ Frontier
  BY DEF GroupingInv, GroupingTypeOK
<1>2. /\ Size \in Nat /\ Insts = 1 .. Size /\ pos \in Insts /\ pos + 1 \in Insts
      /\ Cur \in vertices /\ Cur \in Insts /\ Cur <= pos /\ gend[Cur] = pos
      /\ pos + 1 \in vertices /\ gend[pos + 1] = pos + 1
  BY SweepFacts
<1>3. addrMap \in [Insts -> Insts] /\ gend \in [Insts -> Insts] /\ vertices \in SUBSET Insts
  BY <1>1 DEF GraphTypeOK
<1>4. /\ Insts' = Insts /\ Size' = Size
      /\ vertices' = vertices \ {pos + 1}
      /\ addrMap' = [addrMap EXCEPT ![pos + 1] = Cur]
      /\ gend' = [gend EXCEPT ![Cur] = pos + 1]
      /\ next' = [next EXCEPT ![Cur] = next[pos + 1]]
      /\ prev' = [v \in Insts |-> IF v = next[pos + 1] THEN prev[pos + 1] ELSE prev[v]]
  BY MergeChanges
<1>5. \A i \in Insts : addrMap[i] = pos + 1 => i = pos + 1
  BY <1>1, <1>2, <1>3 DEF GroupsTile
<1>6. ASSUME NEW i \in Insts
      PROVE  addrMap'[i] \in vertices' /\ addrMap'[i] <= i /\ i <= gend'[addrMap'[i]]
  <2>1. CASE i = pos + 1
    BY <2>1, <1>2, <1>3, <1>4
  <2>2. CASE i # pos + 1
    <3>1. addrMap'[i] = addrMap[i] /\ addrMap[i] # pos + 1
      BY <2>2, <1>3, <1>4, <1>5
    <3>2. addrMap[i] \in vertices /\ addrMap[i] <= i /\ i <= gend[addrMap[i]]
      BY <1>1 DEF GroupsTile
    <3> QED
      BY <3>1, <3>2, <1>2, <1>3, <1>4
  <2> QED
    BY <2>1, <2>2
<1>7. ASSUME NEW v \in vertices'
      PROVE  /\ addrMap'[v] = v
             /\ \A i \in v .. gend'[v] : addrMap'[i] = v
             /\ next'[v] = IF gend'[v] = Size' THEN NULL ELSE gend'[v] + 1
             /\ prev'[v] = IF v = 1 THEN NULL ELSE addrMap'[v - 1]
  <2>1. v \in vertices /\ v \in Insts /\ v # pos + 1
    BY <1>3, <1>4
  <2>2. /\ addrMap[v] = v
        /\ \A i \in v .. gend[v] : addrMap[i] = v
        /\ next[v] = IF gend[v] = Size THEN NULL ELSE gend[v] + 1
        /\ prev[v] = IF v = 1 THEN NULL ELSE addrMap[v - 1]
    BY <2>1, <1>1 DEF GroupsTile
  <2>0. addrMap'[v] = v
    BY <2>1, <2>2, <1>3, <1>4
  <2>3. \A i \in v .. gend'[v] : addrMap'[i] = v
    <3>1. CASE v = Cur
      BY <3>1, <2>1, <2>2, <1>2, <1>3, <1>4
    <3>2. CASE v # Cur
      <4>1. gend'[v] = gend[v] /\ gend[v] \in Insts
        BY <3>2, <2>1, <1>3, <1>4
      <4>2. \A i \in v .. gend[v] : i # pos + 1
        BY <2>1, <2>2, <1>1, <1>2 DEF Frontier
      <4> QED
        BY <4>1, <4>2, <2>1, <2>2, <1>2, <1>3, <1>4
    <3> QED
      BY <3>1, <3>2
  <2>4. next[pos + 1] = IF pos + 1 = Size THEN NULL ELSE pos + 2
    BY <1>1, <1>2 DEF GroupsTile
  <2>5. next'[v] = IF gend'[v] = Size THEN NULL ELSE gend'[v] + 1
    <3>1. next \in [Insts -> Insts \cup {NULL}]
      BY <1>1 DEF GraphTypeOK
    <3>2. CASE v = Cur
      BY <3>1, <3>2, <2>4, <1>2, <1>3, <1>4
    <3>3. CASE v # Cur
      BY <3>1, <3>3, <2>1, <2>2, <1>2, <1>3, <1>4
    <3> QED
      BY <3>2, <3>3
  <2>6. prev'[v] = IF v = 1 THEN NULL ELSE addrMap'[v - 1]
    <3>1. prev[pos + 1] = Cur
      BY <1>1, <1>2 DEF GroupsTile, Cur
    <3>2. CASE v = pos + 2
      <4>1. next[pos + 1] = v
        BY <3>2, <2>1, <2>4, <1>2
      <4>2. prev'[v] = Cur
        BY <4>1, <3>1, <2>1, <1>4
      <4>3. v # 1 /\ v - 1 = pos + 1 /\ addrMap'[pos + 1] = Cur
        BY <3>2, <1>2, <1>3, <1>4
      <4> QED
        BY <4>2, <4>3
    <3>3. CASE v # pos + 2
      <4>1. next[pos + 1] # v
        BY <3>3, <2>1, <2>4, <1>2 DEF NULL
      <4>2. prev'[v] = prev[v]
        BY <4>1, <2>1, <1>4
      <4>3. v = 1 \/ (v - 1 \in Insts /\ v - 1 # pos + 1)
        BY <3>3, <2>1, <1>2
      <4> QED
        BY <4>2, <4>3, <2>2, <1>3, <1>4
    <3> QED
      BY <3>2, <3>3
  <2> QED
    BY <2>0, <2>3, <2>5, <2>6, <1>4
<1>8. GroupsTile'
  <2>1. \A i \in Insts' :
          addrMap'[i] \in vertices' /\ addrMap'[i] <= i /\ i <= gend'[addrMap'[i]]
    BY <1>4, <1>6
  <2>2. \A v \in vertices' :
          /\ addrMap'[v] = v
          /\ \A i \in v .. gend'[v] : addrMap'[i] = v
          /\ next'[v] = IF gend'[v] = Size' THEN NULL ELSE gend'[v] + 1
          /\ prev'[v] = IF v = 1 THEN NULL ELSE addrMap'[v - 1]
    BY <1>7
  <2> QED
    BY <2>1, <2>2 DEF GroupsTile, NULL
<1>9. Frontier'
  <2>1. phase' \in {"levels", "undefined"} => pos' = 1
    BY <1>1, <1>2 DEF Frontier, InSweep
  <2>2. ASSUME NEW i \in Insts, pos + 1 < i
        PROVE  i \in vertices' /\ gend'[i] = i /\ addrMap'[i] = i
    BY <2>2, <1>1, <1>2, <1>3, <1>4 DEF Frontier
  <2>3. gend'[addrMap'[pos + 1]] = pos + 1
    BY <1>2, <1>3, <1>4
  <2> QED
    BY <2>1, <2>2, <2>3, <1>4 DEF Frontier
<1> QED
  BY <1>8, <1>9

----------------------------------------------------------------------------
(***************************************************************************)
(* Every step preserves the invariant.                                     *)
(***************************************************************************)
LEMMA InvNext == GroupingInv /\ [GroupingNext]_groupingVars => GroupingInv'
<1> SUFFICES ASSUME GroupingInv, [GroupingNext]_groupingVars
             PROVE  GroupingInv'
  OBVIOUS
<1>1. GraphTypeOK /\ GroupingTypeOK /\ GroupsTile /\ Frontier
  BY DEF GroupingInv, GroupingTypeOK
<1>2. IsProgram(prog)
  BY <1>1 DEF GraphTypeOK
<1>3. ASSUME UNCHANGED graphVars
      PROVE  GraphTypeOK' /\ Insts' = Insts /\ Functions' = Functions
  BY <1>1, <1>3 DEF graphVars, GraphTypeOK, IsProgram, Insts, Size, Functions
\* outside the sweep
<1>4. CASE StartFunction
  <2>1. UNCHANGED <<graphVars, phase, level, warned, pos, stackLevel>>
    BY <1>4 DEF StartFunction, sweepVars
  <2>2. PICK f \in pending :
          pending' = pending \ {f} /\ todo' = << <<f, 0>> >> /\ seen' = {f}
    BY <1>4 DEF StartFunction
  <2>3. f \in Insts
    BY <1>1, <1>2, ProgramFacts DEF GroupingTypeOK
  <2>4. todo' \in Seq(Insts \X Int)
    BY <2>2, <2>3
  <2>5. GroupingTypeOK'
    BY <2>1, <2>2, <2>3, <2>4, <1>1, <1>3 DEF GroupingTypeOK
  <2> QED
    BY <2>1, <2>5, <1>1, GraphKept DEF GroupingInv
<1>5. CASE VisitVertex
  <2> DEFINE v == Last(todo)[1]
             l == Last(todo)[2]
             S == Successors(v) \ seen
  <2>1. UNCHANGED <<graphVars, phase, pending, warned, pos, stackLevel>>
    BY <1>5 DEF VisitVertex, sweepVars
  <2>2. PICK order \in SetToSeqs(S) :
          todo' = Front(todo) \o [k \in DOMAIN order |-> <<order[k], LevelBehind(v, l)>>]
    BY <1>5 DEF VisitVertex
  <2>3. todo # <<>> /\ level' = [level EXCEPT ![v] = l] /\ seen' = seen \cup Successors(v)
    BY <1>5 DEF VisitVertex
  <2>4. Last(todo) \in Insts \X Int /\ Front(todo) \in Seq(Insts \X Int)
    BY <2>3, <1>1 DEF GroupingTypeOK, Last, Front
  <2>5. v \in Insts /\ l \in Int /\ LevelBehind(v, l) \in Int
    BY <2>4, <1>2, ProgramFacts DEF LevelBehind
  <2>6. S \in SUBSET Insts /\ IsFiniteSet(S) /\ Successors(v) \in SUBSET Insts
    <3>1. Successors(v) \in SUBSET Insts
      BY <1>1 DEF GraphTypeOK, Successors
    <3>2. IsFiniteSet(Insts)
      BY <1>2, ProgramFacts, FS_Interval
    <3> QED
      BY <3>1, <3>2, FS_Subset
  <2> HIDE DEF v, l, S
  <2>7. [k \in DOMAIN order |-> <<order[k], LevelBehind(v, l)>>] \in Seq(S \X {LevelBehind(v, l)})
    BY <2>6, PushedType
  <2>8. todo' \in Seq(Insts \X Int)
    <3>1. [k \in DOMAIN order |-> <<order[k], LevelBehind(v, l)>>] \in Seq(Insts \X Int)
      BY <2>5, <2>6, <2>7
    <3> QED
      BY <3>1, <2>2, <2>4
  <2>9. GroupingTypeOK'
    BY <2>1, <2>3, <2>5, <2>6, <2>8, <1>1, <1>3 DEF GroupingTypeOK
  <2> QED
    BY <2>1, <2>9, <1>1, GraphKept DEF GroupingInv
<1>6. CASE RevisitVertex
  <2>1. UNCHANGED <<graphVars, phase, level, pending, seen, pos, stackLevel>>
    BY <1>6 DEF RevisitVertex, sweepVars
  <2>2. Last(todo) \in Insts \X Int /\ todo' \in Seq(Insts \X Int)
    BY <1>6, <1>1 DEF RevisitVertex, GroupingTypeOK, Last, Front
  <2>3. warned' \in SUBSET Insts
    BY <1>6, <2>2, <1>1 DEF RevisitVertex, GroupingTypeOK
  <2>4. GroupingTypeOK'
    BY <2>1, <2>2, <2>3, <1>1, <1>3 DEF GroupingTypeOK
  <2> QED
    BY <2>1, <2>4, <1>1, GraphKept DEF GroupingInv
<1>7. CASE LevelsAssigned \/ SweepDone
  <2>1. UNCHANGED <<graphVars, level, pending, todo, seen, warned, pos, stackLevel>>
    BY <1>7 DEF LevelsAssigned, SweepDone, sweepVars, levelVars
  <2>2. phase' \in {"groups", "grouped"}
    BY <1>7 DEF LevelsAssigned, SweepDone
  <2>3. GroupingTypeOK'
    BY <2>1, <2>2, <1>1, <1>3 DEF GroupingTypeOK
  <2> QED
    BY <2>1, <2>2, <2>3, <1>1, GraphKept DEF GroupingInv
\* the sweep
<1>8. CASE SkipUnreachable
  <2>1. /\ InSweep /\ pos' = pos + 1 /\ stackLevel' = level[Nxt]
        /\ UNCHANGED <<graphVars, phase, level, pending, todo, seen, warned>>
    BY <1>8 DEF SkipUnreachable, levelVars
  <2>2. stackLevel' \in Int /\ pos' \in Insts
    BY <2>1, <1>1, SweepFacts DEF GroupingTypeOK, GraphTypeOK
  <2>3. GroupingTypeOK'
    BY <2>1, <2>2, <1>1, <1>3 DEF GroupingTypeOK
  <2> QED
    BY <2>1, <2>3, SweepOn DEF GroupingInv
<1>9. CASE EndGroup \/ EndStatement
  <2>1. /\ InSweep /\ UpdateLevels /\ pos' = pos + 1
        /\ UNCHANGED <<graphVars, phase, pending, todo, seen, warned>>
        /\ stackLevel' = level'[Nxt] \/ stackLevel' = LevelAfter
    BY <1>9 DEF EndGroup, EndStatement
  <2>2. stackLevel' \in Int /\ pos' \in Insts /\ level' \in [Insts -> Int]
    BY <2>1, <1>1, SweepFacts, UpdateLevelsType DEF GraphTypeOK
  <2>3. GroupingTypeOK'
    BY <2>1, <2>2, <1>1, <1>3 DEF GroupingTypeOK
  <2> QED
    BY <2>1, <2>3, SweepOn DEF GroupingInv
<1>10. CASE MergeNext
  <2>1. /\ InSweep /\ UpdateLevels /\ Merge(Cur, Nxt) /\ pos' = pos + 1
        /\ UNCHANGED <<phase, pending, todo, seen, warned>>
        /\ stackLevel' = LevelAfter
    BY <1>10 DEF MergeNext
  <2>2. stackLevel' \in Int /\ pos' \in Insts /\ level' \in [Insts -> Int]
    BY <2>1, SweepFacts, UpdateLevelsType
  <2>3. prog' = prog /\ Insts' = Insts /\ Functions' = Functions
    BY <2>1, MergeChanges DEF Functions
  <2>4. GroupingTypeOK'
    BY <2>1, <2>2, <2>3, <1>1, MergeType DEF GroupingTypeOK
  <2> QED
    BY <2>1, <2>4, MergeTile DEF GroupingInv
<1>11. CASE UNCHANGED groupingVars
  <2>1. UNCHANGED <<graphVars, phase, level, pending, todo, seen, warned, pos, stackLevel>>
    BY <1>11 DEF groupingVars, levelVars, sweepVars
  <2>2. GroupingTypeOK'
    BY <2>1, <1>1, <1>3 DEF GroupingTypeOK
  <2> QED
    BY <2>1, <2>2, <1>1, GraphKept DEF GroupingInv
<1> QED
  BY <1>4, <1>5, <1>6, <1>7, <1>8, <1>9, <1>10, <1>11 DEF GroupingNext

LEMMA ProgKept == [GroupingNext]_groupingVars => prog' = prog
  BY DEF GroupingNext, StartFunction, VisitVertex, RevisitVertex, LevelsAssigned,
    SkipUnreachable, EndGroup, EndStatement, MergeNext, Merge, SweepDone,
    groupingVars, graphVars

THEOREM GroupingInvariant == GroupingSpec => []GroupingInv
  BY InvInit, InvNext, PTL DEF GroupingSpec

(***************************************************************************)
(* Type correctness of setStackLevel and createGroups, and in particular   *)
(* that no edge of the graph ever has a removed vertex at an end.          *)
(***************************************************************************)
THEOREM GroupingTypeCorrect == GroupingSpec => []GroupingTypeOK
<1>1. GroupingInv => GroupingTypeOK
  BY DEF GroupingInv
<1> QED
  BY <1>1, GroupingInvariant, PTL

(***************************************************************************)
(* At every point of the sweep the groups tile the program, and _addrMap,  *)
(* _start, _end, _prev and _next agree on where each of them lies.         *)
(***************************************************************************)
THEOREM GroupsAlwaysTile == GroupingSpec => []GroupsTile
<1>1. GroupingInv => GroupsTile
  BY DEF GroupingInv
<1> QED
  BY <1>1, GroupingInvariant, PTL

----------------------------------------------------------------------------
(***************************************************************************)
(* Grouping keeps the control flow of every program whose functions do not *)
(* fall through into each other, and implements BasicBlocks.               *)
(***************************************************************************)
(***************************************************************************)
(* Where the sweep may merge, control runs from pos to the next            *)
(* instruction and nowhere else, and the next one is reached from nowhere  *)
(* else.                                                                   *)
(***************************************************************************)
\* What FlowPreserved says of the graph; a function that starts behind pos and
\* may be merged is all that can spoil it.
FlowKept ==
  /\ edges = {<<addrMap[e[1]], e[2]>> :
                e \in {f \in FlowEdges : f[1] = gend[addrMap[f[1]]]}}
  /\ \A e \in FlowEdges :
       e[1] # gend[addrMap[e[1]]] => e[2] = e[1] + 1

LEMMA NoEntryAhead ==
  ASSUME GroupingInv, FunctionsSeparate, InSweep, ~GroupEnds
  PROVE  pos + 1 \notin Functions
<1>1. pos \in Insts /\ pos + 1 \in Insts /\ Insts = 1 .. Size /\ Size \in Nat
  BY SweepFacts
<1>2. pos + 1 \in Functions => IsUncondJump(pos) \/ IsReturn(pos)
  BY <1>1 DEF FunctionsSeparate
<1> QED
  BY <1>2 DEF GroupEnds, IsJump

LEMMA OnlyEdge ==
  ASSUME GroupingInv, FlowKept, pos + 1 \notin Functions, InSweep, ~GroupEnds
  PROVE  /\ <<pos, pos + 1>> \in FlowEdges
         /\ \A e \in FlowEdges : e[1] = pos => e = <<pos, pos + 1>>
         /\ \A e \in FlowEdges : e[2] = pos + 1 => e = <<pos, pos + 1>>
<1>1. /\ Size \in Nat /\ Insts = 1 .. Size /\ pos \in Insts /\ pos + 1 \in Insts
      /\ Cur \in vertices /\ gend[Cur] = pos /\ Nxt = pos + 1
  BY SweepFacts
<1>2. ~IsJump(pos) /\ ~IsReturn(pos) /\ Cardinality(Predecessors(pos + 1)) = 1
  BY <1>1 DEF GroupEnds
<1>3. GraphTypeOK /\ IsProgram(prog)
  BY DEF GroupingInv, GroupingTypeOK, GraphTypeOK
<1>4. FlowEdges \in SUBSET (Insts \X Insts)
  BY <1>3, FlowEdgesType
<1>5. <<pos, pos + 1>> \in FlowEdges
  <2>1. FallsThrough(pos)
    BY <1>1, <1>2 DEF FallsThrough, IsJump
  <2> QED
    BY <2>1, <1>1 DEF FlowEdges
<1>6. ASSUME NEW e \in FlowEdges, e[1] = pos
      PROVE  e = <<pos, pos + 1>>
  BY <1>2, <1>6 DEF FlowEdges
<1>7. /\ edges = {<<addrMap[e[1]], e[2]>> :
                    e \in {f \in FlowEdges : f[1] = gend[addrMap[f[1]]]}}
      /\ \A e \in FlowEdges : e[1] # gend[addrMap[e[1]]] => e[2] = e[1] + 1
  BY DEF FlowKept
<1>8. Predecessors(pos + 1) = {Cur}
  <2>1. Cur \in Predecessors(pos + 1)
    BY <1>1, <1>5, <1>7 DEF Predecessors, Cur
  <2>2. IsFiniteSet(Predecessors(pos + 1))
    <3>1. Predecessors(pos + 1) \in SUBSET Insts
      BY <1>3 DEF Predecessors, GraphTypeOK
    <3>2. IsFiniteSet(Insts)
      BY <1>1, FS_Interval
    <3> QED
      BY <3>1, <3>2, FS_Subset
  <2> QED
    BY <2>1, <2>2, <1>2, FS_Singleton
<1>9. ASSUME NEW e \in FlowEdges, e[2] = pos + 1
      PROVE  e = <<pos, pos + 1>>
  <2>1. e[1] \in Insts /\ e = <<e[1], e[2]>>
    BY <1>4
  <2>2. CASE e[1] = gend[addrMap[e[1]]]
    <3>1. <<addrMap[e[1]], pos + 1>> \in edges
      BY <2>2, <1>7, <1>9
    <3>2. addrMap[e[1]] \in Predecessors(pos + 1)
      BY <3>1, <1>3 DEF GraphTypeOK, Predecessors
    <3> QED
      BY <3>2, <2>1, <2>2, <1>1, <1>8, <1>9
  <2>3. CASE e[1] # gend[addrMap[e[1]]]
    <3>1. e[1] + 1 = pos + 1
      BY <2>3, <1>7, <1>9
    <3> QED
      BY <3>1, <2>1, <1>1, <1>9
  <2> QED
    BY <2>2, <2>3
<1> QED
  BY <1>5, <1>6, <1>9

----------------------------------------------------------------------------
LEMMA FlowInit == GroupingInit => FlowPreserved /\ FlowKept
<1> SUFFICES ASSUME GroupingInit PROVE FlowPreserved /\ FlowKept
  OBVIOUS
<1>1. IsProgram(prog)
  BY ProgramsAssumption DEF GroupingInit, GraphInit
<1>2. FlowEdges \in SUBSET (Insts \X Insts)
  BY <1>1, FlowEdgesType
<1>3. edges = FlowEdges /\ \A i \in Insts : addrMap[i] = i /\ gend[i] = i
  BY DEF GroupingInit, GraphInit
<1>4. \A e \in FlowEdges : e[1] = gend[addrMap[e[1]]] /\ e = <<addrMap[e[1]], e[2]>>
  BY <1>2, <1>3
<1> QED
  BY <1>3, <1>4 DEF FlowPreserved, FlowKept

\* What FlowPreserved says of the graph before and after a merge that takes in
\* no start of a function.
LEMMA MergeFlow ==
  ASSUME GroupingInv, FlowKept, pos + 1 \notin Functions,
         InSweep, ~GroupEnds, Merge(Cur, Nxt)
  PROVE  FlowKept'
<1> DEFINE n == pos + 1
<1>1. /\ Size \in Nat /\ Insts = 1 .. Size /\ pos \in Insts /\ n \in Insts /\ n # pos
      /\ Cur \in vertices /\ Cur \in Insts /\ Cur <= pos /\ gend[Cur] = pos
      /\ Nxt = n /\ n \in vertices /\ gend[n] = n /\ addrMap[n] = n /\ addrMap[pos] = Cur
  BY SweepFacts DEF Nxt, Cur
<1>2. GraphTypeOK /\ GroupsTile /\ IsProgram(prog)
  BY DEF GroupingInv, GroupingTypeOK, GraphTypeOK
<1>3. FlowEdges \in SUBSET (Insts \X Insts)
  BY <1>2, FlowEdgesType
<1>4. /\ <<pos, n>> \in FlowEdges
      /\ \A e \in FlowEdges : e[1] = pos => e = <<pos, n>>
      /\ \A e \in FlowEdges : e[2] = n => e = <<pos, n>>
  BY OnlyEdge
<1>5. /\ edges = {<<addrMap[e[1]], e[2]>> :
                    e \in {f \in FlowEdges : f[1] = gend[addrMap[f[1]]]}}
      /\ \A e \in FlowEdges : e[1] # gend[addrMap[e[1]]] => e[2] = e[1] + 1
  BY DEF FlowKept
<1>6. prog' = prog /\ FlowEdges' = FlowEdges
  BY MergeChanges DEF FlowEdges, FallsThrough, IsJump, IsCondJump, IsUncondJump,
    IsReturn, Functions, Dest, Insts, Size
<1>7. /\ addrMap' = [addrMap EXCEPT ![n] = Cur]
      /\ gend' = [gend EXCEPT ![Cur] = n]
      /\ edges' = {e \in edges \cup {<<Cur, w>> : w \in Successors(n)} :
                     e[1] # n /\ e[2] # n}
  BY MergeChanges
<1>8. /\ addrMap \in [Insts -> Insts] /\ gend \in [Insts -> Insts]
      /\ edges \in SUBSET (vertices \X vertices)
  BY <1>2 DEF GraphTypeOK
<1>9. \A i \in Insts : addrMap[i] = n => i = n
  BY <1>1, <1>2, <1>8 DEF GroupsTile
<1> HIDE DEF n
\* Last instructions of groups: pos is one before the merge, and not after it.
<1>10. ASSUME NEW i \in Insts
       PROVE  /\ i # n => addrMap'[i] = addrMap[i]
              /\ i = gend'[addrMap'[i]] <=> i = gend[addrMap[i]] /\ i # pos
  <2>1. CASE i = n
    BY <2>1, <1>1, <1>7, <1>8
  <2>2. CASE i # n /\ addrMap[i] = Cur
    BY <2>2, <1>1, <1>7, <1>8
  <2>3. CASE i # n /\ addrMap[i] # Cur
    BY <2>3, <1>1, <1>7, <1>8
  <2> QED
    BY <2>1, <2>2, <2>3
<1>11. ASSUME NEW x \in edges'
       PROVE  \E e \in FlowEdges : e[1] = gend'[addrMap'[e[1]]] /\ x = <<addrMap'[e[1]], e[2]>>
  <2>1. CASE x \in edges
    <3>1. PICK e \in FlowEdges : e[1] = gend[addrMap[e[1]]] /\ x = <<addrMap[e[1]], e[2]>>
      BY <2>1, <1>5
    <3>2. e[1] \in Insts /\ e[1] # n /\ e[1] # pos
      BY <3>1, <1>1, <1>3, <1>4, <1>7
    <3> QED
      BY <3>1, <3>2, <1>10
  <2>2. CASE x \notin edges
    <3>1. PICK w \in Successors(n) : x = <<Cur, w>>
      BY <2>2, <1>7
    <3>2. <<n, w>> \in edges
      BY DEF Successors
    <3>3. PICK e \in FlowEdges : e[1] = gend[addrMap[e[1]]] /\ <<n, w>> = <<addrMap[e[1]], e[2]>>
      BY <3>2, <1>5
    <3>4. e[1] = n /\ e[2] = w
      BY <3>3, <1>3, <1>9
    <3>5. e[1] = gend'[addrMap'[e[1]]] /\ addrMap'[n] = Cur
      BY <3>3, <3>4, <1>1, <1>7, <1>8, <1>10
    <3> QED
      BY <3>1, <3>4, <3>5
  <2> QED
    BY <2>1, <2>2
<1>12. ASSUME NEW e \in FlowEdges, e[1] = gend'[addrMap'[e[1]]]
       PROVE  <<addrMap'[e[1]], e[2]>> \in edges'
  <2>1. e[1] \in Insts /\ e[1] # pos /\ e[2] # n /\ e[1] = gend[addrMap[e[1]]]
    BY <1>1, <1>3, <1>4, <1>10, <1>12
  <2>2. <<addrMap[e[1]], e[2]>> \in edges
    BY <2>1, <1>5
  <2>3. CASE e[1] = n
    <3>1. e[2] \in Successors(n) /\ addrMap'[n] = Cur
      BY <2>2, <2>3, <1>1, <1>7, <1>8 DEF Successors
    <3> QED
      BY <3>1, <2>1, <2>3, <1>1, <1>7
  <2>4. CASE e[1] # n
    BY <2>1, <2>2, <2>4, <1>7, <1>9, <1>10
  <2> QED
    BY <2>3, <2>4
<1>13. edges' = {<<addrMap'[e[1]], e[2]>> :
                   e \in {f \in FlowEdges : f[1] = gend'[addrMap'[f[1]]]}}
  BY <1>11, <1>12
<1>14. ASSUME NEW e \in FlowEdges, e[1] # gend'[addrMap'[e[1]]]
       PROVE  e[2] = e[1] + 1
  <2>1. CASE e[1] = pos
    BY <2>1, <1>4 DEF n
  <2>2. CASE e[1] # pos
    BY <2>2, <1>3, <1>5, <1>10, <1>14
  <2> QED
    BY <2>1, <2>2
<1> QED
  BY <1>6, <1>13, <1>14 DEF FlowKept

\* A step merges, or leaves the graph alone.
LEMMA MergeOrNot ==
  ASSUME [GroupingNext]_groupingVars
  PROVE  \/ UNCHANGED graphVars
         \/ InSweep /\ ~GroupEnds /\ Merge(Cur, Nxt)
  BY DEF GroupingNext, StartFunction, VisitVertex, RevisitVertex, LevelsAssigned,
    SkipUnreachable, EndGroup, EndStatement, MergeNext, SweepDone, groupingVars

LEMMA SeparateKept ==
  ASSUME prog' = prog
  PROVE  FunctionsSeparate' <=> FunctionsSeparate
  BY DEF FunctionsSeparate, Functions, IsUncondJump, IsReturn

LEMMA FlowEdgesKept ==
  ASSUME prog' = prog
  PROVE  FlowEdges' = FlowEdges
  BY DEF FlowEdges, FallsThrough, IsJump, IsCondJump, IsUncondJump, IsReturn,
    Functions, Dest, Insts, Size

LEMMA FlowNext ==
  GroupingInv /\ FlowPreserved /\ [GroupingNext]_groupingVars => FlowPreserved'
<1> SUFFICES ASSUME GroupingInv, FlowPreserved, [GroupingNext]_groupingVars
             PROVE  FlowPreserved'
  OBVIOUS
<1>1. CASE UNCHANGED graphVars
  <2>1. prog' = prog /\ edges' = edges /\ addrMap' = addrMap /\ gend' = gend
    BY <1>1 DEF graphVars
  <2> QED
    BY <2>1, SeparateKept, FlowEdgesKept DEF FlowPreserved
<1>2. CASE InSweep /\ ~GroupEnds /\ Merge(Cur, Nxt)
  <2>1. CASE FunctionsSeparate
    BY <1>2, <2>1, NoEntryAhead, MergeFlow DEF FlowPreserved, FlowKept
  <2>2. CASE ~FunctionsSeparate
    <3>1. ~FunctionsSeparate'
      BY <1>2, <2>2, SeparateKept DEF Merge
    <3> QED
      BY <3>1 DEF FlowPreserved
  <2> QED
    BY <2>1, <2>2
<1> QED
  BY <1>1, <1>2, MergeOrNot

\* The same as long as no function has lost its vertex, whatever runs into it.
EntriesFlow == Functions \subseteq vertices => FlowKept

LEMMA EntriesFlowNext ==
  GroupingInv /\ EntriesFlow /\ [GroupingNext]_groupingVars => EntriesFlow'
<1> SUFFICES ASSUME GroupingInv, EntriesFlow, [GroupingNext]_groupingVars,
                    (Functions \subseteq vertices)'
             PROVE  FlowKept'
  BY DEF EntriesFlow
<1>1. prog' = prog /\ Functions' = Functions
  BY ProgKept DEF Functions
<1>2. CASE UNCHANGED graphVars
  <2>1. edges' = edges /\ addrMap' = addrMap /\ gend' = gend /\ vertices' = vertices
    BY <1>2 DEF graphVars
  <2> QED
    BY <2>1, <1>1, FlowEdgesKept DEF EntriesFlow, FlowKept
<1>3. CASE InSweep /\ ~GroupEnds /\ Merge(Cur, Nxt)
  <2>1. vertices' = vertices \ {pos + 1}
    BY <1>3, MergeChanges
  <2>2. pos + 1 \notin Functions /\ Functions \subseteq vertices
    BY <2>1, <1>1
  <2> QED
    BY <2>2, <1>3, MergeFlow DEF EntriesFlow
<1> QED
  BY <1>2, <1>3, MergeOrNot

(***************************************************************************)
(* At every point of the sweep the graph of groups has exactly the edges   *)
(* of the instruction graph that leave the ends of groups (merge), in      *)
(* every program whose functions are separate.                             *)
(***************************************************************************)
THEOREM GroupingPreservesFlow == GroupingSpec => []FlowPreserved
<1>1. GroupingInit => FlowPreserved
  BY FlowInit
<1>2. GroupingInv /\ FlowPreserved /\ [GroupingNext]_groupingVars => FlowPreserved'
  BY FlowNext
<1> QED
  BY <1>1, <1>2, GroupingInvariant, PTL DEF GroupingSpec

(***************************************************************************)
(* The vertex a function starts with stays in the graph: the constructor   *)
(* stores it in Function::_v and nobody updates it when createGroups       *)
(* merges vertices.  It stays because what precedes it never runs on, so   *)
(* that its group has ended before it.                                     *)
(***************************************************************************)
THEOREM EntriesStayAlive == GroupingSpec => []EntriesAlive
<1>1. GroupingInit => EntriesAlive
  <2> SUFFICES ASSUME GroupingInit PROVE Functions \subseteq vertices
    BY DEF EntriesAlive
  <2>1. IsProgram(prog) /\ vertices = Insts
    BY ProgramsAssumption DEF GroupingInit, GraphInit
  <2> QED
    BY <2>1, ProgramFacts
<1>2. GroupingInv /\ EntriesAlive /\ [GroupingNext]_groupingVars => EntriesAlive'
  <2> SUFFICES ASSUME GroupingInv, EntriesAlive, [GroupingNext]_groupingVars,
                      FunctionsSeparate'
               PROVE  (Functions \subseteq vertices)'
    BY DEF EntriesAlive
  <2>1. CASE UNCHANGED graphVars
    BY <2>1, SeparateKept DEF graphVars, EntriesAlive, Functions
  <2>2. CASE InSweep /\ ~GroupEnds /\ Merge(Cur, Nxt)
    <3>1. prog' = prog /\ vertices' = vertices \ {pos + 1}
      BY <2>2, MergeChanges
    <3>2. FunctionsSeparate /\ Functions' = Functions
      BY <3>1, SeparateKept DEF Functions
    <3>3. pos \in Nat /\ pos >= 1
      BY <2>2, SweepFacts
    <3>4. ~IsUncondJump(pos) /\ ~IsReturn(pos)
      BY <2>2 DEF GroupEnds, IsJump
    <3>5. pos + 1 \notin Functions
      BY <3>2, <3>3, <3>4 DEF FunctionsSeparate
    <3> QED
      BY <3>1, <3>2, <3>5 DEF EntriesAlive
  <2> QED
    BY <2>1, <2>2, MergeOrNot
<1> QED
  BY <1>1, <1>2, GroupingInvariant, PTL DEF GroupingSpec

----------------------------------------------------------------------------
(***************************************************************************)
(* Refinement.                                                             *)
(***************************************************************************)
LEMMA MaxMinInterval ==
  ASSUME NEW a \in Int, NEW b \in Int, a <= b
  PROVE  BB!Max(a .. b) = b /\ BB!Min(a .. b) = a
<1>1. \A x \in a .. b : (\A y \in a .. b : x >= y) <=> x = b
  OBVIOUS
<1>2. \A x \in a .. b : (\A y \in a .. b : x <= y) <=> x = a
  OBVIOUS
<1>3. a \in a .. b /\ b \in a .. b
  OBVIOUS
<1>4. BB!Max(a .. b) = b
  BY <1>1, <1>3 DEF BB!Max
<1>5. BB!Min(a .. b) = a
  BY <1>2, <1>3 DEF BB!Min
<1> QED
  BY <1>4, <1>5
LEMMA BlocksInit == GroupingInit => BB!Init
<1> SUFFICES ASSUME GroupingInit PROVE BB!Init
  OBVIOUS
<1>1. FlowEdges \in SUBSET (Insts \X Insts) /\ Insts \in SUBSET Int
  BY ProgramsAssumption, ProgramFacts, FlowEdgesType DEF GroupingInit, GraphInit
<1>2. vertices = Insts /\ \A v \in Insts : gend[v] = v
  BY DEF GroupingInit, GraphInit
<1>3. \A v \in Insts : v .. gend[v] = {v}
  BY <1>1, <1>2
<1> QED
  BY <1>1, <1>2, <1>3 DEF BB!Init, Blocks

\* A merge joins the block that ends at pos with that of the next instruction.
LEMMA MergeJoins ==
  ASSUME GroupingInv, FlowPreserved, FunctionsSeparate,
         InSweep, ~GroupEnds, Merge(Cur, Nxt)
  PROVE  BB!Next
<1> DEFINE n == pos + 1
           b == Cur .. pos
           c == n .. n
<1>1. /\ Size \in Nat /\ Insts = 1 .. Size
      /\ pos \in Int /\ n \in Int /\ n = pos + 1 /\ Cur \in Int
      /\ Cur \in vertices /\ Cur <= pos /\ gend[Cur] = pos
      /\ n \in vertices /\ gend[n] = n
  BY SweepFacts DEF Nxt
<1>2. /\ <<pos, n>> \in FlowEdges
      /\ \A e \in FlowEdges : e[1] = pos => e = <<pos, n>>
      /\ \A e \in FlowEdges : e[2] = n => e = <<pos, n>>
  BY NoEntryAhead, OnlyEdge DEF FlowPreserved, FlowKept
<1>3. vertices' = vertices \ {n} /\ gend' = [gend EXCEPT ![Cur] = n]
  BY MergeChanges
<1>4. Insts' = Insts /\ FlowEdges' = FlowEdges
  BY MergeChanges, FlowEdgesKept
<1> HIDE DEF n
<1>5. BB!Max(b) = pos /\ BB!Min(b) = Cur
  BY <1>1, MaxMinInterval
<1>6. BB!Max(c) = n /\ BB!Min(c) = n
  <2>1. n \in Int /\ n <= n
    BY <1>1
  <2>2. BB!Max(n .. n) = n /\ BB!Min(n .. n) = n
    BY <2>1, MaxMinInterval
  <2> QED
    BY <2>2
<1>7. BB!Joinable(b, c)
  <2> HIDE DEF b, c
  <2>1. BB!Exits(b) = {<<pos, n>>}
    BY <1>2, <1>5 DEF BB!Exits
  <2>2. BB!Entries(c) = {<<pos, n>>}
    BY <1>2, <1>6 DEF BB!Entries
  <2> QED
    BY <2>1, <2>2, <1>1, <1>5, <1>6 DEF BB!Joinable
<1>8. /\ vertices \in SUBSET Insts /\ gend \in [Insts -> Insts]
      /\ \A v \in vertices : v <= gend[v]
      /\ \A v, w \in vertices : v .. gend[v] = w .. gend[w] => v = w
  <2>1. GraphTypeOK /\ GroupsTile
    BY DEF GroupingInv, GroupingTypeOK
  <2>2. \A v \in vertices : v \in Insts /\ v <= gend[v]
    BY <2>1 DEF GraphTypeOK, GroupsTile
  <2>3. \A v, w \in vertices : v .. gend[v] = w .. gend[w] => v = w
    BY <2>1, <2>2, <1>1 DEF GraphTypeOK, GroupsTile
  <2> QED
    BY <2>1, <2>2, <2>3 DEF GraphTypeOK
<1>9. Blocks' = (Blocks \ {b, c}) \cup {b \cup c}
  <2>1. b = Cur .. gend[Cur] /\ c = n .. gend[n] /\ b \cup c = Cur .. n
    BY <1>1
  <2>2. Cur # n
    BY <1>1
  <2>3. ASSUME NEW x \in Blocks'
        PROVE  x \in (Blocks \ {b, c}) \cup {b \cup c}
    <3>1. PICK v \in vertices \ {n} : x = v .. gend'[v]
      BY <1>3 DEF Blocks
    <3>2. CASE v = Cur
      BY <3>1, <3>2, <2>1, <1>1, <1>3, <1>8
    <3>3. CASE v # Cur
      <4>1. x = v .. gend[v] /\ v \in vertices /\ v # n
        BY <3>1, <3>3, <1>3, <1>8
      <4>2. x \in Blocks
        BY <4>1 DEF Blocks
      <4>3. x # b /\ x # c
        BY <4>1, <3>3, <2>1, <1>1, <1>8
      <4> QED
        BY <4>2, <4>3
    <3> QED
      BY <3>2, <3>3
  <2>4. ASSUME NEW x \in (Blocks \ {b, c}) \cup {b \cup c}
        PROVE  x \in Blocks'
    <3>1. CASE x = b \cup c
      BY <3>1, <2>1, <2>2, <1>1, <1>3, <1>8 DEF Blocks
    <3>2. CASE x # b \cup c
      <4>1. PICK v \in vertices : x = v .. gend[v]
        BY <3>2 DEF Blocks
      <4>2. v # Cur /\ v # n
        BY <4>1, <3>2, <2>1
      <4> QED
        BY <4>1, <4>2, <1>3, <1>8 DEF Blocks
    <3> QED
      BY <3>1, <3>2
  <2> QED
    BY <2>3, <2>4
<1>10. b \in Blocks /\ c \in Blocks
  BY <1>1 DEF Blocks
<1> QED
  BY <1>4, <1>7, <1>9, <1>10 DEF BB!Next, BB!Join

LEMMA BlocksNext ==
  GroupingInv /\ FlowPreserved /\ FunctionsSeparate /\ [GroupingNext]_groupingVars
    => [BB!Next]_<<Insts, FlowEdges, Blocks>>
<1> SUFFICES ASSUME GroupingInv, FlowPreserved, FunctionsSeparate,
                    [GroupingNext]_groupingVars
             PROVE  [BB!Next]_<<Insts, FlowEdges, Blocks>>
  OBVIOUS
<1>1. CASE UNCHANGED graphVars
  BY <1>1, FlowEdgesKept DEF graphVars, Insts, Size, Blocks
<1>2. CASE InSweep /\ ~GroupEnds /\ Merge(Cur, Nxt)
  BY <1>2, MergeJoins
<1> QED
  BY <1>1, <1>2, MergeOrNot

(***************************************************************************)
(* Grouping implements BasicBlocks: whatever the stack levels are, all it  *)
(* ever does to a program with separate functions is to join a block with  *)
(* the one that must follow it and that nothing else reaches.              *)
(***************************************************************************)
THEOREM GroupingFormsBasicBlocks ==
  GroupingSpec /\ []FunctionsSeparate => FormsBasicBlocks
<1>1. GroupingInit => BB!Init
  BY BlocksInit
<1>2. GroupingInv /\ FlowPreserved /\ FunctionsSeparate /\ [GroupingNext]_groupingVars
        => [BB!Next]_<<Insts, FlowEdges, Blocks>>
  BY BlocksNext
<1> QED
  BY <1>1, <1>2, GroupingInvariant, GroupingPreservesFlow, PTL
    DEF GroupingSpec, FormsBasicBlocks, BB!Spec

----------------------------------------------------------------------------
(***************************************************************************)
(* Paths.  PathLevels is defined by recursion on the length of the paths;  *)
(* it is closed under the edges where no more than Size pairs exist.       *)
(***************************************************************************)
Pairs == Insts \X Int

LEMMA ExtendedPairs ==
  ASSUME IsProgram(prog), NEW paths \in SUBSET Pairs
  PROVE  /\ Extended(paths) \in SUBSET Pairs
         /\ paths \subseteq Extended(paths)
         /\ \A q \in Extended(paths) :
              \/ q \in paths
              \/ \E e \in FlowEdges, l \in Int :
                   <<e[1], l>> \in paths /\ q = <<e[2], l + Change(e[1])>>
         /\ \A e \in FlowEdges, l \in Int :
              <<e[1], l>> \in paths => <<e[2], l + Change(e[1])>> \in Extended(paths)
<1> DEFINE Step(ep) == <<ep[1][2], ep[2][2] + Change(ep[1][1])>>
           EP == {x \in FlowEdges \X paths : x[1][1] = x[2][1]}
<1>1. Extended(paths) = paths \cup {Step(ep) : ep \in EP}
  BY DEF Extended
<1>2. \A e \in FlowEdges : e[1] \in Insts /\ e[2] \in Insts /\ Change(e[1]) \in Int
  BY FlowEdgesType, ProgramFacts
<1>3. \A p \in paths : p \in Pairs /\ p[1] \in Insts /\ p[2] \in Int /\ p = <<p[1], p[2]>>
  BY DEF Pairs
<1>4. ASSUME NEW ep \in EP
      PROVE  \E e \in FlowEdges, l \in Int :
               <<e[1], l>> \in paths /\ Step(ep) = <<e[2], l + Change(e[1])>>
  <2>1. ep[1] \in FlowEdges /\ ep[2] \in paths /\ ep[1][1] = ep[2][1]
    OBVIOUS
  <2>2. ep[2][2] \in Int /\ <<ep[1][1], ep[2][2]>> \in paths
    BY <2>1, <1>3
  <2> QED
    BY <2>1, <2>2
<1>5. ASSUME NEW e \in FlowEdges, NEW l \in Int, <<e[1], l>> \in paths
      PROVE  <<e[2], l + Change(e[1])>> \in {Step(ep) : ep \in EP}
  <2>1. <<e, <<e[1], l>>>> \in EP
    BY <1>5
  <2>2. Step(<<e, <<e[1], l>>>>) = <<e[2], l + Change(e[1])>>
    OBVIOUS
  <2> QED
    BY <2>1, <2>2
<1> HIDE DEF Step, EP
<1>6. \A q \in {Step(ep) : ep \in EP} :
        \E e \in FlowEdges, l \in Int :
          <<e[1], l>> \in paths /\ q = <<e[2], l + Change(e[1])>>
  BY <1>4
<1>7. ASSUME NEW q \in {Step(ep) : ep \in EP}
      PROVE  q \in Pairs
  <2>1. PICK e \in FlowEdges, l \in Int : q = <<e[2], l + Change(e[1])>>
    BY <1>6
  <2>2. e[2] \in Insts /\ l + Change(e[1]) \in Int
    BY <1>2
  <2> QED
    BY <2>1, <2>2 DEF Pairs
<1> QED
  BY <1>1, <1>5, <1>6, <1>7

LEMMA PathsDefined ==
  ASSUME IsProgram(prog)
  PROVE  /\ PathsUpTo \in [0 .. Size -> SUBSET Pairs]
         /\ PathsUpTo[0] = Functions \X {0}
         /\ \A k \in 1 .. Size : PathsUpTo[k] = Extended(PathsUpTo[k - 1])
<1> DEFINE S == SUBSET Pairs
           a == Functions \X {0}
           G == [k \in 1 .. Size |-> [p \in S |-> Extended(p)]]
           Eqn(f) == f = [k \in 0 .. Size |-> IF k = 0 THEN a ELSE Extended(f[k - 1])]
<1>1. Size \in Nat /\ a \in S
  BY ProgramFacts DEF Pairs
<1>2. G \in [1 .. Size -> [S -> S]]
  <2>1. \A p \in S : Extended(p) \in S
    BY ExtendedPairs
  <2> QED
    BY <2>1
<1>3. PICK f \in [0 .. Size -> S] : f[0] = a /\ \A k \in 1 .. Size : f[k] = G[k][f[k - 1]]
  <2> HIDE DEF S, a, G
  <2> QED
    BY <1>1, <1>2, RecursionExists
<1>4. \A k \in 1 .. Size : f[k] = Extended(f[k - 1])
  <2>1. \A k \in 1 .. Size : f[k - 1] \in S
    BY <1>1, <1>3
  <2> QED
    BY <1>3, <2>1
<1>5. Eqn(f)
  <2>1. \A k \in 0 .. Size : f[k] = IF k = 0 THEN a ELSE Extended(f[k - 1])
    BY <1>1, <1>3, <1>4
  <2> HIDE DEF S, a
  <2> QED
    BY <1>3, <2>1
<1>6. Eqn(PathsUpTo)
  <2>1. PathsUpTo = CHOOSE g : Eqn(g)
    BY DEF PathsUpTo
  <2> HIDE DEF Eqn
  <2> QED
    BY <1>5, <2>1
<1>7. \A k \in 0 .. Size :
        PathsUpTo[k] = IF k = 0 THEN a ELSE Extended(PathsUpTo[k - 1])
  BY <1>6
<1>8. \A k \in 0 .. Size : PathsUpTo[k] \in S
  <2> DEFINE T == {n \in Nat : n <= Size => PathsUpTo[n] \in S}
  <2>1. 0 \in T
    BY <1>1, <1>7
  <2>2. ASSUME NEW n \in T
        PROVE  n + 1 \in T
    <3> SUFFICES ASSUME n + 1 <= Size PROVE PathsUpTo[n + 1] \in S
      OBVIOUS
    <3>1. n \in Nat /\ n + 1 \in 0 .. Size /\ n + 1 # 0 /\ (n + 1) - 1 = n
      BY <1>1
    <3>2. PathsUpTo[n] \in S
      BY <1>1, <3>1
    <3>3. PathsUpTo[n + 1] = Extended(PathsUpTo[n])
      BY <1>7, <3>1
    <3> QED
      BY <3>2, <3>3, ExtendedPairs
  <2>3. T = Nat
    <3>1. T \subseteq Nat
      OBVIOUS
    <3> HIDE DEF T
    <3> QED
      BY <2>1, <2>2, <3>1, InductionOnNat
  <2> QED
    BY <2>3, <1>1
<1>9. PathsUpTo \in [0 .. Size -> S]
  <2> HIDE DEF S, a
  <2>1. PathsUpTo = [k \in 0 .. Size |-> PathsUpTo[k]]
    BY <1>6
  <2> QED
    BY <1>8, <2>1
<1>10. 0 \in 0 .. Size /\ \A k \in 1 .. Size : k \in 0 .. Size /\ k # 0
  BY <1>1
<1> QED
  BY <1>7, <1>9, <1>10

LEMMA PathsMonotone ==
  ASSUME IsProgram(prog), NEW m \in 0 .. Size
  PROVE  \A k \in 0 .. m : PathsUpTo[k] \subseteq PathsUpTo[m]
<1> DEFINE T == {n \in Nat : n <= m => PathsUpTo[m - n] \subseteq PathsUpTo[m]}
<1>1. Size \in Nat /\ m \in Nat /\ m <= Size
  BY ProgramFacts
<1>2. 0 \in T
  BY <1>1
<1>3. ASSUME NEW n \in T
      PROVE  n + 1 \in T
  <2> SUFFICES ASSUME n + 1 <= m
               PROVE  PathsUpTo[m - (n + 1)] \subseteq PathsUpTo[m]
    OBVIOUS
  <2> DEFINE k == m - n
  <2>1. n \in Nat /\ k \in 1 .. Size /\ m - (n + 1) = k - 1 /\ k - 1 \in 0 .. Size
    BY <1>1
  <2>2. PathsUpTo[k] \subseteq PathsUpTo[m]
    BY <1>1, <2>1
  <2> HIDE DEF k
  <2>3. PathsUpTo[k] = Extended(PathsUpTo[k - 1]) /\ PathsUpTo[k - 1] \in SUBSET Pairs
    BY <2>1, PathsDefined
  <2>4. PathsUpTo[k - 1] \subseteq PathsUpTo[k]
    BY <2>3, ExtendedPairs
  <2> QED
    BY <2>1, <2>2, <2>4
<1>4. T = Nat
  <2>1. T \subseteq Nat
    OBVIOUS
  <2> HIDE DEF T
  <2> QED
    BY <1>2, <1>3, <2>1, InductionOnNat
<1> QED
  <2> SUFFICES ASSUME NEW k \in 0 .. m
               PROVE  PathsUpTo[k] \subseteq PathsUpTo[m]
    OBVIOUS
  <2>1. m - k \in Nat /\ m - k <= m /\ m - (m - k) = k
    BY <1>1
  <2>2. m - k \in T
    <3> HIDE DEF T
    <3> QED
      BY <2>1, <1>4
  <2> QED
    BY <2>1, <2>2

LEMMA PathsGrow ==
  ASSUME IsProgram(prog)
  PROVE  \A k \in 0 .. Size : PathsUpTo[k] \subseteq PathLevels
<1>1. Size \in 0 .. Size
  BY ProgramFacts
<1> QED
  BY <1>1, PathsMonotone DEF PathLevels

(***************************************************************************)
(* The instructions some path reaches.  Whatever the levels are, the set   *)
(* is closed under the edges of the instruction graph.                     *)
(***************************************************************************)
Reached == {p[1] : p \in PathLevels}

LEMMA ReachedClosed ==
  ASSUME IsProgram(prog)
  PROVE  /\ Functions \subseteq Reached
         /\ Reached \subseteq Insts
         /\ \A e \in FlowEdges : e[1] \in Reached => e[2] \in Reached
<1> DEFINE R == [k \in 0 .. Size |-> {p[1] : p \in PathsUpTo[k]}]
<1>1. Size \in Nat \ {0} /\ Insts = 1 .. Size /\ Functions \in SUBSET Insts /\ Functions # {}
  BY ProgramFacts DEF Functions
<1>2. \A k \in 0 .. Size : R[k] = {p[1] : p \in PathsUpTo[k]}
  OBVIOUS
<1>3. \A k \in 0 .. Size : PathsUpTo[k] \in SUBSET Pairs
  BY PathsDefined
<1>4. \A k \in 0 .. Size : R[k] \in SUBSET Insts
  BY <1>2, <1>3 DEF Pairs
<1>5. R[0] = Functions
  <2>1. PathsUpTo[0] = Functions \X {0} /\ 0 \in 0 .. Size
    BY <1>1, PathsDefined
  <2>2. \A f \in Functions : <<f, 0>> \in PathsUpTo[0]
    BY <2>1
  <2>3. \A f \in Functions : <<f, 0>>[1] = f
    OBVIOUS
  <2>4. Functions \subseteq R[0]
    BY <2>1, <2>2, <2>3, <1>2
  <2>5. R[0] \subseteq Functions
    BY <2>1, <1>2
  <2> QED
    BY <2>4, <2>5
<1>6. \A k \in 0 .. Size : \A i : i \in R[k] <=> \E l \in Int : <<i, l>> \in PathsUpTo[k]
  <2>1. \A k \in 0 .. Size : \A p \in PathsUpTo[k] : p = <<p[1], p[2]>> /\ p[2] \in Int
    BY <1>3 DEF Pairs
  <2>2. ASSUME NEW k \in 0 .. Size, NEW i \in R[k]
        PROVE  \E l \in Int : <<i, l>> \in PathsUpTo[k]
    <3>1. PICK p \in PathsUpTo[k] : i = p[1]
      BY <1>2
    <3>2. <<i, p[2]>> \in PathsUpTo[k] /\ p[2] \in Int
      BY <2>1, <3>1
    <3> QED
      BY <3>2
  <2>3. ASSUME NEW k \in 0 .. Size, NEW i, NEW l \in Int, <<i, l>> \in PathsUpTo[k]
        PROVE  i \in R[k]
    <3>1. <<i, l>>[1] = i
      OBVIOUS
    <3> QED
      BY <2>3, <3>1, <1>2
  <2> QED
    BY <2>2, <2>3
<1> HIDE DEF R
<1>7. ASSUME NEW k \in 1 .. Size
      PROVE  /\ R[k - 1] \subseteq R[k]
             /\ \A e \in FlowEdges : e[1] \in R[k - 1] => e[2] \in R[k]
             /\ \A i \in R[k] : i \in R[k - 1] \/ \E e \in FlowEdges : e[1] \in R[k - 1] /\ e[2] = i
  <2>1. k \in 0 .. Size /\ k - 1 \in 0 .. Size
    BY <1>1
  <2>2. PathsUpTo[k] = Extended(PathsUpTo[k - 1]) /\ PathsUpTo[k - 1] \in SUBSET Pairs
    BY <2>1, <1>3, PathsDefined
  <2>3. PathsUpTo[k - 1] \subseteq PathsUpTo[k]
    BY <2>2, ExtendedPairs
  <2>4. \A e \in FlowEdges, l \in Int :
          <<e[1], l>> \in PathsUpTo[k - 1] => <<e[2], l + Change(e[1])>> \in PathsUpTo[k]
    BY <2>2, ExtendedPairs
  <2>5. \A q \in PathsUpTo[k] :
          \/ q \in PathsUpTo[k - 1]
          \/ \E e \in FlowEdges, l \in Int :
               <<e[1], l>> \in PathsUpTo[k - 1] /\ q = <<e[2], l + Change(e[1])>>
    BY <2>2, ExtendedPairs
  <2>6. \A e \in FlowEdges : Change(e[1]) \in Int
    BY FlowEdgesType, ProgramFacts
  <2>7. R[k - 1] \subseteq R[k]
    BY <2>1, <2>3, <1>6
  <2>8. ASSUME NEW e \in FlowEdges, e[1] \in R[k - 1]
        PROVE  e[2] \in R[k]
    <3>1. PICK l \in Int : <<e[1], l>> \in PathsUpTo[k - 1]
      BY <2>1, <2>8, <1>6
    <3>2. <<e[2], l + Change(e[1])>> \in PathsUpTo[k] /\ l + Change(e[1]) \in Int
      BY <3>1, <2>4, <2>6
    <3> QED
      BY <3>2, <2>1, <1>6
  <2>9. ASSUME NEW i \in R[k], i \notin R[k - 1]
        PROVE  \E e \in FlowEdges : e[1] \in R[k - 1] /\ e[2] = i
    <3>1. PICK l \in Int : <<i, l>> \in PathsUpTo[k]
      BY <2>1, <1>6
    <3>2. <<i, l>> \notin PathsUpTo[k - 1]
      BY <2>1, <2>9, <1>6
    <3>3. PICK e \in FlowEdges, m \in Int :
            <<e[1], m>> \in PathsUpTo[k - 1] /\ <<i, l>> = <<e[2], m + Change(e[1])>>
      BY <3>1, <3>2, <2>5
    <3>4. e[1] \in R[k - 1] /\ e[2] = i
      BY <3>3, <2>1, <1>6
    <3> QED
      BY <3>4
  <2> QED
    BY <2>7, <2>8, <2>9
<1>8. ASSUME NEW k \in 1 .. Size - 1, R[k] = R[k - 1]
      PROVE  R[k + 1] = R[k]
  <2>1. k \in 1 .. Size /\ k + 1 \in 1 .. Size /\ (k + 1) - 1 = k
    BY <1>1
  <2>2. R[k] \subseteq R[k + 1]
    BY <2>1, <1>7
  <2>3. \A i \in R[k + 1] : i \in R[k] \/ \E e \in FlowEdges : e[1] \in R[k] /\ e[2] = i
    BY <2>1, <1>7
  <2>4. \A e \in FlowEdges : e[1] \in R[k - 1] => e[2] \in R[k]
    BY <2>1, <1>7
  <2> QED
    BY <2>2, <2>3, <2>4, <1>8
<1>9. R[Size] = R[Size - 1]
  <2>1. IsFiniteSet(Insts) /\ Cardinality(Insts) <= Size
    BY <1>1, FS_Interval
  <2>2. \A k \in 1 .. Size : R[k - 1] \subseteq R[k]
    BY <1>7
  <2> HIDE DEF Size, Insts
  <2> QED
    BY <2>1, <2>2, <1>1, <1>4, <1>5, <1>8, ChainCloses
<1>10. Reached = R[Size]
  BY <1>1, <1>2 DEF Reached, PathLevels
<1>11. Functions \subseteq R[Size]
  <2>1. PathsUpTo[0] \subseteq PathsUpTo[Size]
    BY <1>1, PathsGrow DEF PathLevels
  <2> QED
    BY <2>1, <1>1, <1>5, <1>6
<1>12. \A e \in FlowEdges : e[1] \in R[Size] => e[2] \in R[Size]
  BY <1>1, <1>7, <1>9
<1> QED
  BY <1>1, <1>4, <1>10, <1>11, <1>12

LEMMA PathsKept ==
  ASSUME prog' = prog
  PROVE  PathLevels' = PathLevels /\ Reached' = Reached
<1>1. FlowEdges' = FlowEdges /\ Functions' = Functions /\ Size' = Size
  BY FlowEdgesKept DEF Functions, Size
<1>2. \A i : Change(i)' = Change(i)
  BY DEF Change
<1>3. PathsUpTo' = PathsUpTo
  BY <1>1, <1>2 DEF PathsUpTo, Extended, Change
<1> QED
  BY <1>1, <1>3 DEF PathLevels, Reached

----------------------------------------------------------------------------
(***************************************************************************)
(* Unreachable code.  A level is only given to instructions a path         *)
(* reaches, and only groups with a level grow.                             *)
(***************************************************************************)
LevelsReached ==
  /\ phase = "levels" => edges = FlowEdges /\ vertices = Insts
  /\ \A i \in Insts : level[i] # Unset => i \in Reached
  /\ \A k \in DOMAIN todo : todo[k][1] \in Reached
  /\ \A i \in Insts \ Reached : addrMap[i] = i /\ gend[i] = i

LEMMA ReachedInit == GroupingInit => LevelsReached
<1> SUFFICES ASSUME GroupingInit PROVE LevelsReached
  OBVIOUS
<1>1. \A i \in Insts : level[i] = Unset /\ addrMap[i] = i /\ gend[i] = i
  BY DEF GroupingInit, GraphInit
<1> QED
  BY <1>1 DEF GroupingInit, GraphInit, LevelsReached

\* The queue after a visit: what was below the vertex, and its successors.
LEMMA QueueAfterVisit ==
  ASSUME GroupingInv, VisitVertex, NEW v, NEW l, v = Last(todo)[1], l = Last(todo)[2]
  PROVE  /\ v \in Insts /\ l \in Int /\ <<v, l>> = todo[Len(todo)]
         /\ Len(todo) \in DOMAIN todo
         /\ \A k \in DOMAIN todo' :
              \/ k \in DOMAIN todo /\ k # Len(todo) /\ todo'[k] = todo[k]
              \/ \E w \in Successors(v) \ seen : todo'[k] = <<w, LevelBehind(v, l)>>
         /\ \A k \in DOMAIN todo : k # Len(todo) => k \in DOMAIN todo' /\ todo'[k] = todo[k]
         /\ \A w \in Successors(v) \ seen :
              \E k \in DOMAIN todo' : todo'[k] = <<w, LevelBehind(v, l)>>
<1> DEFINE S == Successors(v) \ seen
           n == Len(todo) - 1
           m == LevelBehind(v, l)
<1>1. PICK order \in SetToSeqs(S) : todo' = Front(todo) \o [k \in DOMAIN order |-> <<order[k], m>>]
  BY DEF VisitVertex
<1>2. todo # <<>> /\ todo \in Seq(Insts \X Int)
  BY DEF VisitVertex, GroupingInv, GroupingTypeOK
<1>3. n \in Nat /\ Len(todo) = n + 1 /\ Last(todo) = todo[n + 1] /\ n + 1 \in 1 .. Len(todo)
  BY <1>2 DEF Last
<1>4. Front(todo) = [k \in 1 .. n |-> todo[k]]
  BY <1>2 DEF Front
<1>5. Last(todo) \in Insts \X Int
  BY <1>2, <1>3
<1>6. IsFiniteSet(S)
  <2>1. Successors(v) \in SUBSET Insts /\ IsProgram(prog)
    BY DEF GroupingInv, GroupingTypeOK, GraphTypeOK, Successors
  <2>2. IsFiniteSet(Insts)
    BY <2>1, ProgramFacts, FS_Interval
  <2> QED
    BY <2>1, <2>2, FS_Subset
<1> HIDE DEF S, n, m
<1>7. Cardinality(S) \in Nat
  BY <1>6, FS_CardinalityType
<1>8. /\ order \in [1 .. Cardinality(S) -> S]
      /\ \A w \in S : \E k \in 1 .. Cardinality(S) : order[k] = w
  <2>1. order \in Injection(1 .. Cardinality(S), S)
    BY <1>7 DEF SetToSeqs, Injection, IsInjective
  <2>2. Cardinality(1 .. Cardinality(S)) = Cardinality(S)
    BY <1>7, FS_Interval
  <2>3. order \in Surjection(1 .. Cardinality(S), S)
    BY <1>6, <2>1, <2>2, FS_Injection
  <2> QED
    BY <2>3 DEF Surjection
<1> DEFINE pushed == [k \in DOMAIN order |-> <<order[k], m>>]
<1>9. /\ pushed \in Seq(S \X {m})
      /\ Len(pushed) = Cardinality(S)
      /\ \A k \in 1 .. Cardinality(S) : pushed[k] = <<order[k], m>>
  <2>1. DOMAIN order = 1 .. Cardinality(S)
    BY <1>8
  <2>2. pushed \in Seq(S \X {m})
    BY <1>6, PushedType
  <2>3. DOMAIN pushed = 1 .. Cardinality(S)
    BY <2>1
  <2>4. \A k \in 1 .. Cardinality(S) : pushed[k] = <<order[k], m>>
    BY <2>1
  <2> HIDE DEF pushed
  <2> QED
    BY <2>2, <2>3, <2>4, <1>7
<1>10. Front(todo) \in Seq(Insts \X Int) /\ Len(Front(todo)) = n
  BY <1>2, <1>3, <1>4
<1>11. /\ DOMAIN todo' = 1 .. n + Cardinality(S)
       /\ \A k \in 1 .. n : todo'[k] = todo[k]
       /\ \A k \in n + 1 .. n + Cardinality(S) : todo'[k] = <<order[k - n], m>>
  <2>0. todo' = Front(todo) \o pushed
    BY <1>1
  <2> HIDE DEF pushed
  <2>1. DOMAIN todo' = 1 .. n + Cardinality(S)
    BY <2>0, <1>3, <1>7, <1>9, <1>10
  <2>2. \A k \in 1 .. n : todo'[k] = todo[k]
    BY <2>0, <1>3, <1>4, <1>7, <1>9, <1>10
  <2>3. ASSUME NEW k \in n + 1 .. n + Cardinality(S)
        PROVE  todo'[k] = pushed[k - n] /\ k - n \in 1 .. Cardinality(S)
    <3>1. k \in 1 .. Len(Front(todo)) + Len(pushed) /\ ~ (k <= Len(Front(todo)))
      BY <1>3, <1>7, <1>9, <1>10
    <3>2. todo'[k] = pushed[k - Len(Front(todo))]
      BY <2>0, <3>1, <1>9, <1>10
    <3> QED
      BY <3>2, <1>3, <1>7, <1>10
  <2> QED
    BY <2>1, <2>2, <2>3, <1>9
<1>12. DOMAIN todo = 1 .. n + 1
  BY <1>2, <1>3
<1>13. ASSUME NEW w \in S
       PROVE  \E k \in DOMAIN todo' : todo'[k] = <<w, m>>
  <2>1. PICK j \in 1 .. Cardinality(S) : order[j] = w
    BY <1>8
  <2>2. n + j \in n + 1 .. n + Cardinality(S) /\ (n + j) - n = j /\ n + j \in DOMAIN todo'
    BY <1>3, <1>7, <1>11
  <2> QED
    BY <2>1, <2>2, <1>11
<1>14. ASSUME NEW k \in DOMAIN todo', k \notin 1 .. n
       PROVE  \E w \in S : todo'[k] = <<w, m>>
  <2>1. k \in n + 1 .. n + Cardinality(S) /\ k - n \in 1 .. Cardinality(S)
    BY <1>3, <1>7, <1>11, <1>14
  <2> QED
    BY <2>1, <1>8, <1>11
<1>15. /\ \A k \in 1 .. n : k \in DOMAIN todo' /\ k \in DOMAIN todo /\ k # n + 1
       /\ \A k \in DOMAIN todo : k # n + 1 => k \in 1 .. n
  BY <1>3, <1>7, <1>11, <1>12
<1>16. v \in Insts /\ l \in Int /\ <<v, l>> = todo[Len(todo)] /\ Len(todo) \in DOMAIN todo
  BY <1>3, <1>5, <1>12
<1> QED
  BY <1>3, <1>11, <1>13, <1>14, <1>15, <1>16 DEF S, m

\* Where the sweep finds a level, all of the group is reached, and the next
\* instruction is if control can leave the group for it.
LEMMA SweepReached ==
  ASSUME GroupingInv, LevelsReached, InSweep, ~Unreached
  PROVE  /\ Cur \in Reached /\ pos \in Reached
         /\ ~IsUncondJump(pos) /\ ~IsReturn(pos) => pos + 1 \in Reached
<1>1. /\ pos \in Insts /\ pos + 1 \in Insts /\ Cur \in Insts
      /\ level[Cur] # Unset /\ gend[Cur] = pos
  <2>1. level[Cur] \in Int /\ ~ (level[Cur] < 0)
    BY SweepFacts DEF Unreached, GroupingInv, GroupingTypeOK
  <2> QED
    BY <2>1, SweepFacts DEF Unset
<1>2. Cur \in Reached
  BY <1>1 DEF LevelsReached
<1>3. pos \in Reached
  BY <1>1, <1>2 DEF LevelsReached, Cur
<1>4. IsProgram(prog)
  BY DEF GroupingInv, GroupingTypeOK, GraphTypeOK
<1>5. ASSUME ~IsUncondJump(pos), ~IsReturn(pos)
      PROVE  pos + 1 \in Reached
  <2>1. CASE pos + 1 \in Functions
    BY <2>1, <1>4, ReachedClosed
  <2>2. CASE pos + 1 \notin Functions
    <3>1. <<pos, pos + 1>> \in FlowEdges
      BY <2>2, <1>1, <1>5 DEF FlowEdges, FallsThrough
    <3> QED
      BY <3>1, <1>3, <1>4, ReachedClosed
  <2> QED
    BY <2>1, <2>2
<1> QED
  BY <1>2, <1>3, <1>5

LEMMA ReachedNext ==
  GroupingInv /\ LevelsReached /\ [GroupingNext]_groupingVars => LevelsReached'
<1> SUFFICES ASSUME GroupingInv, LevelsReached, [GroupingNext]_groupingVars
             PROVE  LevelsReached'
  OBVIOUS
<1>1. /\ IsProgram(prog) /\ prog' = prog /\ Reached' = Reached /\ Insts' = Insts
      /\ FlowEdges' = FlowEdges
  BY ProgKept, PathsKept, FlowEdgesKept DEF GroupingInv, GroupingTypeOK, GraphTypeOK, Insts, Size
<1>2. level \in [Insts -> Int] /\ todo \in Seq(Insts \X Int)
  BY DEF GroupingInv, GroupingTypeOK
<1>3. CASE StartFunction
  <2>1. PICK f \in pending : todo' = << <<f, 0>> >>
    BY <1>3 DEF StartFunction
  <2>2. f \in Reached
    BY <2>1, <1>1, ReachedClosed DEF GroupingInv, GroupingTypeOK
  <2>3. \A k \in DOMAIN todo' : todo'[k][1] = f
    BY <2>1
  <2> QED
    BY <1>1, <1>3, <2>2, <2>3 DEF StartFunction, graphVars, sweepVars, LevelsReached
<1>4. CASE VisitVertex
  <2> DEFINE v == Last(todo)[1]
             l == Last(todo)[2]
  <2>1. /\ phase = "levels" /\ level' = [level EXCEPT ![v] = l]
        /\ UNCHANGED <<graphVars, phase>>
    BY <1>4 DEF VisitVertex
  <2>2. /\ v \in Insts /\ <<v, l>> = todo[Len(todo)] /\ Len(todo) \in DOMAIN todo
        /\ \A k \in DOMAIN todo' :
             \/ k \in DOMAIN todo /\ k # Len(todo) /\ todo'[k] = todo[k]
             \/ \E w \in Successors(v) \ seen : todo'[k] = <<w, LevelBehind(v, l)>>
    BY <1>4, QueueAfterVisit
  <2> HIDE DEF v, l
  <2>3. v \in Reached
    BY <2>2 DEF LevelsReached
  <2>4. \A w \in Successors(v) : w \in Reached
    <3>1. \A w \in Successors(v) : <<v, w>> \in FlowEdges
      BY <2>1 DEF Successors, LevelsReached
    <3> QED
      BY <3>1, <2>3, <1>1, ReachedClosed
  <2>5. \A k \in DOMAIN todo' : todo'[k][1] \in Reached
    BY <2>2, <2>4 DEF LevelsReached
  <2>6. \A i \in Insts : level'[i] # Unset => i \in Reached
    BY <2>1, <2>2, <2>3, <1>2 DEF LevelsReached
  <2> QED
    BY <2>1, <2>5, <2>6, <1>1 DEF LevelsReached, graphVars
<1>5. CASE RevisitVertex
  <2>1. \A k \in DOMAIN todo' : k \in DOMAIN todo /\ todo'[k] = todo[k]
    BY <1>2, <1>5 DEF RevisitVertex, Front
  <2> QED
    BY <2>1, <1>1, <1>5 DEF RevisitVertex, graphVars, LevelsReached
<1>6. CASE LevelsAssigned \/ SweepDone \/ SkipUnreachable \/ UNCHANGED groupingVars
  <2>1. UNCHANGED <<graphVars, level, todo>> /\ (phase' = "levels" => phase = "levels")
    BY <1>6 DEF LevelsAssigned, SweepDone, SkipUnreachable, groupingVars, levelVars
  <2> QED
    BY <2>1, <1>1 DEF graphVars, LevelsReached
<1>7. CASE EndGroup \/ EndStatement \/ MergeNext
  <2>1. InSweep /\ ~Unreached /\ UpdateLevels /\ phase' = phase /\ todo' = todo /\ phase # "levels"
    BY <1>7 DEF EndGroup, EndStatement, MergeNext, InSweep
  <2>2. /\ Cur \in Reached /\ pos \in Reached /\ pos + 1 \in Insts /\ Nxt = pos + 1
        /\ ~IsUncondJump(pos) /\ ~IsReturn(pos) => pos + 1 \in Reached
    BY <2>1, SweepReached, SweepFacts
  <2>3. \A i \in Insts : level'[i] # Unset => i \in Reached
    <3>1. IsStackOp(pos) => pos + 1 \in Reached
      BY <2>2 DEF IsStackOp, IsUncondJump, IsReturn
    <3>2. ASSUME NEW i \in Insts, i # Cur, i # Nxt
          PROVE  level'[i] = level[i]
      BY <2>1, <3>2, <1>2 DEF UpdateLevels
    <3>3. ASSUME Nxt # Cur, ~IsStackOp(pos)
          PROVE  level'[Nxt] = level[Nxt]
      BY <2>1, <3>3, <1>2, SweepFacts DEF UpdateLevels
    <3> QED
      BY <2>2, <3>1, <3>2, <3>3 DEF LevelsReached
  <2>4. CASE UNCHANGED graphVars
    BY <2>1, <2>3, <2>4, <1>1 DEF LevelsReached, graphVars
  <2>5. CASE MergeNext
    <3>1. Merge(Cur, Nxt) /\ ~IsUncondJump(pos) /\ ~IsReturn(pos)
      BY <2>5 DEF MergeNext, GroupEnds, IsJump
    <3>2. /\ gend' = [gend EXCEPT ![Cur] = pos + 1]
          /\ addrMap' = [addrMap EXCEPT ![pos + 1] = Cur]
      BY <3>1, <2>1, MergeChanges
    <3>3. gend \in [Insts -> Insts] /\ addrMap \in [Insts -> Insts]
      BY DEF GroupingInv, GroupingTypeOK, GraphTypeOK
    <3>4. \A i \in Insts \ Reached : addrMap'[i] = i /\ gend'[i] = i
      BY <2>2, <3>1, <3>2, <3>3 DEF LevelsReached
    <3> QED
      BY <2>1, <2>3, <3>4, <1>1 DEF LevelsReached
  <2> QED
    BY <2>4, <2>5, <1>7 DEF EndGroup, EndStatement
<1> QED
  BY <1>3, <1>4, <1>5, <1>6, <1>7 DEF GroupingNext

(***************************************************************************)
(* Dead code stays as it is: an instruction no path from a function        *)
(* reaches is in a group of its own when createGroups is done, because     *)
(* setStackLevel gives levels along the edges only and the sweep neither   *)
(* extends a group without a level nor runs on past a jump or a return.    *)
(***************************************************************************)
THEOREM UnreachableStaysUngrouped == GroupingSpec => []UnreachableUngrouped
<1>1. LevelsReached => UnreachableUngrouped
  BY DEF LevelsReached, UnreachableUngrouped, Reached
<1> QED
  BY <1>1, ReachedInit, ReachedNext, GroupingInvariant, PTL DEF GroupingSpec

----------------------------------------------------------------------------
(***************************************************************************)
(* Where the levels are consistent no instruction has two, so the paths of *)
(* Size instructions reach every pair longer paths reach, and nothing that *)
(* does not follow from the functions along the edges.                     *)
(***************************************************************************)
LEMMA PathsClosed ==
  ASSUME IsProgram(prog), Consistent(PathLevels)
  PROVE  /\ PathLevels \in SUBSET Pairs
         /\ Functions \X {0} \subseteq PathLevels
         /\ \A e \in FlowEdges, l \in Int :
              <<e[1], l>> \in PathLevels => <<e[2], l + Change(e[1])>> \in PathLevels
<1>1. Size \in Nat \ {0} /\ Insts = 1 .. Size /\ Functions \in SUBSET Insts /\ Functions # {}
  BY ProgramFacts DEF Functions
<1>2. \A k \in 0 .. Size : PathsUpTo[k] \in SUBSET Pairs /\ PathsUpTo[k] \in SUBSET PathLevels
  BY PathsDefined, PathsGrow
<1>3. PathLevels \in SUBSET Pairs
  BY <1>1, <1>2 DEF PathLevels
<1>4. IsFiniteSet(PathLevels) /\ Cardinality(PathLevels) <= Size
  <2> DEFINE f == [p \in PathLevels |-> p[1]]
  <2>1. f \in [PathLevels -> Insts]
    BY <1>3 DEF Pairs
  <2>2. \A p, q \in PathLevels : f[p] = f[q] => p = q
    BY DEF Consistent
  <2>3. f \in Injection(PathLevels, Insts)
    <3> HIDE DEF f
    <3> QED
      BY <2>1, <2>2 DEF Injection, IsInjective
  <2>4. IsFiniteSet(Insts) /\ Cardinality(Insts) = Size
    BY <1>1, FS_Interval
  <2> QED
    BY <2>3, <2>4, FS_Injection
<1>5. PathsUpTo[0] # {} /\ Functions \X {0} \subseteq PathLevels
  <2>1. PathsUpTo[0] = Functions \X {0} /\ 0 \in 0 .. Size
    BY <1>1, PathsDefined
  <2>2. PICK f : f \in Functions
    BY <1>1
  <2>3. <<f, 0>> \in PathsUpTo[0]
    BY <2>1, <2>2
  <2> QED
    BY <2>1, <2>3, <1>2
<1>6. ASSUME NEW k \in 1 .. Size
      PROVE  PathsUpTo[k] = Extended(PathsUpTo[k - 1]) /\ PathsUpTo[k - 1] \subseteq PathsUpTo[k]
  <2>1. k - 1 \in 0 .. Size /\ PathsUpTo[k - 1] \in SUBSET Pairs
    BY <1>1, <1>2
  <2> QED
    BY <2>1, PathsDefined, ExtendedPairs
<1>7. ASSUME NEW k \in 1 .. Size - 1, PathsUpTo[k] = PathsUpTo[k - 1]
      PROVE  PathsUpTo[k + 1] = PathsUpTo[k]
  <2>1. k \in 1 .. Size /\ k + 1 \in 1 .. Size /\ (k + 1) - 1 = k
    BY <1>1
  <2>2. PathsUpTo[k] = Extended(PathsUpTo[k - 1]) /\ PathsUpTo[k + 1] = Extended(PathsUpTo[(k + 1) - 1])
    BY <2>1, PathsDefined
  <2> QED
    BY <2>1, <2>2, <1>7
<1>8. PathsUpTo[Size] = PathsUpTo[Size - 1]
  <2> HIDE DEF Size, PathLevels, PathsUpTo
  <2> QED
    BY <1>1, <1>2, <1>4, <1>5, <1>6, <1>7, ChainCloses
<1>9. PathLevels = Extended(PathLevels)
  BY <1>1, <1>6, <1>8 DEF PathLevels
<1> QED
  BY <1>3, <1>5, <1>9, ExtendedPairs

LEMMA PathsLeast ==
  ASSUME IsProgram(prog), NEW T, Functions \X {0} \subseteq T,
         \A e \in FlowEdges, l \in Int :
           <<e[1], l>> \in T \cap PathLevels /\ <<e[2], l + Change(e[1])>> \in PathLevels
             => <<e[2], l + Change(e[1])>> \in T
  PROVE  PathLevels \subseteq T
<1> DEFINE N == {n \in Nat : n <= Size => PathsUpTo[n] \subseteq T}
<1>1. Size \in Nat
  BY ProgramFacts
<1>2. 0 \in N
  BY PathsDefined
<1>3. ASSUME NEW n \in N
      PROVE  n + 1 \in N
  <2> SUFFICES ASSUME n + 1 <= Size, NEW q \in PathsUpTo[n + 1] PROVE q \in T
    OBVIOUS
  <2>1. n \in 0 .. Size /\ n + 1 \in 1 .. Size /\ n + 1 \in 0 .. Size /\ (n + 1) - 1 = n
        /\ PathsUpTo[n] \subseteq T
    BY <1>1
  <2>2. /\ PathsUpTo[n + 1] = Extended(PathsUpTo[n]) /\ PathsUpTo[n] \in SUBSET Pairs
        /\ PathsUpTo[n] \subseteq PathLevels /\ PathsUpTo[n + 1] \subseteq PathLevels
    BY <2>1, PathsDefined, PathsGrow
  <2> HIDE DEF N
  <2>3. CASE q \in PathsUpTo[n]
    BY <2>1, <2>3
  <2>4. CASE \E e \in FlowEdges, l \in Int :
               <<e[1], l>> \in PathsUpTo[n] /\ q = <<e[2], l + Change(e[1])>>
    <3>1. PICK e \in FlowEdges, l \in Int :
            <<e[1], l>> \in PathsUpTo[n] /\ q = <<e[2], l + Change(e[1])>>
      BY <2>4
    <3>2. <<e[1], l>> \in T \cap PathLevels /\ q \in PathLevels
      BY <3>1, <2>1, <2>2
    <3> QED
      BY <3>1, <3>2
  <2>5. \/ q \in PathsUpTo[n]
        \/ \E e \in FlowEdges, l \in Int :
             <<e[1], l>> \in PathsUpTo[n] /\ q = <<e[2], l + Change(e[1])>>
    <3>1. q \in Extended(PathsUpTo[n]) /\ PathsUpTo[n] \in SUBSET Pairs
      BY <2>2
    <3> QED
      BY <3>1, ExtendedPairs
  <2> QED
    BY <2>3, <2>4, <2>5
<1>4. N = Nat
  <2>1. N \subseteq Nat
    OBVIOUS
  <2> HIDE DEF N
  <2> QED
    BY <1>2, <1>3, <2>1, InductionOnNat
<1>5. Size \in N
  <2> HIDE DEF N
  <2> QED
    BY <1>1, <1>4
<1> QED
  BY <1>1, <1>5 DEF PathLevels

(***************************************************************************)
(* The depth-first pass: what it has given levels to and what it has in    *)
(* its queue lies on paths, and nothing it has seen is in neither.         *)
(***************************************************************************)
InTodo(i) == \E k \in DOMAIN todo : todo[k][1] = i
Known(i)  == level[i] # Unset \/ InTodo(i)

BeforeSweep == phase = "levels" \/ (phase = "groups" /\ pos = 1)

LevelsFound ==
  Consistent(PathLevels) /\ BeforeSweep =>
    /\ \A i \in Insts : level[i] # Unset => <<i, level[i]>> \in PathLevels
    /\ \A k \in DOMAIN todo : todo[k] \in PathLevels
    /\ warned = {}
    /\ \A f \in Functions \ pending : Known(f)
    /\ \A i \in seen : Known(i)
    /\ \A e \in FlowEdges : level[e[1]] # Unset => Known(e[2])
    /\ phase = "groups" => todo = <<>> /\ pending = {}

LEMMA FoundInit == GroupingInit => LevelsFound
<1> SUFFICES ASSUME GroupingInit PROVE LevelsFound
  OBVIOUS
<1>1. FlowEdges \in SUBSET (Insts \X Insts)
  BY ProgramsAssumption, FlowEdgesType DEF GroupingInit, GraphInit
<1>2. \A i \in Insts : level[i] = Unset
  BY DEF GroupingInit
<1>3. \A e \in FlowEdges : level[e[1]] = Unset
  BY <1>1, <1>2
<1> QED
  BY <1>2, <1>3 DEF GroupingInit, LevelsFound, BeforeSweep

LEMMA FoundNext ==
  GroupingInv /\ LevelsReached /\ LevelsFound /\ [GroupingNext]_groupingVars => LevelsFound'
<1> SUFFICES ASSUME GroupingInv, LevelsReached, LevelsFound, [GroupingNext]_groupingVars,
                    Consistent(PathLevels)', BeforeSweep'
             PROVE  LevelsFound'
  BY DEF LevelsFound
<1>1. /\ IsProgram(prog) /\ PathLevels' = PathLevels /\ Insts' = Insts
      /\ FlowEdges' = FlowEdges /\ Functions' = Functions
  BY ProgKept, PathsKept, FlowEdgesKept
    DEF GroupingInv, GroupingTypeOK, GraphTypeOK, Insts, Size, Functions
<1>2. /\ level \in [Insts -> Int] /\ todo \in Seq(Insts \X Int) /\ seen \in SUBSET Insts
      /\ pending \in SUBSET Functions /\ pos \in Nat /\ pos >= 1
      /\ FlowEdges \in SUBSET (Insts \X Insts) /\ Functions \in SUBSET Insts
  BY <1>1, ProgramFacts, FlowEdgesType DEF GroupingInv, GroupingTypeOK
<1>3. Consistent(PathLevels)
  BY <1>1 DEF Consistent
<1>4. /\ Functions \X {0} \subseteq PathLevels
      /\ \A e \in FlowEdges, l \in Int :
           <<e[1], l>> \in PathLevels => <<e[2], l + Change(e[1])>> \in PathLevels
  BY <1>1, <1>3, PathsClosed
<1>5. CASE StartFunction
  <2>1. phase = "levels" /\ todo = <<>> /\ UNCHANGED <<level, warned, phase>>
    BY <1>5 DEF StartFunction
  <2>2. PICK f \in pending :
          pending' = pending \ {f} /\ todo' = << <<f, 0>> >> /\ seen' = {f}
    BY <1>5 DEF StartFunction
  <2>3. <<f, 0>> \in PathLevels
    BY <2>2, <1>2, <1>4
  <2>4. /\ \A k \in DOMAIN todo' : todo'[k] = <<f, 0>>
        /\ 1 \in DOMAIN todo' /\ todo'[1][1] = f
    BY <2>2
  <2>5. \A i : Known(i) => level[i] # Unset
    BY <2>1 DEF Known, InTodo
  <2>6. Known(f)' /\ \A i \in Insts : level[i] # Unset => Known(i)'
    BY <2>1, <2>4 DEF Known, InTodo
  <2> QED
    BY <2>1, <2>2, <2>3, <2>4, <2>5, <2>6, <1>1, <1>2, <1>3 DEF LevelsFound, BeforeSweep
<1>6. CASE VisitVertex
  <2> DEFINE v == Last(todo)[1]
             l == Last(todo)[2]
  <2>1. /\ phase = "levels" /\ level[v] = Unset
        /\ level' = [level EXCEPT ![v] = l] /\ seen' = seen \cup Successors(v)
        /\ UNCHANGED <<pending, warned, phase>>
    BY <1>6 DEF VisitVertex
  <2>2. /\ v \in Insts /\ l \in Int /\ <<v, l>> = todo[Len(todo)] /\ Len(todo) \in DOMAIN todo
        /\ \A k \in DOMAIN todo' :
             \/ k \in DOMAIN todo /\ k # Len(todo) /\ todo'[k] = todo[k]
             \/ \E w \in Successors(v) \ seen : todo'[k] = <<w, LevelBehind(v, l)>>
        /\ \A k \in DOMAIN todo : k # Len(todo) => k \in DOMAIN todo' /\ todo'[k] = todo[k]
        /\ \A w \in Successors(v) \ seen :
             \E k \in DOMAIN todo' : todo'[k] = <<w, LevelBehind(v, l)>>
    BY <1>6, QueueAfterVisit
  <2> HIDE DEF v, l
  <2>3. <<v, l>> \in PathLevels
    BY <2>1, <2>2, <1>3 DEF LevelsFound, BeforeSweep
  <2>4. l >= 0
    BY <2>3, <1>3 DEF Consistent
  <2>5. \A w : w \in Successors(v) <=> <<v, w>> \in FlowEdges
    BY <2>1, <1>2 DEF Successors, LevelsReached
  <2>6. ASSUME NEW w \in Successors(v)
        PROVE  <<w, LevelBehind(v, l)>> \in PathLevels
    <3> DEFINE e == <<v, w>>
    <3>1. e \in FlowEdges /\ e[1] = v /\ e[2] = w
      BY <2>5
    <3> HIDE DEF e
    <3>2. <<e[2], l + Change(e[1])>> \in PathLevels
      BY <3>1, <2>2, <2>3, <1>4
    <3> QED
      BY <3>1, <3>2 DEF LevelBehind
  <2>7. \A k \in DOMAIN todo' : todo'[k] \in PathLevels
    BY <2>1, <2>2, <2>6, <1>3 DEF LevelsFound, BeforeSweep
  <2>8. \A i \in Insts : level'[i] = IF i = v THEN l ELSE level[i]
    BY <2>1, <2>2, <1>2
  <2>9. ASSUME NEW i \in Insts, Known(i)
        PROVE  Known(i)'
    <3>1. CASE level[i] # Unset \/ i = v
      BY <3>1, <2>4, <2>8 DEF Known, Unset
    <3>2. CASE InTodo(i) /\ i # v
      <4>1. PICK k \in DOMAIN todo : todo[k][1] = i
        BY <3>2 DEF InTodo
      <4>2. k # Len(todo)
        BY <4>1, <3>2, <2>2
      <4> QED
        BY <4>1, <4>2, <2>2 DEF Known, InTodo
    <3> QED
      BY <3>1, <3>2, <2>9 DEF Known
  <2>10. \A w \in Successors(v) : Known(w)'
    <3>1. ASSUME NEW w \in Successors(v) \ seen
          PROVE  Known(w)'
      BY <2>2, <3>1 DEF Known, InTodo
    <3>2. ASSUME NEW w \in seen
          PROVE  Known(w)'
      BY <2>1, <2>9, <1>2, <1>3 DEF LevelsFound, BeforeSweep
    <3> QED
      BY <3>1, <3>2
  <2>11. \A i \in Insts : level'[i] # Unset => <<i, level'[i]>> \in PathLevels
    BY <2>1, <2>3, <2>8, <1>3 DEF LevelsFound, BeforeSweep
  <2>12. warned' = {} /\ \A f \in Functions \ pending' : Known(f)'
    BY <2>1, <2>9, <1>2, <1>3 DEF LevelsFound, BeforeSweep
  <2>13. \A i \in seen' : Known(i)'
    BY <2>1, <2>9, <2>10, <1>2, <1>3 DEF LevelsFound, BeforeSweep
  <2>14. ASSUME NEW e \in FlowEdges, level'[e[1]] # Unset
         PROVE  Known(e[2])'
    <3>1. e[1] \in Insts /\ e[2] \in Insts /\ e = <<e[1], e[2]>>
      BY <1>2
    <3>2. CASE e[1] = v
      BY <3>1, <3>2, <2>5, <2>10
    <3>3. CASE e[1] # v
      BY <3>1, <3>3, <2>1, <2>8, <2>9, <2>14, <1>3 DEF LevelsFound, BeforeSweep
    <3> QED
      BY <3>2, <3>3
  <2> QED
    BY <2>1, <2>7, <2>11, <2>12, <2>13, <2>14, <1>1 DEF LevelsFound
<1>7. CASE RevisitVertex
  <2> DEFINE v == Last(todo)[1]
             n == Len(todo)
  <2>1. /\ phase = "levels" /\ level[v] # Unset /\ todo # <<>> /\ todo' = Front(todo)
        /\ warned' = IF level[v] = Last(todo)[2] THEN warned ELSE warned \cup {v}
        /\ UNCHANGED <<level, pending, seen, phase>>
    BY <1>7 DEF RevisitVertex
  <2>2. /\ n \in DOMAIN todo /\ Last(todo) = todo[n] /\ todo[n] \in Insts \X Int
        /\ \A k \in DOMAIN todo' : k \in DOMAIN todo /\ todo'[k] = todo[k]
        /\ \A k \in DOMAIN todo : k # n => k \in DOMAIN todo' /\ todo'[k] = todo[k]
    <3>1. n \in Nat \ {0} /\ DOMAIN todo = 1 .. n /\ Last(todo) = todo[n]
      BY <2>1, <1>2 DEF Last
    <3>2. todo' = [k \in 1 .. n - 1 |-> todo[k]]
      BY <2>1 DEF Front
    <3>3. todo[n] \in Insts \X Int
      BY <3>1, <1>2
    <3> HIDE DEF n
    <3>4. DOMAIN todo' = 1 .. n - 1 /\ \A k \in 1 .. n - 1 : todo'[k] = todo[k]
      BY <3>2
    <3> QED
      BY <3>1, <3>3, <3>4
  <2> HIDE DEF n
  <2>3. v \in Insts /\ todo[n] = <<v, Last(todo)[2]>> /\ todo[n][1] = v
    BY <2>2
  <2> HIDE DEF v
  <2>4. <<v, Last(todo)[2]>> \in PathLevels /\ <<v, level[v]>> \in PathLevels
    BY <2>1, <2>2, <2>3, <1>3 DEF LevelsFound, BeforeSweep
  <2>5. <<v, Last(todo)[2]>> = <<v, level[v]>>
    BY <2>4, <1>3 DEF Consistent
  <2>6. warned' = warned
    BY <2>1, <2>5
  <2>7. \A i \in Insts : Known(i) => Known(i)'
    BY <2>1, <2>2, <2>3 DEF Known, InTodo
  <2> QED
    BY <2>1, <2>2, <2>6, <2>7, <1>1, <1>2, <1>3 DEF LevelsFound, BeforeSweep
<1>8. CASE LevelsAssigned \/ UNCHANGED groupingVars
  <2>1. UNCHANGED <<level, pending, todo, seen, warned>> /\ BeforeSweep
    BY <1>8 DEF LevelsAssigned, groupingVars, levelVars, sweepVars, BeforeSweep
  <2>2. \A i : Known(i)' <=> Known(i)
    BY <2>1 DEF Known, InTodo
  <2>3. phase' = "groups" => todo = <<>> /\ pending = {}
    BY <1>3, <1>8, <2>1 DEF LevelsAssigned, groupingVars, LevelsFound
  <2> QED
    BY <2>1, <2>2, <2>3, <1>1, <1>3 DEF LevelsFound
<1>9. CASE SkipUnreachable \/ EndGroup \/ EndStatement \/ MergeNext
  <2>1. InSweep /\ pos' = pos + 1 /\ phase' = phase
    BY <1>9 DEF SkipUnreachable, EndGroup, EndStatement, MergeNext
  <2>2. ~BeforeSweep'
    BY <2>1, <1>2 DEF BeforeSweep, InSweep
  <2> QED
    BY <2>2
<1>10. CASE SweepDone
  BY <1>10 DEF SweepDone, BeforeSweep
<1> QED
  BY <1>5, <1>6, <1>7, <1>8, <1>9, <1>10 DEF GroupingNext

\* When the queue and the list of functions are empty, all of the pairs are set.
LEMMA FoundAll ==
  ASSUME GroupingInv, LevelsFound, BeforeSweep, Consistent(PathLevels), todo = <<>>, pending = {}
  PROVE  /\ {<<i, level[i]>> : i \in {j \in Insts : level[j] # Unset}} = PathLevels
         /\ warned = {}
<1> DEFINE L == {<<i, level[i]>> : i \in {j \in Insts : level[j] # Unset}}
<1>1. /\ \A i \in Insts : level[i] # Unset => <<i, level[i]>> \in PathLevels
      /\ \A f \in Functions : level[f] # Unset
      /\ \A e \in FlowEdges : level[e[1]] # Unset => level[e[2]] # Unset
      /\ warned = {}
  BY DEF LevelsFound, Known, InTodo
<1>2. /\ IsProgram(prog) /\ Functions \in SUBSET Insts
      /\ FlowEdges \in SUBSET (Insts \X Insts)
  BY ProgramFacts, FlowEdgesType DEF GroupingInv, GroupingTypeOK, GraphTypeOK
<1>3. \A p, q \in PathLevels : p[1] = q[1] => p = q
  BY DEF Consistent
<1>4. L \subseteq PathLevels
  BY <1>1
<1>5. \A i \in Insts : level[i] # Unset => <<i, level[i]>> \in L
  OBVIOUS
<1>6. ASSUME NEW i \in Insts, level[i] # Unset, NEW l, <<i, l>> \in PathLevels
      PROVE  <<i, l>> \in L
  <2>1. <<i, level[i]>> \in PathLevels
    BY <1>1, <1>6
  <2>2. <<i, l>> = <<i, level[i]>>
    BY <2>1, <1>3, <1>6
  <2> QED
    BY <2>2, <1>5, <1>6
<1>7. ASSUME NEW i, NEW l, <<i, l>> \in L
      PROVE  i \in Insts /\ level[i] # Unset
  BY <1>7
<1> HIDE DEF L
<1>8. Functions \X {0} \subseteq L
  <2>1. Functions \X {0} \subseteq PathLevels
    BY <1>2, PathsClosed
  <2> QED
    BY <2>1, <1>1, <1>2, <1>6
<1>9. ASSUME NEW e \in FlowEdges, NEW l \in Int, <<e[1], l>> \in L,
             <<e[2], l + Change(e[1])>> \in PathLevels
      PROVE  <<e[2], l + Change(e[1])>> \in L
  <2>1. level[e[2]] # Unset /\ e[2] \in Insts
    BY <1>1, <1>2, <1>7, <1>9
  <2> QED
    BY <2>1, <1>6, <1>9
<1>10. PathLevels \subseteq L
  BY <1>2, <1>8, <1>9, PathsLeast
<1> QED
  BY <1>1, <1>4, <1>10 DEF L

(***************************************************************************)
(* The levels are exact: if the paths from functions agree on the level of *)
(* every instruction and none underflows, setStackLevel gives exactly the  *)
(* instructions they reach exactly these levels, whatever the order in     *)
(* which it meets the out-edges of a vertex, and warns of nothing.         *)
(***************************************************************************)
THEOREM LevelsAreExact == GroupingSpec => []LevelsExact
<1>1. GroupingInv /\ LevelsFound => LevelsExact
  BY FoundAll DEF LevelsExact, LevelsFound, BeforeSweep
<1> QED
  BY <1>1, FoundInit, FoundNext, ReachedInit, ReachedNext, GroupingInvariant, PTL
    DEF GroupingSpec

----------------------------------------------------------------------------
(***************************************************************************)
(* Statements.  With consistent levels and no stack operations the sweep   *)
(* knows the level at pos exactly, and the level of the group it is in is  *)
(* the lowest of those in it.                                              *)
(***************************************************************************)
LV(i) == LevelIn(PathLevels, i)

SweepLevels ==
  StatementProgram(PathLevels) =>
    /\ phase = "levels" => stackLevel = 0
    /\ phase = "groups" =>
         /\ \A i \in Insts : pos < i => level[i] = IF i \in Reached THEN LV(i) ELSE Unset
         /\ Cur \in Reached =>
              /\ stackLevel = LV(pos)
              /\ \A j \in Cur .. pos : level[Cur] <= LV(j)
              /\ \E j \in Cur .. pos : level[Cur] = LV(j)

LEMMA LevelsUnique ==
  ASSUME IsProgram(prog), Consistent(PathLevels)
  PROVE  /\ \A i, l : <<i, l>> \in PathLevels => LV(i) = l
         /\ \A i \in Reached : <<i, LV(i)>> \in PathLevels /\ LV(i) \in Nat
<1>1. ASSUME NEW i, NEW l, <<i, l>> \in PathLevels
      PROVE  LV(i) = l
  <2> DEFINE levels == {p[2] : p \in PathLevels}
  <2>1. l \in levels
    <3>1. <<i, l>>[2] = l
      OBVIOUS
    <3> QED
      BY <3>1, <1>1
  <2>2. \A m : <<i, m>> \in PathLevels => m = l
    <3>1. \A m : <<i, m>>[1] = i /\ (<<i, m>> = <<i, l>> => m = l)
      OBVIOUS
    <3> QED
      BY <3>1, <1>1 DEF Consistent
  <2>3. LV(i) = CHOOSE m \in levels : <<i, m>> \in PathLevels
    BY DEF LV, LevelIn
  <2> HIDE DEF levels
  <2> QED
    BY <1>1, <2>1, <2>2, <2>3
<1>2. ASSUME NEW i \in Reached
      PROVE  <<i, LV(i)>> \in PathLevels /\ LV(i) \in Nat
  <2>1. PICK p \in PathLevels : p[1] = i
    BY DEF Reached
  <2>2. p = <<p[1], p[2]>> /\ p[2] \in Int /\ p[2] >= 0
    BY PathsClosed DEF Pairs, Consistent
  <2>3. LV(i) = p[2]
    BY <2>1, <2>2, <1>1
  <2> QED
    BY <2>1, <2>2, <2>3
<1> QED
  BY <1>1, <1>2

LEMMA StatementProgramKept ==
  ASSUME prog' = prog
  PROVE  /\ StatementProgram(PathLevels)' <=> StatementProgram(PathLevels)
         /\ \A i : LV(i)' = LV(i)
  BY PathsKept, SeparateKept
    DEF StatementProgram, Consistent, LV, LevelIn, IsStackOp, Insts, Size, Functions

\* What the sweep knows of a group with a level.
LEMMA KnownLevels ==
  ASSUME GroupingInv, LevelsReached, SweepLevels, StatementProgram(PathLevels), InSweep,
         ~Unreached
  PROVE  /\ Cur \in Reached /\ pos \in Reached /\ ~IsStackOp(pos)
         /\ level[Cur] \in Nat /\ \A j \in Cur .. pos : LV(j) \in Nat
         /\ level[Nxt] = IF Nxt \in Reached THEN LV(Nxt) ELSE Unset
         /\ FallsThrough(pos) => Nxt \in Reached /\ LV(Nxt) \in Nat /\ LV(Nxt) = LevelAfter
         /\ Nxt \in Reached => LV(Nxt) \in Nat
<1>1. /\ pos \in Insts /\ pos + 1 \in Insts /\ Cur \in Insts /\ Nxt = pos + 1
      /\ Cur <= pos /\ gend[Cur] = pos /\ Cur \in vertices /\ Insts = 1 .. Size /\ Size \in Nat
  BY SweepFacts
<1>2. IsProgram(prog) /\ Consistent(PathLevels) /\ level \in [Insts -> Int] /\ phase = "groups"
  BY DEF GroupingInv, GroupingTypeOK, GraphTypeOK, StatementProgram, InSweep
<1>3. Cur \in Reached /\ pos \in Reached
  BY SweepReached
<1>4. ASSUME NEW j \in Cur .. pos
      PROVE  j \in Reached
  <2>1. addrMap[j] = Cur /\ j \in Insts
    BY <1>1 DEF GroupingInv, GroupsTile
  <2> QED
    BY <2>1, <1>3 DEF LevelsReached
<1>5. \A j \in Cur .. pos : LV(j) \in Nat
  BY <1>2, <1>4, LevelsUnique
<1>6. level[Cur] \in Nat
  BY <1>1, <1>2 DEF Unreached
<1>7. ~IsStackOp(pos)
  BY <1>1 DEF StatementProgram
<1>8. level[Nxt] = IF Nxt \in Reached THEN LV(Nxt) ELSE Unset
  BY <1>1, <1>2 DEF SweepLevels
<1>9. ASSUME FallsThrough(pos)
      PROVE  Nxt \in Reached /\ LV(Nxt) = LevelAfter
  <2> DEFINE e == <<pos, pos + 1>>
  <2>1. e \in FlowEdges /\ e[1] = pos /\ e[2] = pos + 1
    BY <1>1, <1>9 DEF FlowEdges
  <2> HIDE DEF e
  <2>2. <<pos, LV(pos)>> \in PathLevels /\ LV(pos) \in Int
    BY <1>2, <1>3, LevelsUnique
  <2>3. <<e[2], LV(pos) + Change(e[1])>> \in PathLevels
    BY <2>1, <2>2, <1>2, PathsClosed
  <2>4. LV(pos + 1) = LV(pos) + Change(pos)
    BY <2>1, <2>3, <1>2, LevelsUnique
  <2>5. pos + 1 \in Reached
    BY <2>1, <1>2, <1>3, ReachedClosed
  <2>6. stackLevel = LV(pos)
    BY <1>2, <1>3 DEF SweepLevels
  <2> QED
    BY <2>4, <2>5, <2>6, <1>1 DEF LevelAfter
<1>10. Nxt \in Reached => LV(Nxt) \in Nat
  BY <1>2, LevelsUnique
<1> QED
  BY <1>3, <1>5, <1>6, <1>7, <1>8, <1>9, <1>10

\* With separate functions a group that does not end runs on.
LEMMA RunsOn ==
  ASSUME GroupingInv, FunctionsSeparate, InSweep, ~GroupEnds
  PROVE  FallsThrough(pos)
<1>1. pos \in Insts /\ pos + 1 \in Insts /\ Insts = 1 .. Size /\ Size \in Nat
  BY SweepFacts
<1>2. ~IsUncondJump(pos) /\ ~IsReturn(pos)
  BY DEF GroupEnds, IsJump
<1>3. pos + 1 \notin Functions
  BY <1>1, <1>2 DEF FunctionsSeparate
<1> QED
  BY <1>1, <1>2, <1>3 DEF FallsThrough

LEMMA SweepLevelsNext ==
  GroupingInv /\ LevelsReached /\ LevelsFound /\ SweepLevels /\ [GroupingNext]_groupingVars
    => SweepLevels'
<1> SUFFICES ASSUME GroupingInv, LevelsReached, LevelsFound, SweepLevels,
                    [GroupingNext]_groupingVars, StatementProgram(PathLevels)'
             PROVE  SweepLevels'
  BY DEF SweepLevels
<1>1. /\ IsProgram(prog) /\ prog' = prog /\ Reached' = Reached /\ Insts' = Insts
      /\ StatementProgram(PathLevels) /\ \A i : LV(i)' = LV(i)
  BY ProgKept, PathsKept, StatementProgramKept
    DEF GroupingInv, GroupingTypeOK, GraphTypeOK, Insts, Size
<1>2. /\ Consistent(PathLevels) /\ FunctionsSeparate /\ 1 \in Functions
      /\ level \in [Insts -> Int] /\ pos \in Insts /\ Insts = 1 .. Size /\ Size \in Nat
      /\ addrMap \in [Insts -> Insts]
  BY <1>1, ProgramFacts DEF StatementProgram, GroupingInv, GroupingTypeOK, GraphTypeOK
<1>3. CASE StartFunction \/ VisitVertex \/ RevisitVertex
  <2>1. phase = "levels" /\ phase' = "levels" /\ stackLevel' = stackLevel
    BY <1>3 DEF StartFunction, VisitVertex, RevisitVertex, sweepVars
  <2> QED
    BY <2>1, <1>1 DEF SweepLevels
<1>4. CASE LevelsAssigned
  <2>1. /\ phase = "levels" /\ todo = <<>> /\ pending = {} /\ phase' = "groups"
        /\ UNCHANGED <<graphVars, level, pos, stackLevel>>
    BY <1>4 DEF LevelsAssigned, levelVars, sweepVars
  <2>2. {<<i, level[i]>> : i \in {j \in Insts : level[j] # Unset}} = PathLevels
    BY <2>1, <1>2, FoundAll DEF BeforeSweep
  <2>3. ASSUME NEW i \in Insts
        PROVE  level[i] = IF i \in Reached THEN LV(i) ELSE Unset
    <3>1. CASE level[i] # Unset
      <4>1. <<i, level[i]>> \in PathLevels
        BY <2>2, <3>1
      <4>2. i \in Reached
        BY <3>1 DEF LevelsReached
      <4> QED
        BY <4>1, <4>2, <1>1, <1>2, LevelsUnique
    <3>2. CASE level[i] = Unset
      <4>1. i \notin Reached
        <5> SUFFICES ASSUME i \in Reached PROVE FALSE
          OBVIOUS
        <5>1. <<i, LV(i)>> \in PathLevels
          BY <1>1, <1>2, LevelsUnique
        <5>2. PICK j \in Insts : level[j] # Unset /\ <<i, LV(i)>> = <<j, level[j]>>
          BY <5>1, <2>2
        <5> QED
          BY <5>2, <3>2
      <4> QED
        BY <4>1, <3>2
    <3> QED
      BY <3>1, <3>2
  <2>4. LV(1) = 0 /\ 1 \in Reached
    <3>1. <<1, 0>> \in PathLevels
      BY <1>1, <1>2, PathsClosed
    <3> QED
      BY <3>1, <1>1, <1>2, LevelsUnique, ReachedClosed
  <2>5. pos = 1 /\ addrMap[1] = 1 /\ stackLevel = 0
    <3>1. pos = 1 /\ stackLevel = 0
      BY <2>1, <1>1 DEF GroupingInv, Frontier, SweepLevels
    <3>2. addrMap[1] \in Insts /\ addrMap[1] <= 1
      BY <3>1, <1>2 DEF GroupingInv, GroupsTile
    <3> QED
      BY <3>1, <3>2, <1>2
  <2>6. Cur' = 1
    BY <2>1, <2>5 DEF Cur, graphVars
  <2>7. level[1] = LV(1) /\ LV(1) \in Nat
    BY <2>3, <2>4, <1>2
  <2>8. \A j \in 1 .. 1 : level[1] <= LV(j) /\ level[1] = LV(j)
    BY <2>7
  <2> QED
    BY <2>1, <2>3, <2>4, <2>5, <2>6, <2>8, <1>1 DEF SweepLevels
<1>5. CASE SkipUnreachable \/ EndGroup \/ EndStatement
  <2>1. InSweep /\ pos' = pos + 1 /\ UNCHANGED <<graphVars, phase>> /\ phase = "groups"
    BY <1>5 DEF SkipUnreachable, EndGroup, EndStatement, InSweep
  <2>2. /\ pos + 1 \in Insts /\ Cur \in Insts /\ Cur # pos + 1 /\ Nxt = pos + 1
        /\ addrMap[pos + 1] = pos + 1 /\ pos < pos + 1
        /\ \A i \in Insts : pos + 1 < i => pos < i
        /\ \A i \in Insts : pos < i => i # Cur
    <3>1. pos \in Nat /\ Insts \subseteq Nat
      BY <1>2
    <3> QED
      BY <3>1, <2>1, SweepFacts DEF Nxt
  <2>3. Cur' = pos + 1
    BY <2>1, <2>2 DEF Cur, graphVars
  <2>4. /\ level[pos + 1] = IF pos + 1 \in Reached THEN LV(pos + 1) ELSE Unset
        /\ \A i \in Insts : pos + 1 < i => level[i] = IF i \in Reached THEN LV(i) ELSE Unset
    BY <2>1, <2>2, <1>1, <1>2 DEF SweepLevels
  <2>5. \A i \in Insts : pos < i => level'[i] = level[i]
    <3>1. CASE SkipUnreachable
      BY <3>1 DEF SkipUnreachable, levelVars
    <3>2. CASE EndGroup \/ EndStatement
      <4>1. UpdateLevels /\ ~Unreached
        BY <3>2 DEF EndGroup, EndStatement
      <4>2. ~IsStackOp(pos)
        BY <4>1, <2>1, <1>1, KnownLevels
      <4>3. level' = [level EXCEPT ![Cur] = LoweredLevel, ![Nxt] = @]
        BY <4>1, <4>2 DEF UpdateLevels
      <4> QED
        BY <4>3, <2>2, <1>2
    <3> QED
      BY <3>1, <3>2, <1>5
  <2>6. pos + 1 \in Reached => stackLevel' = LV(pos + 1)
    <3>1. CASE SkipUnreachable
      BY <3>1, <2>2, <2>4 DEF SkipUnreachable
    <3>2. CASE EndGroup
      BY <3>2, <2>2, <2>4, <2>5, <1>2 DEF EndGroup
    <3>3. CASE EndStatement
      <4>1. ~Unreached /\ ~GroupEnds /\ stackLevel' = LevelAfter
        BY <3>3 DEF EndStatement
      <4>2. FallsThrough(pos)
        BY <4>1, <2>1, <1>2, RunsOn
      <4> QED
        BY <4>1, <4>2, <2>1, <2>2, <1>1, KnownLevels
    <3> QED
      BY <3>1, <3>2, <3>3, <1>5
  <2>7. pos + 1 \in Reached =>
          \A j \in pos + 1 .. pos + 1 : level'[pos + 1] <= LV(j) /\ level'[pos + 1] = LV(j)
    <3> SUFFICES ASSUME pos + 1 \in Reached
                 PROVE  level'[pos + 1] <= LV(pos + 1) /\ level'[pos + 1] = LV(pos + 1)
      BY <1>2
    <3>1. LV(pos + 1) \in Nat
      BY <1>1, <1>2, LevelsUnique
    <3>2. level'[pos + 1] = level[pos + 1]
      BY <2>2, <2>5, <1>2
    <3>3. level'[pos + 1] = LV(pos + 1)
      BY <3>2, <2>4
    <3> HIDE DEF LV
    <3> QED
      BY <3>1, <3>3
  <2>8. \A i \in Insts : pos + 1 < i => level'[i] = IF i \in Reached THEN LV(i) ELSE Unset
    BY <2>2, <2>4, <2>5
  <2>9. pos + 1 \in pos + 1 .. pos + 1
    BY <1>2
  <2>10. pos + 1 \in Reached =>
           /\ \A j \in pos + 1 .. pos + 1 : level'[pos + 1] <= LV(j)
           /\ \E j \in pos + 1 .. pos + 1 : level'[pos + 1] = LV(j)
    BY <2>7, <2>9
  <2> QED
    BY <2>1, <2>3, <2>6, <2>8, <2>10, <1>1 DEF SweepLevels
<1>6. CASE MergeNext
  <2>1. /\ InSweep /\ pos' = pos + 1 /\ phase' = phase /\ phase = "groups"
        /\ ~Unreached /\ ~GroupEnds /\ UpdateLevels /\ Merge(Cur, Nxt)
        /\ stackLevel' = LevelAfter
    BY <1>6 DEF MergeNext, InSweep
  <2>2. /\ pos + 1 \in Insts /\ Cur \in Insts /\ Cur <= pos /\ Nxt = pos + 1 /\ pos \in Nat
        /\ Cur # pos + 1
    BY <2>1, SweepFacts
  <2>3. FallsThrough(pos)
    BY <2>1, <1>2, RunsOn
  <2>4. /\ Cur \in Reached /\ ~IsStackOp(pos) /\ level[Cur] \in Nat
        /\ \A j \in Cur .. pos : LV(j) \in Nat
        /\ Nxt \in Reached /\ LV(Nxt) \in Nat /\ LV(Nxt) = LevelAfter /\ level[Nxt] = LV(Nxt)
    BY <2>1, <2>3, <1>1, KnownLevels
  <2>5. /\ \A j \in Cur .. pos : level[Cur] <= LV(j)
        /\ \E j \in Cur .. pos : level[Cur] = LV(j)
    BY <2>1, <2>4, <1>1 DEF SweepLevels
  <2>6. level' = [level EXCEPT ![Cur] = LoweredLevel, ![Nxt] = @]
    BY <2>1, <2>4 DEF UpdateLevels
  <2>7. Cur' = Cur
    <3>1. addrMap' = [addrMap EXCEPT ![pos + 1] = Cur]
      BY <2>1, <1>1, MergeChanges
    <3> QED
      BY <3>1, <2>1, <2>2, <1>2 DEF Cur
  <2>8. level'[Cur] = IF LV(pos + 1) < level[Cur] THEN LV(pos + 1) ELSE level[Cur]
    <3>1. level'[Cur] = LoweredLevel
      BY <2>2, <2>6, <1>2
    <3>2. level[Nxt] = LV(pos + 1) /\ 0 <= level[Nxt]
      BY <2>2, <2>4
    <3> QED
      BY <3>1, <3>2 DEF LoweredLevel
  <2>9. /\ \A j \in Cur .. pos + 1 : level'[Cur] <= LV(j)
        /\ \E j \in Cur .. pos + 1 : level'[Cur] = LV(j)
    <3>1. Cur \in Nat /\ \A j \in Cur .. pos + 1 : j \in Cur .. pos \/ j = pos + 1
      BY <2>2, <1>2
    <3>2. \A j \in Cur .. pos : j \in Cur .. pos + 1
      BY <2>2
    <3>3. pos + 1 \in Cur .. pos + 1
      BY <2>2, <3>1
    <3> QED
      BY <3>1, <3>2, <3>3, <2>2, <2>4, <2>5, <2>8
  <2>10. \A i \in Insts : pos + 1 < i => level'[i] = level[i]
    BY <2>2, <2>6, <1>2
  <2>11. \A i \in Insts : pos + 1 < i => level[i] = IF i \in Reached THEN LV(i) ELSE Unset
    BY <2>1, <2>2, <1>1, <1>2 DEF SweepLevels
  <2> QED
    BY <2>1, <2>2, <2>4, <2>7, <2>9, <2>10, <2>11, <1>1 DEF SweepLevels
<1>7. CASE SweepDone
  BY <1>7 DEF SweepDone, SweepLevels
<1>8. CASE UNCHANGED groupingVars
  <2>1. UNCHANGED <<phase, level, pos, stackLevel, addrMap>>
    BY <1>8 DEF groupingVars, levelVars, sweepVars, graphVars
  <2> QED
    BY <2>1, <1>1 DEF SweepLevels, Cur
<1> QED
  BY <1>3, <1>4, <1>5, <1>6, <1>7, <1>8 DEF GroupingNext

(***************************************************************************)
(* What GroupsAreStatements says of one instruction; the sweep decides it  *)
(* at pos and never changes it.                                            *)
(***************************************************************************)
Settled(i) ==
  IF i = gend[addrMap[i]]
  THEN Balanced(PathLevels, i) \/ Cardinality({e \in FlowEdges : e[2] = i + 1}) # 1
  ELSE Balanced(PathLevels, i) => IsCondJump(i + 1) \/ LeadOnlyPops(i)

StatementsSettled ==
  StatementProgram(PathLevels) =>
    /\ phase = "grouped" => pos = Size
    /\ phase \in {"groups", "grouped"} =>
         \A i \in StatementPoints(PathLevels) : i < pos => Settled(i)

LEMMA PartsKept ==
  ASSUME prog' = prog, NEW i, addrMap'[i] = addrMap[i]
  PROVE  /\ Balanced(PathLevels, i)' <=> Balanced(PathLevels, i)
         /\ LeadOnlyPops(i)' <=> LeadOnlyPops(i)
         /\ IsCondJump(i + 1)' <=> IsCondJump(i + 1)
<1>1. Balanced(PathLevels, i)' <=> Balanced(PathLevels, i)
  BY StatementProgramKept DEF Balanced, LV
<1> QED
  BY <1>1 DEF LeadOnlyPops, IsCondJump, Change

LEMMA SettledKept ==
  ASSUME prog' = prog, NEW i, addrMap'[i] = addrMap[i],
         i = gend'[addrMap[i]] <=> i = gend[addrMap[i]]
  PROVE  Settled(i)' <=> Settled(i)
  BY PartsKept, FlowEdgesKept DEF Settled

LEMMA PointsKept ==
  ASSUME prog' = prog
  PROVE  StatementPoints(PathLevels)' = StatementPoints(PathLevels)
<1>1. PathLevels' = PathLevels
  BY PathsKept
<1>2. \A i : (FallsThrough(i)' <=> FallsThrough(i)) /\ (IsJump(i)' <=> IsJump(i))
  BY DEF FallsThrough, IsJump, IsCondJump, IsUncondJump, IsReturn, Functions, Insts, Size
<1> QED
  BY <1>1, <1>2 DEF StatementPoints

\* The vertices before the next instruction are the instructions before it.
LEMMA OneEdgeOnePredecessor ==
  ASSUME GroupingInv, FlowPreserved, FunctionsSeparate, InSweep, FallsThrough(pos),
         Cardinality({e \in FlowEdges : e[2] = pos + 1}) = 1
  PROVE  Cardinality(Predecessors(Nxt)) = 1
<1> DEFINE In == {e \in FlowEdges : e[2] = pos + 1}
<1>1. /\ pos \in Insts /\ pos + 1 \in Insts /\ Cur \in vertices /\ gend[Cur] = pos /\ Nxt = pos + 1
      /\ pos + 1 \in vertices /\ Insts = 1 .. Size /\ Size \in Nat
  BY SweepFacts
<1>2. FlowEdges \in SUBSET (Insts \X Insts) /\ IsFiniteSet(Insts)
  BY <1>1, FlowEdgesType, FS_Interval DEF GroupingInv, GroupingTypeOK, GraphTypeOK
<1>3. <<pos, pos + 1>> \in In
  BY <1>1 DEF FlowEdges
<1>4. IsFiniteSet(In)
  <2>1. IsFiniteSet(Insts \X Insts)
    BY <1>2, FS_Product
  <2> QED
    BY <2>1, <1>2, FS_Subset
<1>5. In = {<<pos, pos + 1>>}
  <2> HIDE DEF In
  <2>1. \E x : In = {x}
    BY <1>4, FS_Singleton DEF In
  <2> QED
    BY <2>1, <1>3
<1>6. edges = {<<addrMap[e[1]], e[2]>> :
                 e \in {f \in FlowEdges : f[1] = gend[addrMap[f[1]]]}}
  BY DEF FlowPreserved
<1>7. Predecessors(Nxt) = {Cur}
  <2>1. Cur \in Predecessors(Nxt)
    <3>1. <<pos, pos + 1>> \in {f \in FlowEdges : f[1] = gend[addrMap[f[1]]]}
      BY <1>1, <1>3 DEF Cur
    <3>2. <<addrMap[pos], pos + 1>> \in edges
      BY <3>1, <1>6
    <3> QED
      BY <3>2, <1>1 DEF Predecessors, Cur
  <2>2. ASSUME NEW u \in Predecessors(Nxt)
        PROVE  u = Cur
    <3>1. <<u, pos + 1>> \in edges
      BY <1>1 DEF Predecessors
    <3>2. PICK e \in FlowEdges : <<u, pos + 1>> = <<addrMap[e[1]], e[2]>>
      BY <3>1, <1>6
    <3>3. e \in In
      BY <3>2
    <3>4. e[1] = pos
      BY <3>3, <1>5
    <3> QED
      BY <3>2, <3>4 DEF Cur
  <2> QED
    BY <2>1, <2>2
<1> QED
  BY <1>7, FS_Singleton

\* The step that passes pos settles it.
LEMMA SettledAt ==
  ASSUME GroupingInv, FlowPreserved, LevelsReached, SweepLevels, StatementProgram(PathLevels),
         InSweep, SkipUnreachable \/ EndGroup \/ EndStatement \/ MergeNext,
         NEW i \in StatementPoints(PathLevels), i = pos
  PROVE  Settled(i)'
<1>1. /\ pos \in Insts /\ pos + 1 \in Insts /\ Cur \in Insts /\ Cur <= pos /\ pos \in Nat
      /\ gend[Cur] = pos /\ Nxt = pos + 1 /\ Cur # pos + 1 /\ pos # pos + 1
  BY SweepFacts
<1>2. /\ FunctionsSeparate /\ ~PureGrouping /\ FallsThrough(pos) /\ ~IsJump(pos)
      /\ pos \in Reached /\ prog' = prog
      /\ addrMap \in [Insts -> Insts] /\ gend \in [Insts -> Insts]
  BY ProgKept
    DEF StatementProgram, StatementPoints, Reached, GroupingInv, GroupingTypeOK, GraphTypeOK,
        GroupingNext
<1>3. ~IsReturn(pos) /\ ~IsUncondJump(pos)
  BY <1>2 DEF FallsThrough
<1>4. ~Unreached
  <2>1. Cur \in Reached
    <3>1. Cur \notin Reached => gend[Cur] = Cur
      BY <1>1 DEF LevelsReached
    <3> QED
      BY <3>1, <1>1, <1>2
  <2>2. \E j \in Cur .. pos : level[Cur] = LV(j)
    BY <2>1 DEF SweepLevels, InSweep
  <2>3. \A j \in Cur .. pos : LV(j) \in Nat
    <3>1. \A j \in Cur .. pos : addrMap[j] = Cur /\ j \in Insts
      BY <1>1, SweepFacts DEF GroupingInv, GroupsTile
    <3>2. \A j \in Cur .. pos : j \in Reached
      BY <2>1, <3>1 DEF LevelsReached
    <3> QED
      BY <3>2, LevelsUnique DEF StatementProgram, GroupingInv, GroupingTypeOK, GraphTypeOK
  <2> QED
    BY <2>2, <2>3 DEF Unreached
<1>5. /\ Cur \in Reached /\ ~IsStackOp(pos) /\ level[Cur] \in Nat
      /\ \A j \in Cur .. pos : LV(j) \in Nat
      /\ Nxt \in Reached /\ LV(Nxt) \in Nat /\ LV(Nxt) = LevelAfter /\ level[Nxt] = LV(Nxt)
  BY <1>2, <1>4, KnownLevels
<1>6. /\ \A j \in Cur .. pos : level[Cur] <= LV(j)
      /\ \E j \in Cur .. pos : level[Cur] = LV(j)
  BY <1>5 DEF SweepLevels, InSweep
<1>7. Balanced(PathLevels, pos) <=> LevelAfter = ExpectedLevel
  <2>1. ExpectedLevel = IF LV(Nxt) < level[Cur] THEN LV(Nxt) ELSE level[Cur]
    BY <1>5 DEF ExpectedLevel, LoweredLevel
  <2>2. Balanced(PathLevels, pos) <=> \A j \in Cur .. pos : LV(Nxt) <= LV(j)
    BY <1>1 DEF Balanced, LV, Cur
  <2> QED
    BY <2>1, <2>2, <1>5, <1>6
<1>8. CASE EndGroup \/ EndStatement
  <2>1. UNCHANGED <<addrMap, gend>>
    BY <1>8 DEF EndGroup, EndStatement, graphVars
  <2>2. pos = gend[addrMap[pos]]
    BY <1>1 DEF Cur
  <2>3. Balanced(PathLevels, pos) \/ Cardinality({e \in FlowEdges : e[2] = pos + 1}) # 1
    <3>1. CASE EndGroup
      <4>1. Cardinality(Predecessors(Nxt)) # 1
        BY <3>1, <1>2, <1>3 DEF EndGroup, GroupEnds
      <4> QED
        BY <4>1, <1>2, OneEdgeOnePredecessor
    <3>2. CASE EndStatement
      BY <3>2, <1>7 DEF EndStatement, StatementEnds
    <3> QED
      BY <3>1, <3>2, <1>8
  <2>4. Settled(pos)
    BY <2>2, <2>3 DEF Settled
  <2>5. addrMap'[i] = addrMap[i] /\ (i = gend'[addrMap[i]] <=> i = gend[addrMap[i]])
    BY <2>1
  <2>6. Settled(i) /\ i \in Insts
    BY <2>4, <1>1
  <2> QED
    BY <2>5, <2>6, <1>2, SettledKept
<1>9. CASE MergeNext
  <2>1. /\ gend' = [gend EXCEPT ![Cur] = pos + 1]
        /\ addrMap' = [addrMap EXCEPT ![pos + 1] = Cur]
    BY <1>9, MergeChanges DEF MergeNext
  <2>2. addrMap'[pos] = Cur /\ gend'[Cur] = pos + 1 /\ addrMap[pos] = Cur
    BY <2>1, <1>1, <1>2 DEF Cur
  <2>3. Balanced(PathLevels, pos) => ForceMerge \/ IsCondJump(pos + 1)
    BY <1>2, <1>7, <1>9 DEF MergeNext, StatementEnds
  <2>4. ForceMerge => LeadOnlyPops(pos)
    <3> SUFFICES ASSUME ForceMerge, NEW j \in Cur .. pos
                 PROVE  Change(j) < 0 \/ (j = pos /\ pos # Cur)
      BY <2>2 DEF LeadOnlyPops
    <3>1. \A k \in LoopRange(Cur) : Change(k) < 0
      BY DEF ForceMerge
    <3>2. CASE pos = Cur
      BY <3>1, <3>2, <1>1 DEF LoopRange
    <3>3. CASE pos # Cur
      BY <3>1, <3>3, <1>1 DEF LoopRange
    <3> QED
      BY <3>2, <3>3
  <2>5. /\ Balanced(PathLevels, i)' <=> Balanced(PathLevels, i)
        /\ LeadOnlyPops(i)' <=> LeadOnlyPops(i)
        /\ IsCondJump(i + 1)' <=> IsCondJump(i + 1)
    <3>1. addrMap'[i] = addrMap[i] /\ i \in Insts
      BY <2>2, <1>1
    <3> QED
      BY <3>1, <1>2, PartsKept
  <2>6. Balanced(PathLevels, i) => LeadOnlyPops(i) \/ IsCondJump(i + 1)
    BY <2>3, <2>4
  <2>7. i # gend'[addrMap'[i]]
    BY <2>2, <1>1
  <2> QED
    BY <2>5, <2>6, <2>7 DEF Settled
<1> QED
  BY <1>4, <1>8, <1>9 DEF SkipUnreachable

LEMMA SettledNext ==
  GroupingInv /\ FlowPreserved /\ LevelsReached /\ SweepLevels /\ StatementsSettled
    /\ [GroupingNext]_groupingVars => StatementsSettled'
<1> SUFFICES ASSUME GroupingInv, FlowPreserved, LevelsReached, SweepLevels, StatementsSettled,
                    [GroupingNext]_groupingVars, StatementProgram(PathLevels)'
             PROVE  StatementsSettled'
  BY DEF StatementsSettled
<1>1. /\ prog' = prog /\ Size' = Size /\ StatementProgram(PathLevels)
      /\ StatementPoints(PathLevels)' = StatementPoints(PathLevels)
  BY ProgKept, StatementProgramKept, PointsKept DEF Size
<1>2. /\ pos \in Insts /\ Insts = 1 .. Size /\ Size \in Nat
      /\ \A i \in StatementPoints(PathLevels) : i \in Insts /\ i + 1 \in Insts
  BY ProgramFacts, ReachedClosed
    DEF GroupingInv, GroupingTypeOK, GraphTypeOK, StatementPoints, FallsThrough, Reached
<1>3. CASE SkipUnreachable \/ EndGroup \/ EndStatement \/ MergeNext
  <2>1. InSweep /\ pos' = pos + 1 /\ phase' = "groups" /\ phase = "groups"
    BY <1>3 DEF SkipUnreachable, EndGroup, EndStatement, MergeNext, InSweep
  <2>2. ASSUME NEW i \in StatementPoints(PathLevels), i < pos + 1
        PROVE  Settled(i)'
    <3>1. CASE i = pos
      BY <3>1, <2>1, <1>1, <1>3, SettledAt
    <3>2. CASE i # pos
      <4>1. i < pos /\ Settled(i) /\ i # pos + 1 /\ i \in Insts
        BY <3>2, <2>1, <2>2, <1>1, <1>2 DEF StatementsSettled
      <4>2. CASE UNCHANGED graphVars
        <5>1. addrMap' = addrMap /\ gend' = gend
          BY <4>2 DEF graphVars
        <5> QED
          BY <4>1, <5>1, <1>1, SettledKept
      <4>3. CASE MergeNext
        <5>1. /\ gend' = [gend EXCEPT ![Cur] = pos + 1]
              /\ addrMap' = [addrMap EXCEPT ![pos + 1] = Cur]
          BY <4>3, MergeChanges DEF MergeNext
        <5>2. gend[Cur] = pos /\ gend \in [Insts -> Insts] /\ addrMap \in [Insts -> Insts]
          BY <2>1, SweepFacts DEF GroupingInv, GroupingTypeOK, GraphTypeOK
        <5>3. addrMap'[i] = addrMap[i] /\ (i = gend'[addrMap[i]] <=> i = gend[addrMap[i]])
          BY <4>1, <5>1, <5>2, <3>2
        <5> QED
          BY <4>1, <5>3, <1>1, SettledKept
      <4> QED
        BY <4>2, <4>3, <1>3 DEF SkipUnreachable, EndGroup, EndStatement
    <3> QED
      BY <3>1, <3>2
  <2> QED
    BY <2>1, <2>2, <1>1 DEF StatementsSettled
<1>4. CASE ~(SkipUnreachable \/ EndGroup \/ EndStatement \/ MergeNext)
  <2>1. UNCHANGED <<graphVars, pos>>
    BY <1>4 DEF GroupingNext, StartFunction, VisitVertex, RevisitVertex, LevelsAssigned,
      SweepDone, sweepVars, groupingVars
  <2>2. /\ phase' = "grouped" => pos = Size
        /\ phase' \in {"groups", "grouped"} =>
             \/ phase \in {"groups", "grouped"}
             \/ pos = 1
    BY <1>1, <1>4 DEF GroupingNext, StartFunction, VisitVertex, RevisitVertex, LevelsAssigned,
      SweepDone, groupingVars, StatementsSettled, GroupingInv, Frontier
  <2>3. \A i \in StatementPoints(PathLevels) : Settled(i)' <=> Settled(i)
    <3>1. addrMap' = addrMap /\ gend' = gend
      BY <2>1 DEF graphVars
    <3> QED
      BY <3>1, <1>1, SettledKept
  <2>4. \A i \in StatementPoints(PathLevels) : ~(i < 1)
    BY <1>2
  <2> QED
    BY <2>1, <2>2, <2>3, <2>4, <1>1 DEF StatementsSettled
<1> QED
  BY <1>3, <1>4

(***************************************************************************)
(* Groups are statements: in a program with consistent levels the sweep    *)
(* ends a group where the stack is back at the lowest level of the group,  *)
(* or for the control flow, and runs past such a point only if the         *)
(* instructions before it do nothing but pop or a conditional jump         *)
(* follows.                                                                *)
(***************************************************************************)
THEOREM GroupsStayStatements == GroupingSpec => []GroupsAreStatements
<1>1. GroupingInit => SweepLevels /\ StatementsSettled
  BY DEF GroupingInit, SweepLevels, StatementsSettled
<1>2. GroupingInv /\ StatementsSettled => GroupsAreStatements
  <2> SUFFICES ASSUME GroupingInv, StatementsSettled, phase = "grouped",
                      StatementProgram(PathLevels), NEW i \in StatementPoints(PathLevels)
               PROVE  Settled(i)
    BY DEF GroupsAreStatements, Settled
  <2>1. i + 1 \in Insts /\ i \in Insts /\ Insts = 1 .. Size /\ Size \in Nat
    BY ProgramFacts, ReachedClosed
      DEF GroupingInv, GroupingTypeOK, GraphTypeOK, StatementPoints, FallsThrough, Reached
  <2>2. i < pos
    BY <2>1 DEF StatementsSettled
  <2> QED
    BY <2>2 DEF StatementsSettled
<1> QED
  BY <1>1, <1>2, FoundInit, FoundNext, ReachedInit, ReachedNext, SweepLevelsNext, SettledNext,
    GroupingInvariant, GroupingPreservesFlow, PTL DEF GroupingSpec
=============================================================================
