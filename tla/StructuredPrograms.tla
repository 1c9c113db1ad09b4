------------------------- MODULE StructuredPrograms -------------------------
(***************************************************************************)
(* Structured programs: every nesting of if, if-else, while, do-while,     *)
(* break and continue up to a depth, compiled the way the test scripts     *)
(* (decompiler/test, .txt) are, together with the constructs the analysis  *)
(* has to find again and the lines the code generator has to print.        *)
(*                                                                         *)
(* A statement is <<"op">>, <<"break">>, <<"continue">>, <<"if", b>>,      *)
(* <<"ifelse", b, b>>, <<"while", b>> or <<"dowhile", b>>, where b is a    *)
(* sequence of statements; or a goto: <<"leave">> goes where a break of    *)
(* the loop around the innermost one would, <<"again">> where a continue   *)
(* of it would.                                                            *)
(***************************************************************************)
EXTENDS Integers, Sequences

Inst(kind, change, dest, type, brk, cont) ==
  [kind |-> kind, change |-> change, dest |-> dest,
   type |-> type, brk |-> brk, cont |-> cont]

Plain(kind, change) == <<Inst(kind, change, 0, "normal", 0, 0)>>
Cond(dest, type) == Plain("op", 1) \o <<Inst("cond", -1, dest, type, 0, 0)>>

RECURSIVE SizeOf(_), BlockSize(_)
SizeOf(s) ==
  CASE s[1] \in {"if", "dowhile"} -> 2 + BlockSize(s[2])
    [] s[1] = "while"             -> 3 + BlockSize(s[2])
    [] s[1] = "ifelse"            -> 3 + BlockSize(s[2]) + BlockSize(s[3])
    [] OTHER                      -> 1
BlockSize(b) == IF b = <<>> THEN 0 ELSE SizeOf(Head(b)) + BlockSize(Tail(b))

\* The code of s at position p; loop is the exit and the condition of the
\* innermost loop around it, outer those of the loop around that one.
RECURSIVE Code(_, _, _, _), BlockCode(_, _, _, _)
Code(s, p, loop, outer) ==
  LET after == p + SizeOf(s)
      Goto(dest, type) == <<Inst("jump", 0, dest, type, loop[1], loop[2])>>
  IN CASE s[1] = "op"       -> Plain("op", 0)
       [] s[1] = "break"    -> Goto(loop[1], "break")
       [] s[1] = "continue" -> Goto(loop[2], "continue")
       [] s[1] = "leave"    -> Goto(outer[1], "goto")
       [] s[1] = "again"    -> Goto(outer[2], "goto")
       [] s[1] = "if"       -> Cond(after, "if") \o BlockCode(s[2], p + 2, loop, outer)
       [] s[1] = "ifelse"   ->
            LET alt == p + 3 + BlockSize(s[2])
            IN Cond(alt, "if") \o BlockCode(s[2], p + 2, loop, outer)
                 \o Goto(after, "normal") \o BlockCode(s[3], alt, loop, outer)
       [] s[1] = "while"    ->
            Cond(after, "while") \o BlockCode(s[2], p + 2, <<after, p>>, loop) \o
              <<Inst("jump", 0, p, "normal", after, p)>>
       [] s[1] = "dowhile"  ->
            BlockCode(s[2], p, <<after, after - 2>>, loop) \o Cond(p, "dowhile")
BlockCode(b, p, loop, outer) ==
  IF b = <<>> THEN <<>>
  ELSE Code(Head(b), p, loop, outer) \o BlockCode(Tail(b), p + SizeOf(Head(b)), loop, outer)

\* The blocks of s that the analysis has to find the ends of, at position p: the
\* else blocks and the loops, with their first and last instruction.
RECURSIVE Extents(_, _), BlockExtents(_, _)
Extents(s, p) ==
  LET last == p + SizeOf(s) - 1
  IN CASE s[1] = "if"     -> BlockExtents(s[2], p + 2)
       [] s[1] = "while"  -> BlockExtents(s[2], p + 2) \cup {<<"loop", p, last>>}
       [] s[1] = "dowhile" -> BlockExtents(s[2], p) \cup {<<"loop", p, last>>}
       [] s[1] = "ifelse" ->
            LET alt == p + 3 + BlockSize(s[2])
            IN BlockExtents(s[2], p + 2) \cup BlockExtents(s[3], alt)
                 \cup {<<"else", alt, last>>}
       [] OTHER           -> {}
BlockExtents(b, p) ==
  IF b = <<>> THEN {}
  ELSE Extents(Head(b), p) \cup BlockExtents(Tail(b), p + SizeOf(Head(b)))

(***************************************************************************)
(* Whether control runs on behind s, and whether a continue in s goes on   *)
(* with the loop around it: what follows a statement that does not run on  *)
(* is dead code.                                                           *)
(***************************************************************************)
Jumps == {"break", "continue", "leave", "again"}

RECURSIVE RunsOn(_), GoesOn(_)
BlockRunsOn(b) == \A k \in DOMAIN b : RunsOn(b[k])
RunsOn(s) ==
  CASE s[1] \in Jumps     -> FALSE
    [] s[1] = "ifelse"    -> BlockRunsOn(s[2]) \/ BlockRunsOn(s[3])
    [] OTHER              -> TRUE

BlockGoesOn(b) == \E k \in DOMAIN b : GoesOn(b[k]) /\ BlockRunsOn(SubSeq(b, 1, k - 1))
GoesOn(s) ==
  CASE s[1] = "continue" -> TRUE
    [] s[1] = "if"       -> BlockGoesOn(s[2])
    [] s[1] = "ifelse"   -> BlockGoesOn(s[2]) \/ BlockGoesOn(s[3])
    [] OTHER             -> FALSE

\* Some statement follows one that does not run on, or the condition of some
\* do-while is never reached.
RECURSIVE DeadCode(_)
DeadCode(b) ==
  \/ ~BlockRunsOn(SubSeq(b, 1, Len(b) - 1))
  \/ \E k \in DOMAIN b :
       \/ b[k][1] = "dowhile" /\ ~BlockRunsOn(b[k][2]) /\ ~BlockGoesOn(b[k][2])
       \/ \E j \in DOMAIN b[k] \ {1} : DeadCode(b[k][j])

(***************************************************************************)
(* The lines the generator has to print for s.  An if-else that comes last *)
(* in the body of a do-while needs no else: its first part ends with a     *)
(* continue.  An else that is nothing but an if becomes an else-if.        *)
(***************************************************************************)
RECURSIVE Lines(_, _, _), BlockLines(_, _, _)
Lines(s, p, cont) ==
  CASE s[1] \in {"break", "continue"} -> <<s[1]>>
    [] s[1] \in {"leave", "again"} -> <<"goto">>
    [] s[1] = "op"      -> <<"stmt">>
    [] s[1] = "if"      -> <<"if">> \o BlockLines(s[2], p + 2, cont) \o <<"end">>
    [] s[1] = "while"   -> <<"while">> \o BlockLines(s[2], p + 2, p) \o <<"end">>
    [] s[1] = "dowhile" ->
         <<"do">> \o BlockLines(s[2], p, p + BlockSize(s[2])) \o <<"dowhile">>
    [] s[1] = "ifelse"  ->
         LET alt   == p + 3 + BlockSize(s[2])
             first == <<"if">> \o BlockLines(s[2], p + 2, cont)
         IN CASE p + SizeOf(s) = cont ->
                   first \o (IF BlockRunsOn(s[2]) THEN <<"continue">> ELSE <<>>)
                         \o <<"end">> \o BlockLines(s[3], alt, cont)
              [] Len(s[3]) = 1 /\ s[3][1][1] = "if" ->
                   first \o <<"elseif">> \o BlockLines(s[3][1][2], alt + 2, cont) \o <<"end">>
              [] OTHER ->
                   first \o <<"else">> \o BlockLines(s[3], alt, cont) \o <<"end">>
BlockLines(b, p, cont) ==
  IF b = <<>> THEN <<>>
  ELSE Lines(Head(b), p, cont) \o BlockLines(Tail(b), p + SizeOf(Head(b)), cont)

(***************************************************************************)
(* A jump from before a loop to what follows the loop, or to its condition *)
(* if it is a while: the end of an if-else before a loop, or of an else a  *)
(* loop comes last in; a continue of a do-while whose body ends with a     *)
(* loop.  The analysis takes it for a break or a continue of the loop.     *)
(***************************************************************************)
SkipsLoop(p, i) ==
  p.code[i].kind = "jump" /\ \E l \in p.loops : i < l[1] /\ p.code[i].dest = l[2] + 1

MeetsLoop(p, i) ==
  p.code[i].kind = "jump" /\ \E l \in p.loops :
    i < l[1] /\ p.code[i].dest = l[1] /\ p.types[l[1] + 1] = "while"

\* A goto out of a loop and the loop of the other kind around it.
IsDoWhile(p, l) == p.types[l[2]] = "dowhile"
LeavesOtherLoop(p, i) ==
  p.types[i] = "goto" /\ \E l, m \in p.loops :
    /\ m[1] <= l[1] /\ l[2] < m[2]
    /\ l[1] <= i /\ i <= l[2]
    /\ IsDoWhile(p, l) # IsDoWhile(p, m)

HasGoto(p) == \E i \in DOMAIN p.code : p.types[i] = "goto"

ProgramOf(b) ==
  LET code == BlockCode(b, 1, <<0, 0>>, <<0, 0>>) \o Plain("return", 0)
  IN [code  |-> [i \in DOMAIN code |->
                   [kind |-> code[i].kind, change |-> code[i].change, dest |-> code[i].dest]],
      funcs |-> {},
      prints |-> {i \in DOMAIN code : code[i].kind \in {"op", "return"} /\ code[i].change = 0},
      pops |-> [i \in DOMAIN code |-> 0],
      lines |-> BlockLines(b, 1, 0) \o <<"stmt">>,
      dead |-> DeadCode(b),
      types |-> [i \in DOMAIN code |-> code[i].type],
      brk   |-> [i \in DOMAIN code |-> code[i].brk],
      cont  |-> [i \in DOMAIN code |-> code[i].cont],
      elses |-> {<<e[2], e[3]>> : e \in {x \in BlockExtents(b, 1) : x[1] = "else"}},
      loops |-> {<<e[2], e[3]>> : e \in {x \in BlockExtents(b, 1) : x[1] = "loop"}}]

----------------------------------------------------------------------------
Simple(inLoop) ==
  {<<"op">>} \cup (IF inLoop THEN {<<"break">>, <<"continue">>} ELSE {})

\* Blocks of one statement, or of a plain one before or after another.
BlocksOf(stmts) ==
  {<<s>> : s \in stmts} \cup {<<<<"op">>, s>> : s \in stmts}
    \cup {<<s, <<"op">>>> : s \in {t \in stmts : t[1] \notin Jumps}}

RECURSIVE Stmts(_, _)
Stmts(depth, inLoop) ==
  IF depth = 0 THEN Simple(inLoop)
  ELSE LET inner == BlocksOf(Stmts(depth - 1, inLoop))
           plain == {<<s>> : s \in Simple(inLoop)}
           body  == BlocksOf(Stmts(depth - 1, TRUE))
       IN Simple(inLoop)
            \cup {<<"if", b>> : b \in inner}
            \cup {<<"ifelse", b, c>> : b \in inner, c \in plain}
            \cup {<<"ifelse", c, b>> : b \in inner, c \in plain}
            \cup {<<"while", b>> : b \in body}
            \cup {<<"dowhile", b>> : b \in body}

ShallowBlocks == BlocksOf(Stmts(2, FALSE))
AdjacentBlocks == {<<s, t>> : s \in Stmts(1, FALSE), t \in Stmts(1, FALSE)}
LoopBlocks ==
  {<<<<loop, <<s, t>>>>>> :
     loop \in {"while", "dowhile"},
     s \in {u \in Stmts(1, TRUE) : RunsOn(u)}, t \in Stmts(1, TRUE)}
\* Gotos out of two loops, followed by something in the outer loop or not.
GotoBlocks ==
  {<<<<outer, <<<<inner, b>>>> \o rest>>>> :
     outer \in {"while", "dowhile"}, inner \in {"while", "dowhile"},
     b \in BlocksOf({<<"if", <<<<jump>>>>>> : jump \in {"leave", "again"}}
                     \cup {<<"ifelse", <<<<jump>>>>, <<<<"op">>>>>> : jump \in {"leave", "again"}}),
     rest \in {<<>>, <<<<"op">>>>}}
DeepBlocks ==
  {<<<<"if", <<s>>>>>> : s \in Stmts(2, FALSE)} \cup
  {<<<<"ifelse", <<s>>, <<<<"op">>>>>>>> : s \in Stmts(2, FALSE)} \cup
  {<<<<"ifelse", <<<<"op">>>>, <<s>>>>>> : s \in Stmts(2, FALSE)} \cup
  {<<<<loop, <<s>>>>>> : loop \in {"while", "dowhile"}, s \in Stmts(2, TRUE)}

AdjacentPrograms == {ProgramOf(b) : b \in AdjacentBlocks}
NestedPrograms ==
  {ProgramOf(b) :
     b \in ShallowBlocks \cup DeepBlocks \cup AdjacentBlocks \cup LoopBlocks \cup GotoBlocks}
=============================================================================
