----------------------------- MODULE MCGrouping -----------------------------
(***************************************************************************)
(* Small programs for Grouping: every instruction sequence up to a length  *)
(* over a few instructions of each kind.                                   *)
(***************************************************************************)
EXTENDS Grouping

Op(c) == [kind |-> "op", change |-> c, dest |-> 0]
Pop == [kind |-> "stackop", change |-> -1, dest |-> 0]
Ret == [kind |-> "return", change |-> 0, dest |-> 0]
CondTo(c, d) == [kind |-> "cond", change |-> c, dest |-> d]
JumpTo(d) == [kind |-> "jump", change |-> 0, dest |-> d]

Jumps(n) == {JumpTo(d) : d \in 1 .. n} \cup {CondTo(-1, d) : d \in 1 .. n}
Ops == {Op(c) : c \in -1 .. 1}

\* Every program of n instructions, for the given sets of functions.
AllPrograms(n, FuncSets) ==
  [code : [1 .. n -> Ops \cup {Pop, Ret} \cup Jumps(n)], funcs : FuncSets]

\* One function from the first instruction on.
SingleFunction == UNION {AllPrograms(n, {{}}) : n \in 1 .. 4}

\* Any set of entry points, each of them the first instruction or preceded by
\* an instruction that never runs on.
SeparateFunctions ==
  {p \in UNION {AllPrograms(n, SUBSET (1 .. n)) : n \in 1 .. 3} :
     \A f \in p.funcs \ {1} : p.code[f - 1].kind \in {"jump", "return"}}

\* Statements of a stack machine with conditional jumps to two places.
Statements ==
  [code : [1 .. 6 -> Ops \cup {CondTo(-1, d) : d \in {2, 6}}], funcs : {{}}]

SmallPrograms == SingleFunction \cup SeparateFunctions \cup Statements
=============================================================================
