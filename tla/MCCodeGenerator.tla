--------------------------- MODULE MCCodeGenerator --------------------------
(***************************************************************************)
(* Arbitrary control flow for CodeGenerator.  A program is a sequence of   *)
(* slots of two instructions: a slot does something, tests a value it has  *)
(* pushed and branches, jumps, or returns.  Jumps go to any slot.          *)
(***************************************************************************)
EXTENDS CodeGenerator

Inst(kind, change, dest) == [kind |-> kind, change |-> change, dest |-> dest]
SlotStart(d) == 2 * d - 1

Op          == <<Inst("op", 0, 0), Inst("op", 0, 0)>>
Return      == <<Inst("op", 0, 0), Inst("return", 0, 0)>>
JumpTo(d)   == <<Inst("op", 0, 0), Inst("jump", 0, SlotStart(d))>>
Pop         == <<Inst("op", 0, 0), Inst("op", -1, 0)>>
Binary      == <<Inst("op", 1, 0), Inst("op", -1, 0)>>
BranchTo(d) == <<Inst("op", 1, 0), Inst("cond", -1, SlotStart(d))>>

\* The code of n slots, each from the set the function gives it, and a return.
Codes(n, Slots(_)) ==
  LET codes[k \in 0 .. n] ==
        IF k = 0 THEN {<<>>}
        ELSE {c \o slot : c \in codes[k - 1], slot \in Slots(k)}
  IN {c \o Return : c \in codes[n]}

\* What lowers the stack behind a push is a binary operation on two values.
PopsOf(c, i) ==
  IF c[i].kind # "op" \/ c[i].change >= 0 THEN 0
  ELSE IF c[i - 1].change = 1 THEN 2 ELSE 1

ProgramOf(c, entries) ==
  [code |-> c, funcs |-> entries,
   pops |-> [i \in DOMAIN c |-> PopsOf(c, i)],
   prints |-> {i \in DOMAIN c : c[i].kind \in {"op", "return"} /\ c[i].change = 0}]

\* Every program of n slots, jumps going to any slot or forward.
Anywhere(n) ==
  {Op, Return} \cup {JumpTo(d) : d \in 1 .. n} \cup {BranchTo(d) : d \in 1 .. n}
Ahead(k, n) ==
  {Op} \cup {JumpTo(d) : d \in k + 1 .. n} \cup {BranchTo(d) : d \in k + 1 .. n}

AnyFlow == {ProgramOf(c, {}) : c \in Codes(3, LAMBDA k : Anywhere(4))}
ForwardFlow == {ProgramOf(c, {}) : c \in Codes(4, LAMBDA k : Ahead(k, 5))}

\* A function of two slots before another, and any jumps between them.
TwoFunctions ==
  {ProgramOf(c, {1, SlotStart(3)}) :
     c \in Codes(3, LAMBDA k : IF k = 2 THEN {Return, JumpTo(1), JumpTo(3)} ELSE Anywhere(4))}

\* Values popped that have not been pushed.
Unbalanced ==
  {ProgramOf(c, {}) :
     c \in Codes(2, LAMBDA k : {Op, Pop, Binary, BranchTo(1), BranchTo(3)})}

\* A loop behind two branches one of which leaves a value on the stack: the
\* level of the second branch may be -1, which is that of unreachable code.
Unsteady ==
  {ProgramOf(BranchTo(3) \o JumpTo(4) \o <<Inst("op", 1, 0), Inst("op", 0, 0)>> \o
             <<Inst("op", -1, 0), Inst("op", 0, 0), Inst("op", 1, 0), Inst("cond", -1, 8)>> \o
             Return, {})}

SmallPrograms == AnyFlow \cup ForwardFlow \cup TwoFunctions \cup Unbalanced \cup Unsteady
=============================================================================
