--------------------------- MODULE MCControlFlow ---------------------------
(***************************************************************************)
(* Arbitrary control flow for ControlFlow: no structure is assumed, jumps  *)
(* go anywhere.  Nothing here touches the stack.                           *)
(***************************************************************************)
EXTENDS ControlFlow

Inst(kind, dest) == [kind |-> kind, change |-> 0, dest |-> dest]

\* Every program of n instructions; n + 1 is an address without an instruction.
AllPrograms(n) ==
  [code : [1 .. n -> {Inst("op", 0), Inst("return", 0)} \cup
                     {Inst(k, d) : k \in {"cond", "jump"}, d \in 1 .. n + 1}],
   funcs : {{}}]

\* Every program of n instructions whose jumps go forward, to the instruction
\* that far ahead at the least.
ForwardPrograms(n, ahead) ==
  LET codes[k \in 0 .. n] ==
        IF k = 0 THEN {<<>>}
        ELSE {Append(code, inst) :
                code \in codes[k - 1],
                inst \in {Inst("op", 0)} \cup
                         {Inst(kind, d) : kind \in {"cond", "jump"}, d \in k + ahead .. n}}
  IN [code : codes[n], funcs : {{}}]

CrossingPrograms == ForwardPrograms(7, 2)
SmallPrograms ==
  UNION {AllPrograms(n) : n \in 1 .. 3} \cup ForwardPrograms(5, 1) \cup CrossingPrograms
=============================================================================
