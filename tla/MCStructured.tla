---------------------------- MODULE MCStructured ----------------------------
(***************************************************************************)
(* Structured programs for the whole decompiler behind the disassembler:   *)
(* what analyze recovers of them and what the generator prints.            *)
(***************************************************************************)
EXTENDS CodeGenerator, StructuredPrograms

Done == pass = "done"
TypeAt(i) == gtype[addrMap[i]]

(***************************************************************************)
(* The round trip: every condition is recovered as what it was in the      *)
(* source, and no other group is taken for a condition.                    *)
(***************************************************************************)
ConditionsRecovered ==
  Done =>
    /\ \A i \in Insts : IsCondJump(i) => TypeAt(i) = prog.types[i]
    /\ \A v \in vertices : gtype[v] \in Conditions => IsCondJump(gend[v])

(***************************************************************************)
(* cfg.tex: "the jump is verified to go to the appropriate loop".  A jump  *)
(* that is reported as a break leaves the innermost loop around it, and    *)
(* one reported as a continue goes on with it.                             *)
(***************************************************************************)
LoopJumpsInLoop ==
  Done =>
    \A i \in Insts : IsUncondJump(i) =>
      /\ TypeAt(i) = "break" => Dest(i) = prog.brk[i]
      /\ TypeAt(i) = "continue" => Dest(i) = prog.cont[i]

(***************************************************************************)
(* The same, as far as the code goes: a jump that is taken for a break or  *)
(* a continue of a loop other than the innermost around it comes from      *)
(* before that loop, or out of a loop of the other kind in it.  A goto out *)
(* of two loops of one kind stays a goto.                                  *)
(***************************************************************************)
LoopJumpsSound ==
  Done =>
    \A i \in Insts : IsUncondJump(i) =>
      /\ TypeAt(i) = "break" =>
           Dest(i) = prog.brk[i] \/ SkipsLoop(prog, i) \/ LeavesOtherLoop(prog, i)
      /\ TypeAt(i) = "continue" =>
           Dest(i) = prog.cont[i] \/ MeetsLoop(prog, i) \/ LeavesOtherLoop(prog, i)

\* Every other break and continue of the source is recovered as what it is.
LoopJumpsRecovered ==
  Done =>
    \A i \in Insts : prog.types[i] \in {"break", "continue"} =>
      TypeAt(i) = prog.types[i] \/ SkipsLoop(prog, i)

(***************************************************************************)
(* The else blocks found are those of the source, from the first to the    *)
(* last group, but for an else whose skipping jump goes on with, or        *)
(* leaves, a loop: that jump is a continue or a break and needs no else.   *)
(* A goto that comes last in an if is not told from such a jump.           *)
(***************************************************************************)
ElsesRecovered ==
  Done /\ ~HasGoto(prog) =>
    LET elses == {e \in prog.elses : TypeAt(e[1] - 1) = "normal"}
    IN /\ startElse = {addrMap[e[1]] : e \in elses}
       /\ \A v \in vertices :
            endElse[v] = {addrMap[e[1]] : e \in {x \in elses : addrMap[x[2]] = v}}

(***************************************************************************)
(* The round trip: of a structured program the lines printed are those of  *)
(* its source, in the order and the nesting of the source; unless a jump   *)
(* from before a loop is taken for one in it, or code of it is dead.       *)
(***************************************************************************)
SourceRecovered ==
  gen = "done" =>
    \/ prog.dead
    \/ HasGoto(prog)
    \/ \E i \in Insts : SkipsLoop(prog, i) \/ MeetsLoop(prog, i)
    \/ output = prog.lines

=============================================================================
