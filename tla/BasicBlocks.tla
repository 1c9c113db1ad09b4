---------------------------- MODULE BasicBlocks ----------------------------
(***************************************************************************)
(* What grouping promises, without levels, sweeps or links: the            *)
(* instructions are partitioned into blocks, and the only thing that may   *)
(* ever happen to the partition is that a block is joined with the block   *)
(* that must follow it and that nothing else can reach.                    *)
(***************************************************************************)
EXTENDS Integers, FiniteSetsExt

VARIABLES
  insts,    \* the instructions of the program
  flow,     \* pairs of an instruction and one that may be executed next
  blocks    \* the partition

Init ==
  /\ flow \in SUBSET (insts \X insts)
  /\ blocks = {{i} : i \in insts}

Exits(b)   == {e \in flow : e[1] = Max(b)}
Entries(c) == {e \in flow : e[2] = Min(c)}

Joinable(b, c) ==
  /\ Min(c) = Max(b) + 1
  /\ Exits(b) = {<<Max(b), Min(c)>>}
  /\ Entries(c) = Exits(b)

Join(b, c) ==
  /\ Joinable(b, c)
  /\ blocks' = (blocks \ {b, c}) \cup {b \cup c}
  /\ UNCHANGED <<insts, flow>>

Next == \E b, c \in blocks : Join(b, c)

Spec == Init /\ [][Next]_<<insts, flow, blocks>>

=============================================================================
