---------------------------- MODULE WorldOpcodes ----------------------------
(***************************************************************************)
(* The opcodes of the world map scripts of Final Fantasy VII               *)
(* (decompiler/ff7_world/ff7_world_disassembler.cpp) and what their        *)
(* instructions do with the stack (ff7_world_engine.cpp).  An opcode is    *)
(* its number.                                                             *)
(***************************************************************************)
EXTENDS SimpleDisassembler

WorldOpcode(class, change, params) ==
  [class |-> class, change |-> change, params |-> params, data |-> <<>>, sub |-> FALSE]

StackOpcodes ==
  Each({\h100}, WorldOpcode("NoOutput", 0, <<>>))
  ++ Each({\h201}, WorldOpcode("CondJump", 0, <<"w">>))
  ++ Each({\h200}, WorldOpcode("Jump", 0, <<"w">>))
  ++ Each({\h110, \h11f}, WorldOpcode("Push", 2, <<"w">>))
  ++ Each({\h118, \h119, \h11c, \h114, \h11b, \h117}, WorldOpcode("PushBank", 2, <<"w">>))
  ++ Each({\h0e0}, WorldOpcode("WriteBank", 0, <<>>))
  ++ Each({\h061, \h0b0, \h062, \h030, \h051, \h080, \h0a0, \h041, \h063, \h017, \h060, \h0c0,
           \h040, \h015}, WorldOpcode("Sub", 2, <<>>))
  ++ Each({\h070}, WorldOpcode("Equal", 2, <<>>))

\* Functions of the script file are called by numbers from 204 to 2ff.
WorldCalls ==
  Each({\h203} \cup \h204 .. \h2ff
       \cup {\h320, \h34a, \h334, \h33a, \h31c, \h32f, \h339, \h30d, \h354, \h332, \h31f, \h329,
             \h32a, \h34d, \h34e, \h30a, \h333, \h331, \h319, \h353, \h33e, \h321, \h336, \h328,
             \h33d, \h351, \h352, \h34f, \h30b, \h347, \h30e, \h305, \h306, \h307, \h303, \h32c,
             \h32d, \h324, \h325, \h32e, \h32b, \h326, \h327, \h318, \h33b, \h348, \h330, \h350,
             \h34b, \h34c, \h349, \h300, \h302, \h30c, \h308, \h309, \h304, \h310, \h311, \h312,
             \h313, \h314, \h315, \h316, \h317},
       WorldOpcode("Kernel", 0, <<>>))
  ++ Each({\h019, \h018}, WorldOpcode("Kernel", 2, <<>>))
  ++ Each({\h31d}, WorldOpcode("Kernel", 2, <<"w">>))

WorldOpcodeTable == StackOpcodes ++ WorldCalls

\* The operators of FF7SubStackInstruction, as it prints them.
SubOperators ==
  \h041 :> "-" @@ \h040 :> "+" @@ \h080 :> "&&" @@ \h0a0 :> "||" @@ \h0c0 :> "|" @@ \h030 :> "*"
  @@ \h060 :> "<" @@ \h061 :> ">" @@ \h062 :> "<=" @@ \h063 :> ">=" @@ \h0b0 :> "&"
  @@ \h051 :> "<<"
NegateOpcodes == {\h015, \h017}

\* The values FF7WorldKernelCallInstruction pops; an unknown function has none.
KernelPops(op) ==
  CASE op = \h324 -> 4
    [] op \in {\h333, \h308, \h309, \h32c, \h318, \h348, \h33b, \h310, \h311, \h312} -> 2
    [] op \in {\h317, \h325, \h31d, \h328, \h336, \h303, \h304, \h32b, \h305, \h33e, \h350, \h34b,
               \h34c, \h349, \h300, \h307} -> 1
    [] OTHER -> 0

\* The functions that ask stoi for the number their operand begins with, which throws
\* if there is none; LoadModel (300) catches that.
NumberCalls == {\h34b, \h34c, \h349}
=============================================================================
