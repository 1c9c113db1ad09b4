----------------------------- MODULE MCStackCode ----------------------------
(***************************************************************************)
(* Scripts for StackCode: every opcode of both engines, every expression   *)
(* of up to three operands and two operators, calls with lists, strings    *)
(* with escapes and jumps over them, and every kind of block.              *)
(***************************************************************************)
EXTENDS StackCode, TLC

Inst(op) == [op |-> op, val |-> 0, to |-> 1, string |-> <<>>]
Const(n) == [Inst("pushByte") EXCEPT !.val = n]
Var == Inst("pushWordVar")
To(op, k) == [Inst(op) EXCEPT !.to = k]
Text(op, items) == [Inst(op) EXCEPT !.string = items]
Times(inst, n) == [i \in 1 .. n |-> inst]

Scumm(block, verbs, code) ==
  [engine |-> "scumm", block |-> block, verbs |-> verbs, entry |-> 0, behind |-> FALSE,
   code |-> code, elsewhere |-> <<>>, tail |-> <<>>]
Global(code) == Scumm("SCRP", 0, code)
-----------------------------------------------------------------------------
\* Each opcode behind enough values, of which the upper ones are lengths of lists; a
\* jump leads to the end.
EachScumm ==
  {Global(Times(Const(4), 3) \o Times(Const(below), 3) \o <<To(op, 7)>>
          \o <<Inst("breakHere")>>) : op \in DOMAIN ScummOpcodeTable, below \in {0, 1}}
  \cup {Global(Times(Var, n) \o <<To(op, n + 2)>>) :
          op \in DOMAIN ScummOpcodeTable, n \in {0, 2, 5}}

\* The lengths of lists, before, behind and in a computed value, and as one.
Lists ==
  {Global(Times(Var, n) \o <<Const(k)>> \o rest) :
     n \in 0 .. 4, k \in 0 .. 3,
     rest \in {<<Inst("startScriptQuick")>>, <<Inst("startScript")>>,
               <<Var, Inst("setBoxFlags")>>, <<Var, Var, Inst("add"), Inst("setBoxFlags")>>,
               <<Var, Inst("wordArrayRead"), Inst("setBoxFlags")>>,
               <<Inst("isAnyOf"), Inst("pop")>>, <<Inst("isAnyOf"), Inst("writeWordVar")>>,
               <<Const(1), Inst("add"), Inst("isAnyOf")>>,
               <<Inst("dup"), Inst("beginCutscene")>>,
               <<Const(0), Inst("arrayOps.assignIntList")>>,
               <<Const(0), Inst("arrayOps.assign2DimList")>>,
               <<Var, Inst("pickOneOfDefault")>>, <<Inst("pickVarRandom"), Inst("dup"),
                 Inst("dup"), Inst("add"), Inst("eq")>>,
               <<Inst("getRandomNumber"), Inst("beginCutscene")>>,
               <<Text("talkEgo", <<"c">>), Inst("beginCutscene")>>,
               <<Inst("jump"), Inst("beginCutscene")>>}}
  \cup {Global(<<Var, Var, [Inst("pushWord") EXCEPT !.val = n], Inst("beginCutscene")>>) :
          n \in {-32768, -5000, -1, 1, 2, 5000, 32767}}
-----------------------------------------------------------------------------
\* Expressions of up to three operands, in the order of the stack, with nots in them.
BinaryOps == {"eq", "gt", "le", "add", "mul", "sub", "land", "band"}
Nots == {<<>>, <<Inst("not")>>}
Expressions ==
  {<<Var, Const(2)>> \o n1 \o <<Inst(o1)>> \o n2 \o <<Var, Inst(o2)>> \o n3 :
     n1 \in Nots, n2 \in Nots, n3 \in Nots, o1 \in BinaryOps, o2 \in BinaryOps}
  \cup {<<Var, Var, Const(2)>> \o n1 \o <<Inst(o1)>> \o n2 \o <<Inst(o2)>> \o n3 :
          n1 \in Nots, n2 \in Nots, n3 \in Nots, o1 \in BinaryOps, o2 \in BinaryOps}
  \cup {<<Var, Const(2), Inst(o1), Var, Var, Inst(o2), Inst("lor")>> :
          o1 \in DOMAIN OperatorOpcodes \ {"dup", "not", "pop"},
          o2 \in DOMAIN OperatorOpcodes \ {"dup", "not", "pop"}}
Uses == {<<Inst("writeByteVar")>>, <<Inst("dup"), To("jumpFalse", 1)>>, <<To("jumpTrue", 1)>>}
Computing == {Global(e \o u) : e \in Expressions, u \in Uses}
-----------------------------------------------------------------------------
\* Jumps over a string with one or two characters or escapes, forward and back, in every
\* kind of block; and what takes the position off the instructions.
Strings == {<<>>} \cup {<<a>> : a \in Escapes \cup {"c"}}
           \cup {<<a, b>> : a \in {"c", "newline", "setfont"}, b \in Escapes \cup {"c"}}
Blocks == {<<"SCRP", 0>>, <<"LSCR", 0>>, <<"ENCD", 0>>, <<"EXCD", 0>>, <<"VERB", 0>>,
           <<"VERB", 2>>, <<"NAME", 0>>}
Jumping ==
  {Scumm(b[1], b[2], <<To("jump", 3), Text(op, s), Var, To("jumpTrue", 2), Inst("breakHere"),
                       To("jump", 5)>>) :
     b \in Blocks, s \in Strings, op \in {"talkEgo", "actorOps.setName"}}
  \cup {Global(<<Const(0), Text("arrayOps.assignString", s), To("jump", 1)>>) : s \in Strings}
  \cup {Global(<<Inst("breakHere"), Inst("unknown")>>), Global(<<>>)}

\* Overrides, which lead back into the header; what is read there leads to the code again
\* (kernelGetFunctions), behind its override (pushWord), or nowhere.
Elsewhere(inst) == [op |-> inst.op, val |-> inst.val, string |-> inst.string, target |-> 0]
Header(last, number) ==
  3 :> Elsewhere(Inst(last)) @@ 5 :> Elsewhere(Const(0)) @@ 7 :> Elsewhere(Inst("dup"))
    @@ 8 :> Elsewhere(Inst(number))
OverrideCode == <<Inst("breakHere"), Inst("beginOverride"), To("jump", 4), Inst("endOverride")>>
Overriding ==
  {Scumm(b, 0, OverrideCode) : b \in KnownBlocks}
  \cup {[Scumm("LSCR", 0, OverrideCode) EXCEPT !.elsewhere = Header("byteArrayInc", number)] :
          number \in {"kernelGetFunctions", "pushByte", "pushWord", "talkEgo"}}
  \cup {[Scumm("VERB", 0, OverrideCode) EXCEPT !.elsewhere = Header("writeByteVar", "pushByte")]}

\* Sounds, behind which the string is read from byte 14: to a zero inside the string, to
\* the zero at its end, to a later one, over the end of the file, or for ever.
Sounding ==
  {[Global(<<Text("talkEgo", s), Var, To("jumpTrue", 4), Inst("breakHere")>>)
      EXCEPT !.tail = t, !.elsewhere = 15 :> Elsewhere(Inst("breakHere"))] :
     s \in {<<"sound">>, <<"c", "sound", "c">>, <<"newline", "sound", "sound">>},
     t \in {<<>>, Times("c", 11), Times("c", 13), Times("c", 16), Times("c", 40), <<"sound">>}}
-----------------------------------------------------------------------------
World(entry, behind, code) ==
  [engine |-> "world", block |-> "", verbs |-> 0, entry |-> entry, behind |-> behind,
   code |-> code, elsewhere |-> <<>>, tail |-> <<>>]
Load(n) == [Inst(\h110) EXCEPT !.val = n]
Bank == Inst(\h118)
Return == Inst(\h203)

\* Each opcode behind enough values, numbers or not, and a return.
EachWorld ==
  {World(0, TRUE, Times(v, n) \o <<To(op, 1), Return>>) :
     op \in DOMAIN WorldOpcodeTable, v \in {Load(2), Bank}, n \in {0, 4}}

\* Expressions, written to a bank, tested and given to a function.
WorldExpressions ==
  {World(3, TRUE, <<Inst(\h100), Bank, Bank, Load(1), Inst(o1)>> \o n \o <<Load(2), Inst(o2)>>
                  \o use \o <<Return>>) :
     o1 \in DOMAIN SubOperators \cup {\h070}, o2 \in {\h041, \h060, \h070},
     n \in {<<>>, <<Inst(\h017)>>},
     use \in {<<Inst(\h0e0)>>, <<To(\h201, 1)>>, <<Inst(\h34b)>>, <<Inst(\h318)>>}}

\* Jumps, also from and to what is behind the first return; the last word of the file or
\* not; and an opcode that is not known.
WorldJumps ==
  {World(e, b, <<Load(1), To(\h201, k), Return, To(\h200, l), Inst(\h204), Return>>) :
     e \in {0, 1, 37}, b \in BOOLEAN, k \in 1 .. 7, l \in {1, 5}}
  \cup {World(e, b, <<Load(1), To(\h201, k), To(\h200, l), Inst(\h204), Return>>) :
          e \in {0, 1, 37}, b \in BOOLEAN, k \in 1 .. 6, l \in 1 .. 6}
  \cup {World(0, TRUE, <<Inst(\h101), Return>>)}

SmallScumm == EachScumm \cup Lists \cup Computing \cup Jumping \cup Overriding \cup Sounding
SmallWorld == EachWorld \cup WorldExpressions \cup WorldJumps
=============================================================================
