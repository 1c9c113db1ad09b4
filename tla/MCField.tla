------------------------------- MODULE MCField ------------------------------
(***************************************************************************)
(* Small fields for FieldCode: main scripts with ifs, jumps and returns in *)
(* any order, entities in and out of order with scripts that call and name *)
(* each other, and a field for every opcode.                               *)
(***************************************************************************)
EXTENDS FieldCode

Scripts == 1 .. 3

\* An instruction, and what is to know of its operands.
Inst(op) == [op |-> op, length |-> 0, to |-> 0, val |-> 0]
To(op, d) == [Inst(op) EXCEPT !.to = d]
Call(op, e, script) == [To(op, e) EXCEPT !.val = script]
Char(id) == [Inst("CHAR") EXCEPT !.val = id]

Field(code, entries, names) == [code |-> code, entries |-> entries, names |-> names]
Entry(a, b, c) == <<a, b, c>>
MainOnly(code) == Field(code, <<Entry(1, Len(code) + 1, Len(code) + 1)>>, << <<"main">> >>)
-----------------------------------------------------------------------------
\* The main script of one entity: n instructions and a return.
Codes(n, Insts(_)) ==
  LET codes[k \in 0 .. n] ==
        IF k = 0 THEN {<<>>}
        ELSE {Append(c, i) : c \in codes[k - 1], i \in Insts(k)}
  IN {Append(c, Inst("RET")) : c \in codes[n]}

Plainly == {Inst("RET"), Inst("XYI")}
Branches(k, n) == {To("IFUB", d) : d \in k + 1 .. n + 1}
Jumps(k, n) == {To("JMPF", d) : d \in k + 1 .. n + 1} \cup {To("JMPB", d) : d \in 1 .. k}

MainScripts ==
  {MainOnly(c) : c \in Codes(3, LAMBDA k : Plainly \cup Branches(k, 4) \cup Jumps(k, 4))
                  \cup Codes(4, LAMBDA k : Plainly \cup Branches(k, 5))}

\* The wide forms of the jumps, an if as the last instruction of a function, and a
\* jump behind the code.
WideJumps ==
  {MainOnly(<<To(i, 4), To("JMPFL", 3), Inst("NOP"), Inst("RET"), To("JMPBL", 1),
              Inst("RET")>>) : i \in CondJumpOpcodes}
  \cup {Field(<<Inst("RET"), To("IFUB", 4), Inst("RET"), Inst("RET")>>, <<Entry(1, 3, 5)>>,
               << <<"main">> >>)}
  \cup {MainOnly(<<Inst("RET"), To("JMPF", 3)>>)}
-----------------------------------------------------------------------------
\* Two entities of three scripts over six instructions, entry points anywhere in
\* order.
TwoCode == <<Inst("RET"), Char("3"), Inst("RET"), Inst("RET"), Char("5"), Inst("RET")>>
Ascending(S) == {e \in [Scripts -> S] : e[1] <= e[2] /\ e[2] <= e[3]}
Cast == {<< <<"ad">>, <<"ad">> >>, << <<"">>, <<"ad", "b">> >>,
         << <<"", "ad">>, <<"ad", "">> >>}
OrderedFields ==
  {Field(TwoCode, <<f, g>>, names) :
     f \in Ascending(1 .. 4), g \in Ascending(4 .. 7), names \in Cast}

\* Entry points in any order, shared or of other entities.
AnyOrder ==
  {Field(<<Char("3"), Inst("RET"), Inst("XYI"), Inst("RET")>>, <<f, g>>,
         << <<"ad">>, <<"cloud">> >>) :
     f \in {e \in [Scripts -> 1 .. 5] : e[3] \in {e[1], e[2], 5}},
     g \in [Scripts -> {2, 4, 5}]}

\* Instructions that name another entity or a script of it.
Callers ==
  {Field(<<i, Inst("RET"), j, Inst("RET"), Inst("RET"), Inst("RET")>>,
         <<Entry(1, 4, 5), Entry(6, 7, 7)>>, << <<"main">>, <<"ad">> >>) :
     i \in {Call(op, e, s) : op \in Requests, e \in 1 .. 3, s \in 0 .. 3},
     j \in {To(op, e) : op \in {"CC", "GETAI"}, e \in {2, 3}}
           \cup {[To("IFUW", 4) EXCEPT !.val = v] : v \in {10, 11}}}
-----------------------------------------------------------------------------
\* Each opcode, before a return.
EachOpcode ==
  {MainOnly(<<To(op, 1), Inst("RET")>>) :
     op \in DOMAIN FieldFormats \ (CondJumpOpcodes \cup {"CHAR", "JMPF", "JMPFL"})}
  \cup {MainOnly(<<To(op, 2), Inst("RET")>>) : op \in CondJumpOpcodes \cup {"JMPF", "JMPFL"}}
  \cup {MainOnly(<<Char("7"), Inst("RET")>>)}
  \cup {MainOnly(<<[Inst(op) EXCEPT !.length = n], Inst("RET")>>) :
          op \in KawaiOpcodes, n \in {3, 5}}

SmallFields ==
  MainScripts \cup WideJumps \cup OrderedFields \cup AnyOrder \cup Callers \cup EachOpcode
=============================================================================
