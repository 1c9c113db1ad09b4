----------------------------- MODULE FieldCode ------------------------------
(***************************************************************************)
(* SUDM::FF7::Field::Decompile (decompiler/sudm.cpp): the scripts of a     *)
(* field are disassembled and FF7SimpleCodeGenerator::generate             *)
(* (decompiler/ff7_field/ff7_field_codegen.cpp) prints the functions in    *)
(* the order of their addresses.  The instructions are dealt out to the    *)
(* functions by their number alone.  An exception of a handler leaves      *)
(* Decompile without a result.                                             *)
(*                                                                         *)
(* A line is what it opens or closes and the instruction it is for; lines  *)
(* that do neither (comments, listings, empty lines) are left out.  This   *)
(* generator does not use the flow graph made in between, of which only    *)
(* that it can be made is modelled.                                        *)
(***************************************************************************)
EXTENDS FieldDisassembler

VARIABLES
  generated,  \* the functions printed so far
  lines       \* mLines

codeVars == <<fieldVars, generated, lines>>

\* ControlFlow's constructor: it needs an instruction to begin with, and one at each
\* destination of a jump.
BuildGraph ==
  /\ phase = "graph"
  /\ LET addresses == {insts[i].address : i \in DOMAIN insts}
         known == \A i \in DOMAIN insts :
                    IsJumpOp(insts[i].op) => insts[i].dest \in addresses
     IN phase' = IF insts # <<>> /\ known THEN "generate" ELSE "undefined"
  /\ UNCHANGED <<header, stream, entity, scriptInfo, frame, position, exitAddrs, insts,
                 functions, entityFunctions, generated, lines>>

Line(kind, at) == [kind |-> kind, at |-> at, dest |-> 0, text |-> <<>>]

\* mNumInstructions instructions for each function, from the first one on.
Dealt(S) == MapThenSumSet(LAMBDA b : functions[b].num, S)
Before(a) == Dealt({b \in DOMAIN functions : b < a})
Body(a) == SubSeq(insts, Before(a) + 1, Before(a) + functions[a].num)

IsCond(inst) == inst.op \in CondJumpOpcodes
IsUncond(inst) == inst.op \in UncondJumpOpcodes

\* The jumps of a function to one of its instructions.
Origins(body, i) ==
  {o \in DOMAIN body : (IsCond(body[o]) \/ IsUncond(body[o]))
                       /\ body[o].dest = body[i].address}
Ends(n, at) == [e \in 1 .. n |-> Line("end", at)]

\* An end for every jump to an instruction.
EndAtEveryJump(body, i) == Ends(Cardinality(Origins(body, i)), body[i].address)

\* What is printed ahead of an instruction: an end for each if that exits to it,
\* and a label if another jump goes to it.
LabelLines(body, i) ==
  LET ifs == {o \in Origins(body, i) : IsCond(body[o])}
  IN Ends(Cardinality(ifs), body[i].address)
     \o (IF ifs # Origins(body, i) THEN <<Line("label", body[i].address)>> ELSE <<>>)

\* EntityByIndex and FunctionByIndex; instructions count entities from 0.
EntityKnown(e) == e \in DOMAIN entityFunctions
FunctionKnown(e, script) == EntityKnown(e) /\ script \in DOMAIN entityFunctions[e].funcs

\* The handlers that throw: an unknown comparison, an entity or function that is
\* not there.  processREQEW alone catches it.
Requests == {"REQ", "REQSW", "REQEW"}
Throws(inst) ==
  \/ IsCond(inst) /\ inst.val \notin KnownComparisons /\ Plain(4) \in ToSet(ReadsOf(inst.op))
  \/ inst.op \in Requests \ {"REQEW"} /\ ~FunctionKnown(inst.to, inst.val)
  \/ inst.op \in {"CC", "GETAI"} /\ ~EntityKnown(inst.to)

Request(inst) ==
  IF FunctionKnown(inst.to, inst.val)
  THEN <<[Line("request", inst.address) EXCEPT
            !.text = <<entityFunctions[inst.to].name,
                       entityFunctions[inst.to].funcs[inst.val]>>]>>
  ELSE <<Line("statement", inst.address)>>

\* What an instruction prints, by processInst and by generate for the jumps.
InstLines(body, i) ==
  LET inst == body[i]
  IN CASE IsCond(inst) ->
            <<[Line("if", inst.address) EXCEPT !.dest = inst.dest]>>
            \o (IF i = Len(body) THEN <<Line("end", inst.address)>> ELSE <<>>)
       [] IsUncond(inst) -> <<[Line("goto", inst.address) EXCEPT !.dest = inst.dest]>>
       [] inst.op = "NOP" -> <<>>
       [] inst.op \in Requests -> Request(inst)
       [] OTHER -> <<Line("statement", inst.address)>>

\* One round of the second loop of generate, with onBeforeStartFunction and
\* onEndFunction.
FunctionLines(a, body) ==
  LET meta == ParseMetaData(functions[a].metadata)
  IN (IF meta.isStart THEN <<[Line("class", a) EXCEPT !.text = meta.name]>> ELSE <<>>)
     \o <<[Line("function", a) EXCEPT !.text = functions[a].name]>>
     \o FlattenSeq([i \in DOMAIN body |-> LabelLines(body, i) \o InstLines(body, i)])
     \o <<Line("endfunction", a)>>
     \o (IF meta.isEnd THEN <<Line("endclass", a)>> ELSE <<>>)

GenerateFunction ==
  /\ phase = "generate" /\ generated # DOMAIN functions
  /\ \E a \in {Min(DOMAIN functions \ generated)} : \E body \in {Body(a)} :
       IF \E i \in DOMAIN body : Throws(body[i])
       THEN phase' = "failed" /\ UNCHANGED <<generated, lines>>
       ELSE /\ generated' = generated \cup {a}
            /\ lines' = lines \o FunctionLines(a, body)
            /\ phase' = phase
  /\ UNCHANGED <<header, stream, entity, scriptInfo, frame, position, exitAddrs, insts,
                 functions, entityFunctions>>

GenerationDone ==
  /\ phase = "generate" /\ generated = DOMAIN functions
  /\ phase' = "done"
  /\ UNCHANGED <<header, stream, entity, scriptInfo, frame, position, exitAddrs, insts,
                 functions, entityFunctions, generated, lines>>

\* FF7FieldEngine::GetEntities, part of the result: the character of each entity
\* of which a function is known by name, the first one that is not blank.
GetEntities ==
  LET metas == {ParseMetaData(functions[a].metadata) : a \in DOMAIN functions}
      Starts(name) == {a \in DOMAIN functions :
                         LET m == ParseMetaData(functions[a].metadata)
                         IN m.name = name /\ m.id # NoId}
  IN [name \in {m.name : m \in metas} |->
        IF Starts(name) = {} THEN NoId
        ELSE ParseMetaData(functions[Min(Starts(name))].metadata).id]

CodeInit == FieldInit /\ generated = {} /\ lines = <<>>
CodeNext ==
  \/ Disassemble /\ UNCHANGED <<generated, lines>>
  \/ BuildGraph
  \/ GenerateFunction
  \/ GenerationDone

\* Decompile runs to its end unless it loops: one thread, no waiting.
FieldSpec == CodeInit /\ [][CodeNext]_codeVars /\ WF_codeVars(CodeNext)
-----------------------------------------------------------------------------
Finished == phase \in {"done", "failed"}

\* Entry points that ascend in the order of the header, those of one entity behind
\* those of the one before.  The source expects it; nothing checks it.
Ordered ==
  \A e, f \in Entities : \A s, t \in 1 .. ScriptsPerEntity :
    /\ e < f => header.scripts[e][s] < header.scripts[f][t]
    /\ s < t => header.scripts[e][s] <= header.scripts[e][t]

\* A name that is the same after it has been joined and split.
NameKept(name) == name[1] # Blank /\ \A i \in DOMAIN name : name[i] # Blank

IfsOf(body) == {i \in DOMAIN body : IsCond(body[i])}
Nested(body) ==
  \A i, j \in IfsOf(body) :
    i < j => \/ body[i].dest <= body[j].address
             \/ body[j].dest <= body[i].dest
\* Every if but one at the very end exits to an instruction of the body.
ExitsInside(body) ==
  \A i \in IfsOf(body) \ {Len(body)} :
    \E j \in DOMAIN body : body[j].address = body[i].dest
-----------------------------------------------------------------------------
\* The types of the state.
FieldTypeOK ==
  /\ phase \in {"scripts", "read", "returned", "graph", "generate", "done",
               "failed", "undefined"}
  /\ entity \in 0 .. Len(header.scripts)
  /\ frame = NoFrame \/ frame.entity \in Entities
  /\ position \in Nat
  /\ \A i \in DOMAIN exitAddrs : exitAddrs[i] \in Int
  /\ \A i \in DOMAIN insts : insts[i].address \in DOMAIN stream
  /\ \A a \in DOMAIN functions : functions[a].num \in Nat
  /\ generated \subseteq DOMAIN functions
  /\ DOMAIN entityFunctions \subseteq Entities

\* The functions of a field with ordered entry points are printed with their own
\* instructions: the number of instructions of each function, in the order of the
\* addresses, deals out the sequence they were read in (the first loop of generate),
\* which never asks for one behind the last.
BodiesMatch ==
  (phase = "generate" /\ Ordered) =>
    \A a \in DOMAIN functions :
      /\ Before(a) + functions[a].num <= Len(insts)
      /\ \A k \in DOMAIN insts :
           k \in Before(a) + 1 .. Before(a) + functions[a].num
             <=> insts[k].address \in a .. functions[a].end

\* on_start ends at the first return of script 0 that no if encloses, or with the
\* script: "Only bail if its the first RET that isn't within an "if" block".
FreeReturns(script, end) ==
  LET inside == {p \in DOMAIN stream : script <= p /\ p < end}
      Dest(p) == DestAddress(stream[p].op, p, stream[p].distance)
      Encloses(p, q) == stream[p].op \in CondJumpOpcodes /\ p < q /\ q < Dest(p)
  IN {q \in inside : stream[q].op = "RET" /\ ~\E p \in inside : Encloses(p, q)}
EndsAtReturn(e) ==
  LET script == header.scripts[e][1] + kSectionPointersSize
      end == EndOfScript(e, 1) + kSectionPointersSize
      returns == FreeReturns(script, end)
      last == IF returns # {} THEN Min(returns)
              ELSE Max({p \in DOMAIN stream : p < end})
  IN script < end => functions[script].end = last

OnStartEndsAtReturn ==
  phase = "generate" /\ Ordered => \A e \in Entities : EndsAtReturn(e)

\* An exit address is forgotten when the instruction at it is itself an if, when
\* two ifs exit to the same place or when they cross; then on_start goes on to the
\* end of the script.  Away from that the comment above holds.
ExitsApart(e) ==
  LET ifs == {p \in DOMAIN stream : stream[p].op \in CondJumpOpcodes
                /\ header.scripts[e][1] <= p - kSectionPointersSize
                /\ p < EndOfScript(e, 1) + kSectionPointersSize}
      Dest(p) == DestAddress(stream[p].op, p, stream[p].distance)
  IN \A p, q \in ifs : p < q => Dest(p) < q \/ Dest(q) < Dest(p)
OnStartEndsAtReturnApart ==
  phase = "generate" /\ Ordered =>
    \A e \in Entities : ExitsApart(e) => EndsAtReturn(e)

\* Every operand printed is a parameter the disassembler has read; one printed with
\* a bank is no nibble, its bank is a nibble or the byte just before it, and banks
\* go with operands in the same order.  No instruction falls through its switch.
\* BATTLE is left out: it reads its two nibbles as bank and battle id.
OperandsPaired ==
  \A i \in DOMAIN insts :
    LET op == insts[i].op
        params == ReadParams(FormatOf(op, stream[insts[i].address].bytes))
        reads == ToSet(ReadsOf(op))
        Kind(k) == params[k + 1]
    IN op # "BATTLE" =>
         /\ HandlerOf(op) # "not implemented"
         /\ \A r \in reads :
              /\ r.at + 1 \in DOMAIN params
              /\ r.bank # NoBank =>
                   /\ Kind(r.at) # "N"
                   /\ Kind(r.bank) = "N" \/ (Kind(r.bank) = "B" /\ r.at = r.bank + 1)
         /\ \A r, s \in reads :
              /\ r.at = s.at => r = s
              /\ r.bank # NoBank /\ r.bank < s.bank => r.at < s.at

\* The lines open and close classes, functions and ifs like brackets: each end
\* closes the if that exits there (or that ends the function), each function and
\* class is closed in its own place, and none is left open.
Closes(line, opened) ==
  CASE line.kind = "end" ->
         opened.kind = "if" /\ (opened.dest = line.at \/ opened.at = line.at)
    [] line.kind = "endfunction" -> opened.kind = "function" /\ opened.at = line.at
    [] line.kind = "endclass" -> opened.kind = "class"
Bracket(open, line) ==
  IF line.kind \in {"class", "function", "if"} THEN Append(open, line)
  ELSE IF line.kind \notin {"end", "endfunction", "endclass"} THEN open
  ELSE IF open # <<>> /\ Closes(line, Last(open)) THEN Front(open)
  ELSE <<Line("mismatch", line.at)>> \o open
BlocksMatch ==
  phase = "done" /\ Ordered
    /\ (\A a \in DOMAIN functions : Nested(Body(a)) /\ ExitsInside(Body(a)))
  => FoldLeft(Bracket, <<>>, lines) = <<>>

\* Once a function of an entity has a character, so have those that are disassembled
\* after it, and the result names one for the entity, if all names survive the
\* metadata of the functions.
CharacterIdsKept ==
  phase = "generate" /\ Ordered /\ (\A e \in Entities : NameKept(header.names[e])) =>
    \A a, b \in DOMAIN functions :
      LET m == ParseMetaData(functions[a].metadata)
          n == ParseMetaData(functions[b].metadata)
      IN (a <= b /\ m.name = n.name /\ m.id # NoId) =>
            n.id # NoId /\ GetEntities[m.name] # NoId

\* A request prints the entity it is made to and the function that begins at the
\* entry point of the script.  Of script 0 the name of the main script, if there is
\* one, has replaced that of on_start.
RequestsNameScripts ==
  phase = "done" /\ Ordered =>
    \A l \in ToSet(lines) :
      l.kind = "request" =>
        LET inst == CHOOSE i \in ToSet(insts) : i.address = l.at
            entry == header.scripts[inst.to][inst.val + 1] + kSectionPointersSize
        IN /\ l.text[1] = header.names[inst.to]
           /\ \/ l.text[2] = functions[entry].name
              \/ inst.val = 0 /\ l.text[2] = "on_update"

\* With ordered entry points, and jumps that go to instructions, Decompile ends with a
\* result or an exception: it reads every script to its end exactly, and never looks
\* at the last of no instructions.
JumpsResolved ==
  \A p \in DOMAIN stream :
    IsJumpOp(stream[p].op) =>
      DestAddress(stream[p].op, p, stream[p].distance) \in DOMAIN stream
DecompileEnds == (Ordered /\ JumpsResolved /\ stream # <<>>) => <>Finished
=============================================================================
