-------------------------- MODULE StackCode_proofs --------------------------
(***************************************************************************)
(* Proofs about the stack machines, for every script: a script is read as  *)
(* it lies in the file, its jumps lead where they lead there, the stack    *)
(* effects of its instructions add up to the values on the stack, and each *)
(* value is well formed and printed in its place.                          *)
(***************************************************************************)
EXTENDS StackCode, SimpleDisassembler_proofs, SequenceTheorems

LEMMA SizesAddUp ==
  ASSUME NEW n \in Nat, NEW sizes, DOMAIN sizes = 1 .. n, \A i \in 1 .. n : sizes[i] \in Nat
  PROVE  SizeOfItems(sizes) \in Nat
<1> DEFINE Eqn(h) == h = [s \in SUBSET (DOMAIN sizes) |->
                            IF s = {} THEN 0 ELSE h[s \ {Max(s)}] + sizes[Max(s)]]
           iter == CHOOSE h : Eqn(h)
<1>1. \E h : Eqn(h)
  <2>1. PICK f \in [SUBSET (1 .. n) -> Nat] : Sums(f, n, sizes)
    BY SumExists
  <2> QED
    BY <2>1 DEF Sums
<1>2. Eqn(iter)
  <2> HIDE DEF Eqn
  <2> QED
    BY <1>1
<1>3. SizeOfItems(sizes) = iter[DOMAIN sizes]
  BY DEF SizeOfItems, FoldLeft, MapThenFoldSet
<1> HIDE DEF iter
<1>4. Sums(iter, n, sizes)
  BY <1>2 DEF Sums
<1> HIDE DEF Eqn
<1> QED
  BY <1>3, <1>4, SumInNat

----------------------------------------------------------------------------
(***************************************************************************)
(* The tables.  Every opcode has a class that is processed and a format    *)
(* that can be read; an address or a string is the only or the last        *)
(* parameter.                                                              *)
(***************************************************************************)
ScummClasses ==
  {"Push", "PushVar", "ArrayRead", "IndexedRead", "Dup", "Not", "Binary", "CondJump", "Call",
   "Pop", "Jump", "AssignList", "AssignLists", "Write", "ArrayWrite", "IndexedWrite", "VarInc",
   "ArrayInc", "AssignString"}
ScummFormats == {<<>>, <<"a">>, <<"B">>, <<"s">>, <<"w">>, <<"c">>, <<"w", "c">>}
WorldClasses ==
  {"Push", "PushBank", "Sub", "Equal", "WriteBank", "CondJump", "Kernel", "NoOutput", "Jump"}
WorldFormats == {<<>>, <<"w">>}

Operations ==
  {"==", "!=", "<", "<=", ">", ">=", "+", "-", "*", "/", "&&", "||", "&", "|"}

\* An instruction with an operator has one.
ScummEntry(v) ==
  /\ v.class \in ScummClasses /\ v.params \in ScummFormats /\ v.change \in Int
  /\ v.class = "Binary" => v.data[1] \in Operations

LEMMA ScummEntries ==
  /\ \A change \in Int : \A data : ScummEntry(Call(change, data)) /\ ScummEntry(SubCall(change, data))
  /\ \A change \in Int : \A data : \A params \in ScummFormats :
       ScummEntry(Suboption(change, params, data))
  /\ \A change \in Int : \A data : \A class \in ScummClasses \ {"Binary"} : \A params \in ScummFormats :
       ScummEntry(Opcode(class, change, params, data))
BY DEF Call, SubCall, Suboption, Opcode, ScummClasses, ScummFormats, ScummEntry

ScummEntriesOf(table) == \A op \in DOMAIN table : ScummEntry(table[op])

LEMMA ScummEntriesOfTable == ScummEntriesOf(ScummOpcodeTable)
<1> DEFINE D(table) == ScummEntriesOf(table)
<1>1. /\ \A S, v : ScummEntry(v) => D(Each(S, v))
      /\ \A f, g : D(f) /\ D(g) => D(f ++ g)
  <2>1. \A S, v : ScummEntry(v) => D(Each(S, v))
    BY DEF ScummEntriesOf, Each
  <2>2. ASSUME NEW f, NEW g, D(f), D(g) PROVE D(f ++ g)
    <3>1. /\ DOMAIN (f ++ g) = DOMAIN f \cup DOMAIN g
          /\ \A op \in DOMAIN f : (f ++ g)[op] = f[op]
          /\ \A op \in DOMAIN g : op \notin DOMAIN f => (f ++ g)[op] = g[op]
      BY TwoTables
    <3> QED
      BY <2>2, <3>1 DEF ScummEntriesOf
  <2> QED
    BY <2>1, <2>2
<1>2. \A p, f : D(f) => D(Prefixed(p, f))
  BY DEF ScummEntriesOf, Prefixed
<1>3. /\ \A change \in Int : \A data : ScummEntry(Call(change, data)) /\ ScummEntry(SubCall(change, data))
      /\ \A change \in Int : \A data : \A params \in ScummFormats :
           ScummEntry(Suboption(change, params, data))
      /\ \A change \in Int : \A data : \A class \in ScummClasses \ {"Binary"} : \A params \in ScummFormats :
           ScummEntry(Opcode(class, change, params, data))
  BY ScummEntries
<1> HIDE DEF D
<1>4. D(LoadOpcodes)
  BY <1>1, <1>2, <1>3 DEF LoadOpcodes, ScummClasses, ScummFormats
<1>5. D(StoreOpcodes)
  BY <1>1, <1>2, <1>3 DEF StoreOpcodes, ScummClasses, ScummFormats
<1>6. D(JumpOpcodes)
  BY <1>1, <1>2, <1>3 DEF JumpOpcodes, ScummClasses, ScummFormats
<1>7. D(ScriptCalls)
  BY <1>1, <1>2, <1>3 DEF ScriptCalls, ScummClasses, ScummFormats
<1>8. D(KernelCalls)
  BY <1>1, <1>2, <1>3 DEF KernelCalls, ScummClasses, ScummFormats
<1>9. D(ValueCalls)
  BY <1>1, <1>2, <1>3 DEF ValueCalls, ScummClasses, ScummFormats
<1>10. D(CursorCommands)
  BY <1>1, <1>2, <1>3 DEF CursorCommands, ScummClasses, ScummFormats
<1>11. D(ResourceRoutines)
  BY <1>1, <1>2, <1>3 DEF ResourceRoutines, ScummClasses, ScummFormats
<1>12. D(RoomOps)
  BY <1>1, <1>2, <1>3 DEF RoomOps, ScummClasses, ScummFormats
<1>13. D(ActorOps)
  BY <1>1, <1>2, <1>3 DEF ActorOps, ScummClasses, ScummFormats
<1>14. D(VerbOps)
  BY <1>1, <1>2, <1>3 DEF VerbOps, ScummClasses, ScummFormats
<1>15. D(PrintOps)
  BY <1>1, <1>2, <1>3 DEF PrintOps, ScummClasses, ScummFormats
<1>16. D(OtherSubCalls)
  BY <1>1, <1>2, <1>3 DEF OtherSubCalls, ScummClasses, ScummFormats
<1>17. D(PrintCommands)
  BY <1>1, <1>2, <1>3, <1>15 DEF PrintCommands
<1>18. D(OperatorOpcodes)
  <2> DEFINE names == {"eq", "neq", "gt", "lt", "le", "ge", "add", "sub", "mul", "div", "land",
                       "lor", "band", "bor"}
             data(name) ==
               CASE name = "eq" -> <<"==">> [] name = "neq" -> <<"!=">> [] name = "gt" -> <<">">>
                 [] name = "lt" -> <<"<">> [] name = "le" -> <<"<=">> [] name = "ge" -> <<">=">>
                 [] name = "add" -> <<"+">> [] name = "sub" -> <<"-">> [] name = "mul" -> <<"*">>
                 [] name = "div" -> <<"/">> [] name = "land" -> <<"&&">> [] name = "lor" -> <<"||">>
                 [] name = "band" -> <<"&">> [] name = "bor" -> <<"|">>
             binary == [name \in names |-> Opcode("Binary", -1, <<>>, data(name))]
  <2>1. D(binary)
    <3> HIDE DEF data
    <3>1. DOMAIN binary = names /\ \A op \in names : binary[op] = Opcode("Binary", -1, <<>>, data(op))
      OBVIOUS
    <3>2. "Binary" \in ScummClasses /\ <<>> \in ScummFormats
      BY DEF ScummClasses, ScummFormats
    <3>3. \A op \in names : data(op)[1] \in Operations
      BY DEF data, Operations
    <3>4. \A op \in names : ScummEntry(Opcode("Binary", -1, <<>>, data(op)))
      BY <3>2, <3>3 DEF ScummEntry, Opcode
    <3> HIDE DEF binary, names
    <3> QED
      BY <3>1, <3>4 DEF D, ScummEntriesOf
  <2>2. D(Each({"dup"}, Opcode("Dup", 1, <<>>, <<>>))) /\ D(Each({"not"}, Opcode("Not", 0, <<>>, <<>>)))
        /\ D(Each({"pop"}, Opcode("Pop", -1, <<>>, <<>>)))
    BY <1>1, <1>3 DEF ScummClasses, ScummFormats
  <2>3. OperatorOpcodes = binary ++ Each({"dup"}, Opcode("Dup", 1, <<>>, <<>>))
                          ++ Each({"not"}, Opcode("Not", 0, <<>>, <<>>))
                          ++ Each({"pop"}, Opcode("Pop", -1, <<>>, <<>>))
    BY DEF OperatorOpcodes
  <2> HIDE DEF binary
  <2> QED
    BY <1>1, <2>1, <2>2, <2>3
<1>19. D(ArrayOps)
  <2>1. /\ ScummEntry([Opcode("AssignString", -1, <<"w", "c">>, <<>>) EXCEPT !.sub = TRUE])
        /\ ScummEntry([Opcode("AssignList", \h1100, <<"w">>, <<>>) EXCEPT !.sub = TRUE])
        /\ ScummEntry([Opcode("AssignLists", \h1100, <<"w">>, <<>>) EXCEPT !.sub = TRUE])
    BY DEF ScummEntry, Opcode, ScummClasses, ScummFormats
  <2> QED
    BY <1>1, <2>1 DEF ArrayOps
<1> QED
  BY <1>1, <1>4, <1>5, <1>6, <1>7, <1>8, <1>9, <1>10, <1>11, <1>12, <1>13, <1>14, <1>16, <1>17,
     <1>18, <1>19 DEF ScummOpcodeTable, D

LEMMA ScummTable == Described(ScummOpcodeTable, ScummClasses, ScummFormats)
BY ScummEntriesOfTable DEF ScummEntriesOf, ScummEntry, Described

LEMMA WorldTable == Described(WorldOpcodeTable, WorldClasses, WorldFormats)
<1> DEFINE D(table) == Described(table, WorldClasses, WorldFormats)
           E(v) == v.class \in WorldClasses /\ v.params \in WorldFormats /\ v.change \in Int
<1>1. /\ \A S, v : E(v) => D(Each(S, v))
      /\ \A f, g : D(f) /\ D(g) => D(f ++ g)
  BY TablesOf
<1>2. \A change \in Int : \A class \in WorldClasses : \A params \in WorldFormats :
        E(WorldOpcode(class, change, params))
  BY DEF WorldOpcode
<1> HIDE DEF D, E
<1>3. D(StackOpcodes)
  BY <1>1, <1>2 DEF StackOpcodes, WorldClasses, WorldFormats
<1>4. D(WorldCalls)
  BY <1>1, <1>2 DEF WorldCalls, WorldClasses, WorldFormats
<1> QED
  BY <1>1, <1>3, <1>4 DEF WorldOpcodeTable, D

----------------------------------------------------------------------------
(***************************************************************************)
(* The layout of a script.                                                 *)
(***************************************************************************)
IsScript(s) == s \in ScummScripts \cup WorldScripts
Base(s) == IF s.engine = "scumm" THEN FirstPosition(s) ELSE 0
At(s) == Positions(s, FirstPosition(s))

LEMMA ScriptFacts ==
  ASSUME NEW s, IsScript(s)
  PROVE  /\ s.engine \in {"scumm", "world"}
         /\ Len(s.code) \in Nat /\ DOMAIN s.code = 1 .. Len(s.code)
         /\ s.code \in Seq(Instructions(STRING)) \/ s.code \in Seq(Instructions(Nat))
         /\ \A i \in 1 .. Len(s.code) :
              s.code[i].string \in Seq(STRING) /\ s.code[i].to \in 1 .. Len(s.code) + 1
         /\ FirstPosition(s) \in Nat
         /\ s.engine = "world" => s.code # <<>> /\ s.code[Len(s.code)].op = \h203
                                   /\ \A i \in 1 .. Len(s.code) : ~Sounds(s.code[i])
<1>1. CASE s \in ScummScripts
  <2>1. s.engine = "scumm" /\ s.verbs \in Nat /\ s.code \in Seq(Instructions(STRING)) /\ JumpsInside(s)
    BY <1>1, ScriptsAssumption
  <2>2. Len(s.code) \in Nat /\ DOMAIN s.code = 1 .. Len(s.code)
        /\ \A i \in 1 .. Len(s.code) : s.code[i] \in Instructions(STRING)
    BY <2>1
  <2>3. FirstPosition(s) \in Nat
    BY <2>1 DEF FirstPosition
  <2> QED
    BY <2>1, <2>2, <2>3 DEF JumpsInside, Instructions
<1>2. CASE s \in WorldScripts
  <2>1. s.engine = "world" /\ s.entry \in Nat /\ s.code \in Seq(Instructions(Nat)) /\ JumpsInside(s)
        /\ s.code # <<>> /\ Last(s.code).op = \h203
        /\ \A i \in DOMAIN s.code : HasItsString(s.engine, s.code[i])
    BY <1>2, ScriptsAssumption
  <2>2. Len(s.code) \in Nat /\ DOMAIN s.code = 1 .. Len(s.code)
        /\ \A i \in 1 .. Len(s.code) : s.code[i] \in Instructions(Nat)
    BY <2>1
  <2>3. FirstPosition(s) \in Nat
    BY <2>1 DEF FirstPosition, WorldHeader
  <2>4. s.code[Len(s.code)].op = \h203
    BY <2>1 DEF Last
  <2>5. \A i \in 1 .. Len(s.code) : s.code[i].string \in Seq(STRING)
    BY <2>2 DEF Instructions
  <2>6. \A i \in 1 .. Len(s.code) : s.code[i].to \in 1 .. Len(s.code) + 1
    BY <2>1, <2>2 DEF JumpsInside
  <2>7. ASSUME NEW i \in 1 .. Len(s.code) PROVE ~Sounds(s.code[i])
    <3>1. ToSet(<<>>) = {} /\ ToSet(<<"w">>) = {"w"}
      BY DEF ToSet
    <3>2. \A op \in DOMAIN OpcodesOf("world") : "c" \notin ToSet(OpcodesOf("world")[op].params)
      BY <3>1, WorldTable DEF OpcodesOf, Described, WorldFormats
    <3>3. s.code[i].string = <<>>
      BY <2>1, <2>2, <3>2 DEF HasItsString
    <3> QED
      BY <3>1, <3>3 DEF Sounds
  <2> QED
    BY <2>1, <2>2, <2>3, <2>4, <2>5, <2>6, <2>7
<1> QED
  BY <1>1, <1>2 DEF IsScript

\* The bytes of the items of a string.
LEMMA ItemsAddUp ==
  ASSUME NEW string \in Seq(STRING)
  PROVE  /\ SizeOfItems([i \in DOMAIN string |-> ItemBytes(string[i])]) \in Nat
         /\ SizeOfItems([i \in DOMAIN string |-> ItemAddress(string[i])]) \in Nat
<1> DEFINE n == Len(string)
           sizes == [i \in DOMAIN string |-> ItemBytes(string[i])]
           moves == [i \in DOMAIN string |-> ItemAddress(string[i])]
<1>1. /\ n \in Nat
      /\ DOMAIN sizes = 1 .. n /\ \A i \in 1 .. n : sizes[i] = ItemBytes(string[i])
      /\ DOMAIN moves = 1 .. n /\ \A i \in 1 .. n : moves[i] = ItemAddress(string[i])
  OBVIOUS
<1>2. \A item : ItemBytes(item) \in Nat /\ ItemAddress(item) \in Nat
  BY DEF ItemBytes, ItemAddress
<1> HIDE DEF n, sizes, moves
<1>3. SizeOfItems(sizes) \in Nat /\ SizeOfItems(moves) \in Nat
  BY <1>1, <1>2, SizesAddUp
<1> QED
  BY <1>3 DEF sizes, moves

LEMMA ParamsAddUp ==
  ASSUME NEW params \in ScummFormats, NEW string \in Seq(STRING)
  PROVE  ParamBytes(params, string) \in Nat /\ ParamAddress(params, string) \in Nat
<1> DEFINE letters == {"N", "U", "b", "B", "s", "w", "i", "d"}
<1>1. /\ <<>> \in Seq(letters) /\ <<"B">> \in Seq(letters)
      /\ <<"s">> \in Seq(letters) /\ <<"w">> \in Seq(letters)
  OBVIOUS
<1>2. /\ ToSet(<<>>) = {} /\ ToSet(<<"B">>) = {"B"} /\ ToSet(<<"s">>) = {"s"}
      /\ ToSet(<<"w">>) = {"w"} /\ ToSet(<<"a">>) = {"a"}
      /\ ToSet(<<"c">>) = {"c"} /\ ToSet(<<"w", "c">>) = {"w", "c"}
  BY DEF ToSet
<1>3. Front(<<"c">>) \in Seq(letters) /\ Front(<<"w", "c">>) \in Seq(letters)
  <2>1. SubSeq(<<"c">>, 1, 0) = <<>>
    BY SubSeqEmpty
  <2>2. SubSeq(<<"w", "c">>, 1, 1) \in Seq(letters)
    <3> DEFINE p == <<"w", "c">>
    <3>1. p \in Seq({"w", "c"}) /\ \A i \in 1 .. 1 : p[i] \in letters
      OBVIOUS
    <3> HIDE DEF p
    <3> QED
      BY <3>1, SubSeqProperties
  <2>3. Len(<<"c">>) - 1 = 0 /\ Len(<<"w", "c">>) - 1 = 1
    OBVIOUS
  <2> QED
    BY <1>1, <2>1, <2>2, <2>3 DEF Front
<1>4. \A p \in Seq(letters) : FormatBytes(p) \in Nat
  BY BytesAddUp DEF Letters
<1> HIDE DEF letters
<1>5. CASE params = <<"a">>
  <2>1. "c" \notin ToSet(params)
    BY <1>2, <1>5
  <2> QED
    BY <1>5, <2>1 DEF ParamBytes, ParamAddress
<1>6. CASE params \in {<<>>, <<"B">>, <<"s">>, <<"w">>}
  <2>1. "c" \notin ToSet(params) /\ params # <<"a">> /\ params \in Seq(letters)
    BY <1>1, <1>2, <1>6
  <2> QED
    BY <1>4, <2>1 DEF ParamBytes, ParamAddress
<1>7. CASE params \in {<<"c">>, <<"w", "c">>}
  <2>1. "c" \in ToSet(params) /\ params # <<"a">> /\ Front(params) \in Seq(letters)
    BY <1>1, <1>2, <1>3, <1>7
  <2> QED
    BY <1>4, <2>1, ItemsAddUp DEF ParamBytes, ParamAddress
<1> QED
  BY <1>5, <1>6, <1>7 DEF ScummFormats

LEMMA KnownFormats ==
  ASSUME NEW engine \in {"scumm", "world"}, NEW op \in DOMAIN OpcodesOf(engine)
  PROVE  /\ OpcodesOf(engine)[op].params \in ScummFormats
         /\ engine = "world" => OpcodesOf(engine)[op].params \in WorldFormats
         /\ OpcodesOf(engine)[op].change \in Int
BY ScummTable, WorldTable DEF OpcodesOf, Described, WorldFormats, ScummFormats

LEMMA InstructionsTakeBytes ==
  ASSUME NEW engine \in {"scumm", "world"}, NEW inst, inst.string \in Seq(STRING)
  PROVE  BytesIn(engine, inst) \in Nat /\ BytesIn(engine, inst) >= 1
<1>1. OpcodeBytes(engine, inst.op) \in {1, 2}
  BY DEF OpcodeBytes
<1>2. (IF inst.op \in DOMAIN OpcodesOf(engine)
       THEN ParamBytes(OpcodesOf(engine)[inst.op].params, inst.string) ELSE 0) \in Nat
  BY KnownFormats, ParamsAddUp
<1> QED
  BY <1>1, <1>2 DEF BytesIn

\* The instructions of a script lie one behind the other.
LEMMA Layout ==
  ASSUME NEW s, IsScript(s)
  PROVE  /\ DOMAIN At(s) = 1 .. Len(s.code) + 1
         /\ At(s)[1] = FirstPosition(s)
         /\ \A i \in 1 .. Len(s.code) + 1 : At(s)[i] \in Nat
         /\ \A i \in 1 .. Len(s.code) : At(s)[i + 1] = At(s)[i] + BytesIn(s.engine, s.code[i])
<1> DEFINE n == Len(s.code)
           a == FirstPosition(s)
           size(i) == BytesIn(s.engine, s.code[i])
           G == [k \in 2 .. n + 1 |-> [x \in Nat |-> x + size(k - 1)]]
           Eqn(h) == h = [i \in 1 .. Len(s.code) + 1 |->
                            IF i = 1 THEN a ELSE h[i - 1] + BytesIn(s.engine, s.code[i - 1])]
<1>1. n \in Nat /\ a \in Nat /\ \A i \in 1 .. n : size(i) \in Nat
  <2>1. n \in Nat /\ a \in Nat
    BY ScriptFacts
  <2>2. ASSUME NEW i \in 1 .. n PROVE size(i) \in Nat
    <3>1. s.engine \in {"scumm", "world"} /\ s.code[i].string \in Seq(STRING)
      BY ScriptFacts
    <3> QED
      BY <3>1, InstructionsTakeBytes
  <2> QED
    BY <2>1, <2>2
<1> HIDE DEF a
<1>2. \A h : Eqn(h) <=> h = [i \in 1 .. n + 1 |-> IF i = 1 THEN a ELSE h[i - 1] + size(i - 1)]
  OBVIOUS
<1> HIDE DEF n, size
<1>3. \A k \in 2 .. n + 1 : k - 1 \in 1 .. n
  BY <1>1
<1>4. \A k \in 1 + 1 .. n + 1 : \A x \in Nat : G[k][x] = x + size(k - 1) /\ G[k][x] \in Nat
  BY <1>1, <1>3
<1>5. Solvable(Nat, a, 1, n + 1, G)
  <2>1. 1 \in Int /\ n + 1 \in Int /\ 1 <= n + 1
    BY <1>1
  <2> HIDE DEF G
  <2> QED
    BY <2>1, <1>1, <1>4, RecursionBetween
<1> HIDE DEF G
<1>6. PICK g \in [1 .. n + 1 -> Nat] : g[1] = a /\ \A k \in 1 + 1 .. n + 1 : g[k] = G[k][g[k - 1]]
  BY <1>5 DEF Solvable
<1>7. Eqn(g)
  <2>1. ASSUME NEW i \in 1 + 1 .. n + 1
        PROVE  g[i] = g[i - 1] + size(i - 1)
    <3>1. g[i - 1] \in Nat
      BY <1>1, <1>6
    <3> QED
      BY <3>1, <1>4, <1>6
  <2>2. \A i \in 1 .. n + 1 : i = 1 \/ i \in 1 + 1 .. n + 1
    BY <1>1
  <2>3. \A i \in 1 .. n + 1 : g[i] = IF i = 1 THEN a ELSE g[i - 1] + size(i - 1)
    BY <2>1, <2>2, <1>6
  <2>4. g = [i \in 1 .. n + 1 |-> IF i = 1 THEN a ELSE g[i - 1] + size(i - 1)]
    BY <2>3, <1>6
  <2> HIDE DEF Eqn
  <2> QED
    BY <2>4, <1>2
<1> DEFINE at == CHOOSE h : Eqn(h)
<1>8. At(s) = at
  BY DEF At, Positions, a
<1>9. Eqn(at)
  <2> HIDE DEF Eqn
  <2> QED
    BY <1>7
<1> HIDE DEF at, Eqn
<1>10. at = [i \in 1 .. n + 1 |-> IF i = 1 THEN a ELSE at[i - 1] + size(i - 1)]
  BY <1>2, <1>9
<1>11. DOMAIN at = 1 .. n + 1
  BY <1>10
<1>12. \A i \in 1 .. n + 1 : at[i] = IF i = 1 THEN a ELSE at[i - 1] + size(i - 1)
  BY <1>10
<1>13. at[1] = a
  BY <1>1, <1>12
<1>14. \A i \in 1 .. n : at[i + 1] = at[i] + size(i)
  <2>1. \A i \in 1 .. n : i + 1 \in 1 .. n + 1 /\ i + 1 # 1 /\ (i + 1) - 1 = i
    BY <1>1
  <2> QED
    BY <2>1, <1>12
<1>15. \A i \in 1 .. n + 1 : at[i] \in Nat
  <2>1. \A k \in 1 + 1 .. n + 1 : at[k - 1] \in Nat => at[k] \in Nat
    BY <1>1, <1>3, <1>12
  <2>2. 1 \in Int /\ n + 1 \in Int
    BY <1>1
  <2> QED
    BY <2>1, <2>2, <1>1, <1>13, RecursionTyped
<1> QED
  BY <1>8, <1>11, <1>13, <1>14, <1>15 DEF n, a, size

LEMMA PositionsAscend ==
  ASSUME NEW s, IsScript(s), NEW i \in 1 .. Len(s.code) + 1, NEW j \in 1 .. Len(s.code) + 1, i < j
  PROVE  At(s)[i] < At(s)[j]
<1> DEFINE n == Len(s.code)
           size(k) == BytesIn(s.engine, s.code[k])
<1>1. n \in Nat /\ \A k \in 1 .. n : size(k) \in Nat /\ size(k) >= 1
  <2>1. n \in Nat /\ s.engine \in {"scumm", "world"} /\ \A k \in 1 .. n : s.code[k].string \in Seq(STRING)
    BY ScriptFacts
  <2> QED
    BY <2>1, InstructionsTakeBytes
<1> DEFINE f(k) == At(s)[k]
<1>2. /\ \A k \in 1 .. n + 1 : f(k) \in Nat
      /\ \A k \in 1 .. n : f(k + 1) = f(k) + size(k)
  BY Layout
<1> DEFINE S == {x \in Int : x > f(i)}
           h == [k \in i + 1 .. n + 1 |-> f(k)]
<1> HIDE DEF n, size, f
<1>3. i \in 1 .. n /\ i + 1 \in i + 1 .. n + 1
  BY <1>1 DEF n
<1>4. h[i + 1] \in S
  BY <1>1, <1>2, <1>3
<1>5. \A k \in (i + 1) + 1 .. n + 1 : h[k - 1] \in S => h[k] \in S
  <2> TAKE k \in (i + 1) + 1 .. n + 1
  <2>1. k - 1 \in 1 .. n /\ (k - 1) + 1 = k /\ k \in i + 1 .. n + 1 /\ k - 1 \in i + 1 .. n + 1
    BY <1>1, <1>3
  <2>2. f(k) = f(k - 1) + size(k - 1)
    BY <2>1, <1>2
  <2> QED
    BY <2>1, <2>2, <1>1, <1>2, <1>3
<1>6. \A k \in i + 1 .. n + 1 : h[k] \in S
  <2>1. i + 1 \in Int /\ n + 1 \in Int
    BY <1>1, <1>3
  <2> HIDE DEF h, S
  <2> QED
    BY <2>1, <1>4, <1>5, RecursionTyped
<1>7. j \in i + 1 .. n + 1
  BY <1>1 DEF n
<1>8. f(j) > f(i)
  BY <1>6, <1>7
<1> QED
  BY <1>2, <1>3, <1>7, <1>8, <1>1 DEF f

LEMMA StreamHolds ==
  ASSUME NEW s, IsScript(s), NEW i \in 1 .. Len(s.code)
  PROVE  /\ At(s)[i] \in DOMAIN StreamOf(s)
         /\ StreamOf(s)[At(s)[i]] =
              [op |-> s.code[i].op, val |-> s.code[i].val, string |-> s.code[i].string,
               target |-> StoredTarget(s, At(s)[i], At(s)[s.code[i].to])]
<1> DEFINE at == At(s)
           n == Len(s.code)
           p == at[i]
           index == CHOOSE k \in DOMAIN s.code : at[k] = p
           Item(k) == [op |-> s.code[k].op, val |-> s.code[k].val, string |-> s.code[k].string,
                       target |-> StoredTarget(s, p, at[s.code[k].to])]
<1>1. n \in Nat /\ DOMAIN s.code = 1 .. n
  BY ScriptFacts
<1>2. index = i
  <2>1. ASSUME NEW k \in 1 .. n, at[k] = at[i]
        PROVE  k = i
    <3>1. k \in 1 .. n + 1 /\ i \in 1 .. n + 1 /\ at[k] \in Nat
      BY <1>1, Layout
    <3>2. ~ (k < i) /\ ~ (i < k)
      BY <2>1, <3>1, PositionsAscend
    <3> QED
      BY <3>1, <3>2
  <2> HIDE DEF at
  <2> QED
    BY <2>1, <1>1
<1>3. p \in {at[k] : k \in DOMAIN s.code}
  BY <1>1
<1>4. p \in DOMAIN CodeOfStream(s) /\ CodeOfStream(s)[p] = Item(index)
  <2> HIDE DEF p, index
  <2>1. DOMAIN CodeOfStream(s) = {at[k] : k \in DOMAIN s.code}
    BY DEF CodeOfStream, At
  <2>2. CodeOfStream(s)[p] = Item(index)
    BY <1>3 DEF CodeOfStream, At, index
  <2> QED
    BY <1>3, <2>1, <2>2
<1>5. p \in DOMAIN StreamOf(s) /\ StreamOf(s)[p] = CodeOfStream(s)[p]
  <2> DEFINE f == CodeOfStream(s)
             g == s.elsewhere
  <2>1. /\ DOMAIN (f ++ g) = DOMAIN f \cup DOMAIN g
        /\ \A x \in DOMAIN f : (f ++ g)[x] = f[x]
    <3> HIDE DEF f, g
    <3> QED
      BY TwoTables
  <2>2. p \in DOMAIN f /\ StreamOf(s) = f ++ g
    BY <1>4 DEF StreamOf
  <2> DEFINE h == f ++ g
  <2>3. p \in DOMAIN f /\ StreamOf(s) = h /\ DOMAIN h = DOMAIN f \cup DOMAIN g /\ \A x \in DOMAIN f : h[x] = f[x]
    BY <2>1, <2>2
  <2> HIDE DEF p, h, f
  <2> QED
    BY <2>3 DEF f
<1> QED
  BY <1>2, <1>4, <1>5

\* A script begins behind its header.
LEMMA ScummBegins ==
  ASSUME NEW s, IsScript(s), s.engine = "scumm", NEW i \in 1 .. Len(s.code) + 1
  PROVE  At(s)[i] \in Nat /\ At(s)[i] >= 8
<1>1. Len(s.code) \in Nat
  BY ScriptFacts
<1>2. At(s)[1] = FirstPosition(s) /\ 1 \in 1 .. Len(s.code) + 1 /\ (i = 1 \/ 1 < i)
      /\ At(s)[i] \in Nat /\ At(s)[1] \in Nat
  BY <1>1, Layout
<1>3. At(s)[1] <= At(s)[i]
  BY <1>2, PositionsAscend
<1>4. FirstPosition(s) >= 8 /\ FirstPosition(s) \in Nat
  <2>1. s.verbs \in Nat
    BY ScriptsAssumption DEF IsScript
  <2> QED
    BY <2>1 DEF FirstPosition
<1> QED
  BY <1>2, <1>3, <1>4

\* What the stream holds elsewhere ends before the file does, and no opcode begins where
\* the name of a locked script's block ends.
LEMMA StreamTyped ==
  ASSUME NEW s, IsScript(s), NEW p \in DOMAIN StreamOf(s)
  PROVE  /\ p \in Nat /\ p + BytesIn(s.engine, StreamOf(s)[p]) <= StreamEnd(s)
         /\ StreamOf(s)[p].val \in Int /\ StreamOf(s)[p].target \in Int
         /\ StreamOf(s)[p].string \in Seq(STRING)
         /\ s.engine = "scumm" /\ p = OverrideSeek => s.block \in DOMAIN NameOpcode
<1> DEFINE f == CodeOfStream(s)
           g == s.elsewhere
           n == Len(s.code)
<1>1. StreamOf(s) = f ++ g
  BY DEF StreamOf
<1>2. s.engine \in {"scumm", "world"} /\ n \in Nat /\ DOMAIN s.code = 1 .. n
  BY ScriptFacts
<1>3. DOMAIN f = {At(s)[k] : k \in 1 .. n}
  BY <1>2 DEF CodeOfStream, At
<1>4. CASE p \in DOMAIN f
  <2>1. PICK i \in 1 .. n : p = At(s)[i]
    BY <1>3, <1>4
  <2> DEFINE to == s.code[i].to
  <2>2. StreamOf(s)[p] = [op |-> s.code[i].op, val |-> s.code[i].val, string |-> s.code[i].string,
                          target |-> StoredTarget(s, p, At(s)[to])]
    BY <2>1, StreamHolds
  <2>3. s.code[i].string \in Seq(STRING) /\ to \in 1 .. n + 1 /\ s.code[i].val \in Int
    <3>1. s.code[i] \in Instructions(STRING) \/ s.code[i] \in Instructions(Nat)
      BY <1>2, ScriptFacts
    <3> QED
      BY <3>1, ScriptFacts DEF Instructions
  <2>4. p \in Nat /\ At(s)[to] \in Nat
    <3> HIDE DEF to
    <3> QED
      BY <1>2, <2>1, <2>3, Layout
  <2>5. StoredTarget(s, p, At(s)[to]) \in Int
    BY <2>4 DEF StoredTarget, WorldHeader
  <2>6. BytesIn(s.engine, StreamOf(s)[p]) = BytesIn(s.engine, s.code[i])
    BY <2>2 DEF BytesIn
  <2>7. p + BytesIn(s.engine, StreamOf(s)[p]) <= StreamEnd(s)
    <3>1. At(s)[i + 1] = p + BytesIn(s.engine, StreamOf(s)[p])
      BY <2>1, <2>6, Layout
    <3>2. i + 1 \in 1 .. n + 1 /\ n + 1 \in 1 .. n + 1 /\ (i + 1 = n + 1 \/ i + 1 < n + 1)
      BY <1>2
    <3>3. At(s)[i + 1] \in Nat /\ At(s)[n + 1] \in Nat
      BY <3>2, Layout
    <3>4. At(s)[i + 1] <= At(s)[n + 1]
      BY <3>2, <3>3, PositionsAscend
    <3> QED
      BY <3>1, <3>4 DEF StreamEnd, At
  <2>8. s.engine = "scumm" => p >= 8
    <3>1. i \in 1 .. n + 1
      BY <1>2
    <3> QED
      BY <2>1, <3>1, ScummBegins
  <2> QED
    BY <2>2, <2>3, <2>4, <2>5, <2>7, <2>8 DEF OverrideSeek
<1>5. CASE p \notin DOMAIN f
  <2>1. p \in DOMAIN g /\ StreamOf(s)[p] = g[p]
    <3> DEFINE h == f ++ g
    <3>1. /\ DOMAIN h = DOMAIN f \cup DOMAIN g
          /\ \A x \in DOMAIN g : x \notin DOMAIN f => h[x] = g[x]
      <4> HIDE DEF f, g
      <4> QED
        BY TwoTables
    <3>2. StreamOf(s) = h
      BY <1>1
    <3> HIDE DEF f, g, h
    <3> QED
      BY <1>5, <3>1, <3>2
  <2>2. s \in ScummScripts
    <3>1. ASSUME s \in WorldScripts PROVE FALSE
      <4>1. g = <<>>
        BY <3>1, ScriptsAssumption
      <4> QED
        BY <2>1, <4>1
    <3> QED
      BY <3>1 DEF IsScript
  <2>3. /\ p \in Nat /\ g[p] \in Stored
        /\ p + BytesIn(s.engine, g[p]) <= StreamEnd(s)
        /\ p = OverrideSeek => s.block \in DOMAIN NameOpcode
    BY <2>1, <2>2, ScriptsAssumption
  <2> QED
    BY <2>1, <2>3 DEF Stored
<1> QED
  BY <1>4, <1>5

\* Away from sounds _address moves by the bytes that are read.
LEMMA AddressesKeepUp ==
  ASSUME NEW params, NEW string \in Seq(STRING),
         \/ params \in ScummFormats /\ "sound" \notin ToSet(string)
         \/ params \in WorldFormats
  PROVE  ParamAddress(params, string) = ParamBytes(params, string)
<1>1. CASE params \in ScummFormats /\ "sound" \notin ToSet(string)
  <2>1. \A i \in DOMAIN string : string[i] # "sound"
    BY <1>1 DEF ToSet
  <2>2. \A item : item # "sound" => ItemBytes(item) = ItemAddress(item)
    BY DEF ItemBytes, ItemAddress, Escapes
  <2>3. [i \in DOMAIN string |-> ItemBytes(string[i])] = [i \in DOMAIN string |-> ItemAddress(string[i])]
    BY <2>1, <2>2
  <2> QED
    BY <2>3 DEF ParamAddress, ParamBytes
<1>2. CASE params \in WorldFormats
  <2>1. "c" \notin ToSet(params)
    <3>1. ToSet(<<>>) = {} /\ ToSet(<<"w">>) = {"w"}
      BY DEF ToSet
    <3> QED
      BY <3>1, <1>2 DEF WorldFormats
  <2> QED
    BY <2>1, <1>2 DEF ParamAddress, ParamBytes, WorldFormats
<1> QED
  BY <1>1, <1>2

\* Of a world script the code up to the first return is read.
LEMMA FirstReturn ==
  ASSUME NEW s, IsScript(s), s.engine = "world"
  PROVE  \E r \in 1 .. Len(s.code) :
           /\ s.code[r].op = \h203 /\ \A j \in 1 .. r - 1 : s.code[j].op # \h203
           /\ Len(CodeToRead(s)) = r /\ DOMAIN CodeToRead(s) = 1 .. r
           /\ r = Len(s.code) => CodeToRead(s) = s.code
<1> DEFINE n == Len(s.code)
           first == CHOOSE i \in Returns(s) : \A j \in Returns(s) : i <= j
<1>1. n \in Nat /\ DOMAIN s.code = 1 .. n /\ s.code # <<>> /\ s.code[n].op = \h203
  BY ScriptFacts
<1>2. PICK C : s.code \in Seq(C)
  BY ScriptFacts
<1>3. n # 0
  BY <1>1, <1>2, EmptySeq
<1>4. Returns(s) = {i \in 1 .. n : s.code[i].op = \h203}
  BY <1>1 DEF Returns
<1>5. first \in Returns(s) /\ \A j \in Returns(s) : first <= j
  <2>1. n \in Returns(s) /\ Returns(s) \subseteq Nat
    BY <1>1, <1>3, <1>4
  <2>2. \E i \in Returns(s) : \A j \in Returns(s) : i <= j
    BY <2>1, LeastNatural
  <2> QED
    BY <2>2
<1>6. CodeToRead(s) = SubSeq(s.code, 1, first)
  BY DEF CodeToRead
<1> HIDE DEF first
<1>7. first \in 1 .. n /\ s.code[first].op = \h203
  BY <1>4, <1>5
<1>8. \A j \in 1 .. first - 1 : s.code[j].op # \h203
  <2>1. \A j \in 1 .. first - 1 : j \in 1 .. n /\ ~ (first <= j)
    BY <1>1, <1>7
  <2> QED
    BY <2>1, <1>4, <1>5
<1>9. Len(CodeToRead(s)) = first /\ CodeToRead(s) \in Seq(C)
  <2>1. \A i \in 1 .. first : s.code[i] \in C
    BY <1>1, <1>2, <1>7
  <2> QED
    BY <2>1, <1>1, <1>6, <1>7, SubSeqProperties
<1>10. DOMAIN CodeToRead(s) = 1 .. first
  BY <1>9
<1>11. first = n => CodeToRead(s) = s.code
  BY <1>2, <1>6, SubSeqFull
<1> QED
  BY <1>7, <1>8, <1>9, <1>10, <1>11

----------------------------------------------------------------------------
(***************************************************************************)
(* The inductive invariant of reading.  As long as no seek has led it      *)
(* elsewhere, the instructions read are those at the beginning of the      *)
(* code, with the addresses they have there; the position is that of the   *)
(* next one, and _address keeps its distance from it.  In a block whose    *)
(* name ends with no opcode nothing is read behind the seek of an          *)
(* override.                                                               *)
(***************************************************************************)
Entry == {"op", "address", "change", "val", "dest"}
AddressOf(i) == At(script)[i] - Base(script)
InWords == ~IsScumm /\ Disassembled
LeadsTo(k) ==
  LET to == script.code[k].to IN IF IsScumm THEN AddressOf(to) ELSE AddressOf(to) \div 2

ReadAs(k) ==
  /\ DOMAIN insts[k] = Entry /\ insts[k].val \in Int
  /\ insts[k].op \in DOMAIN OpcodesOf(script.engine)

InPlace(k) ==
  /\ insts[k].op = script.code[k].op
  /\ OpcodesOf(script.engine)[insts[k].op].params # <<"a">> => insts[k].val = script.code[k].val
  /\ insts[k].address = IF InWords THEN AddressOf(k) \div 2 ELSE AddressOf(k)
  /\ insts[k].dest \in {NoDest, LeadsTo(k)}

AllInPlace ==
  /\ Len(insts) <= Len(script.code)
  /\ \A k \in 1 .. Len(insts) : InPlace(k)
  /\ ~IsScumm => \A k \in 1 .. Len(insts) - 1 : script.code[k].op # \h203

ReadSoFar ==
  /\ \A k \in 1 .. Len(insts) : ReadAs(k)
  /\ ~Strayed => AllInPlace

\* An override of such a block is the end, unless a sound comes before it.
Locked ==
  /\ IsScumm /\ script.block \notin DOMAIN NameOpcode
  /\ \A i \in DOMAIN script.code : ~Sounds(script.code[i])

\* The stack effects are those of the table until the first of them is taken apart.
EffectsOfTable == \A k \in 1 .. Len(insts) : insts[k].change \in Int

ReadInv ==
  /\ IsScript(script) /\ stream = StreamOf(script)
  /\ Len(insts) \in Nat /\ DOMAIN insts = 1 .. Len(insts) /\ insts \in Seq(ToSet(insts))
  /\ it \in Nat
  /\ phase \in {"header", "read", "string", "fix", "process", "done", "failed", "undefined"}
  /\ phase = "header" => insts = <<>>
  /\ phase = "string" => Strayed
  /\ phase \in {"read", "string", "fix"} \/ Disassembled => ReadSoFar
  /\ phase = "read" /\ ~Strayed => position = At(script)[Len(insts) + 1]
                                   /\ address = AddressOf(Len(insts) + 1)
  /\ phase \in {"read", "string"} \/ (phase = "fix" /\ it = 0) => EffectsOfTable
  /\ phase = "fix" => IsScumm /\ (~Strayed => Len(insts) = Len(script.code))
  /\ Disassembled /\ ~Strayed => Len(insts) = Len(CodeToRead(script))
  /\ phase = "failed" /\ it = 0 => Unreadable(script) \/ Strayed
  /\ Locked /\ Strayed => phase = "failed" \/ (phase = "read" /\ position = OverrideSeek)
  /\ phase \in {"header", "read", "string", "fix"} \/ it = 0 => stack = <<>>

LEMMA Kept ==
  ASSUME script' = script, DOMAIN insts' = DOMAIN insts
  PROVE  (IsScumm' <=> IsScumm) /\ (Strayed' <=> Strayed) /\ (Locked' <=> Locked)
<1>1. IsScumm' <=> IsScumm
  BY DEF IsScumm
<1>2. \A inst : Seeks(inst)' <=> Seeks(inst)
  BY <1>1 DEF Seeks, Sounds, Overrides
<1> QED
  BY <1>1, <1>2 DEF Strayed, Locked

LEMMA WorldsStay == ~IsScumm => ~Strayed
BY DEF Strayed

LEMMA Appended ==
  ASSUME NEW s, s \in Seq(ToSet(s)), NEW e
  PROVE  /\ Append(s, e) \in Seq(ToSet(Append(s, e)))
         /\ Len(Append(s, e)) = Len(s) + 1 /\ DOMAIN Append(s, e) = 1 .. Len(s) + 1
         /\ Append(s, e)[Len(s) + 1] = e
         /\ \A k \in 1 .. Len(s) : Append(s, e)[k] = s[k]
<1> DEFINE T == ToSet(s) \cup {e}
           t == Append(s, e)
<1>1. s \in Seq(T) /\ e \in T
  BY SeqMonotonic
<1> HIDE DEF T
<1>2. /\ t \in Seq(T) /\ Len(t) = Len(s) + 1 /\ t[Len(s) + 1] = e
      /\ \A k \in 1 .. Len(s) : t[k] = s[k]
  BY <1>1, AppendProperties
<1> HIDE DEF t
<1>3. DOMAIN t = 1 .. Len(s) + 1
  BY <1>2
<1>4. t \in Seq(ToSet(t))
  BY <1>2 DEF ToSet
<1> QED
  BY <1>2, <1>3, <1>4 DEF t

LEMMA Rewritten ==
  ASSUME NEW s, s \in Seq(ToSet(s)), NEW t, t = [k \in DOMAIN s |-> t[k]]
  PROVE  t \in Seq(ToSet(t)) /\ Len(t) = Len(s) /\ DOMAIN t = DOMAIN s
<1>1. Len(s) \in Nat /\ DOMAIN s = 1 .. Len(s)
  OBVIOUS
<1>2. t = [k \in 1 .. Len(s) |-> t[k]]
  BY <1>1
<1>3. DOMAIN t = 1 .. Len(s) /\ \A k \in 1 .. Len(s) : t[k] \in ToSet(t)
  BY <1>2 DEF ToSet
<1>4. t \in [1 .. Len(s) -> ToSet(t)]
  BY <1>2, <1>3
<1> QED
  BY <1>1, <1>3, <1>4

LEMMA ReadInvInit == StackCodeInit => ReadInv
<1> SUFFICES ASSUME StackCodeInit PROVE ReadInv
  OBVIOUS
<1>1. IsScript(script) /\ stream = StreamOf(script) /\ phase = "header" /\ insts = <<>>
      /\ it = 0 /\ stack = <<>>
  BY DEF StackCodeInit, StackInit, IsScript
<1>2. Len(insts) = 0 /\ DOMAIN insts = 1 .. 0 /\ insts \in Seq(ToSet(insts))
  BY <1>1, EmptySeq
<1>3. ~Strayed
  BY <1>2 DEF Strayed
<1> QED
  BY <1>1, <1>2, <1>3 DEF ReadInv, Disassembled

\* What is known of a script while its opcodes are read.
LEMMA WhileReading ==
  ASSUME ReadInv, phase = "read", ~Strayed, IsScumm \/ ~WorldEnded,
         IsScumm => position # StreamEnd(script)
  PROVE  /\ Len(insts) + 1 \in 1 .. Len(script.code)
         /\ position = At(script)[Len(insts) + 1] /\ address = AddressOf(Len(insts) + 1)
         /\ ~IsScumm => \A k \in 1 .. Len(insts) : script.code[k].op # \h203
         /\ Len(insts) + 1 \in DOMAIN CodeToRead(script)
<1> DEFINE n == Len(insts)
           m == Len(script.code)
<1>1. IsScript(script) /\ n \in Nat /\ n <= m /\ m \in Nat
      /\ position = At(script)[n + 1] /\ address = AddressOf(n + 1)
      /\ script.engine \in {"scumm", "world"} /\ DOMAIN script.code = 1 .. m
  BY ScriptFacts DEF ReadInv, ReadSoFar, AllInPlace
<1>2. ASSUME ~IsScumm
      PROVE  /\ n < m /\ n + 1 \in DOMAIN CodeToRead(script)
             /\ \A k \in 1 .. n : script.code[k].op # \h203
  <2>1. \A k \in 1 .. n - 1 : script.code[k].op # \h203
    BY <1>2 DEF ReadInv, ReadSoFar, AllInPlace
  <2>2. ASSUME n # 0 PROVE script.code[n].op # \h203
    <3>1. insts # <<>> /\ n \in 1 .. n
      BY <1>1, <2>2 DEF ReadInv
    <3>2. Last(insts).op # \h203
      BY <1>2, <3>1 DEF WorldEnded
    <3>3. insts[n].op = script.code[n].op
      BY <3>1 DEF ReadInv, ReadSoFar, AllInPlace, InPlace
    <3> QED
      BY <3>2, <3>3 DEF Last
  <2>3. \A k \in 1 .. n : script.code[k].op # \h203
    BY <1>1, <2>1, <2>2
  <2>4. PICK r \in 1 .. m : /\ script.code[r].op = \h203 /\ DOMAIN CodeToRead(script) = 1 .. r
    <3>1. script.engine = "world"
      BY <1>1, <1>2 DEF IsScumm
    <3> QED
      BY <1>1, <3>1, FirstReturn
  <2>5. ~ (r <= n)
    BY <1>1, <2>3, <2>4
  <2> QED
    BY <1>1, <2>3, <2>4, <2>5
<1>3. ASSUME IsScumm
      PROVE  n < m /\ n + 1 \in DOMAIN CodeToRead(script)
  <2>1. position # At(script)[m + 1]
    BY <1>3 DEF StreamEnd, At
  <2>2. n # m
    BY <1>1, <2>1
  <2>3. CodeToRead(script) = script.code
    BY <1>3 DEF CodeToRead, IsScumm
  <2> QED
    BY <1>1, <2>2, <2>3
<1> QED
  BY <1>1, <1>2, <1>3

\* What the fields of the instruction read next are.
LEMMA NextEntry ==
  ASSUME ReadInv, phase = "read", ~Strayed, IsScumm \/ ~WorldEnded,
         IsScumm => position # StreamEnd(script),
         NEW i, i = Len(insts) + 1, NEW stored, stored = stream[position]
  PROVE  /\ position \in DOMAIN stream
         /\ stored.op = script.code[i].op /\ stored.val = script.code[i].val
         /\ stored.string = script.code[i].string
         /\ DestOf(address, stored) = LeadsTo(i)
         /\ Sounds(stored) = Sounds(script.code[i]) /\ Overrides(stored) = Overrides(script.code[i])
         /\ Sounds(stored) => IsScumm
         /\ stored.op \in DOMAIN OpcodesOf(script.engine) /\ ~Seeks(stored) =>
              /\ address + OpcodeBytes(script.engine, stored.op)
                   + ParamAddress(OpcodesOf(script.engine)[stored.op].params, ItemsRead(stored))
                   + SkippedBytes(stored) = AddressOf(i + 1)
              /\ position + BytesIn(script.engine, stored) = At(script)[i + 1]
<1> DEFINE m == Len(script.code)
           engine == script.engine
           to == script.code[i].to
           pos == At(script)[i]
<1>1. IsScript(script) /\ i \in 1 .. m /\ position = pos /\ address = AddressOf(i)
      /\ stream = StreamOf(script)
  BY WhileReading DEF ReadInv
<1>2. /\ engine \in {"scumm", "world"} /\ m \in Nat
      /\ script.code[i].string \in Seq(STRING) /\ to \in 1 .. m + 1
      /\ FirstPosition(script) \in Nat
  BY <1>1, ScriptFacts
<1>3. stored = [op |-> script.code[i].op, val |-> script.code[i].val,
                string |-> script.code[i].string,
                target |-> StoredTarget(script, pos, At(script)[to])]
  BY <1>1, StreamHolds
<1>4. pos \in Nat /\ At(script)[to] \in Nat
  BY <1>1, <1>2, Layout
<1>5. Base(script) \in Nat
  BY <1>2 DEF Base
<1>6. stored.op = script.code[i].op /\ stored.val = script.code[i].val
      /\ stored.string = script.code[i].string
      /\ stored.target = StoredTarget(script, pos, At(script)[to])
  BY <1>3
<1> DEFINE target == At(script)[to]
<1>7. DestOf(address, stored) = LeadsTo(i)
  <2> HIDE DEF pos, to
  <2>1. CASE IsScumm
    <3>1. stored.target = target - (pos + 3) /\ address = pos - Base(script)
      BY <1>1, <1>6, <2>1 DEF StoredTarget, IsScumm, AddressOf, pos
    <3>2. DestOf(address, stored) = (pos - Base(script)) + 3 + (target - (pos + 3))
      BY <3>1, <2>1 DEF DestOf
    <3>3. LeadsTo(i) = target - Base(script)
      BY <2>1 DEF LeadsTo, AddressOf, to
    <3> QED
      BY <3>2, <3>3, <1>4, <1>5
  <2>2. CASE ~IsScumm
    <3>1. stored.target = (target - 1024) \div 2
      BY <1>6, <2>2 DEF StoredTarget, IsScumm, WorldHeader
    <3>2. DestOf(address, stored) = 512 + ((target - 1024) \div 2)
      BY <3>1, <2>2 DEF DestOf, WorldCodeAddress
    <3>3. LeadsTo(i) = (target - 0) \div 2
      BY <2>2 DEF LeadsTo, AddressOf, IsScumm, Base, to
    <3> QED
      BY <3>2, <3>3, <1>4
  <2> QED
    BY <2>1, <2>2
<1>8. ASSUME stored.op \in DOMAIN OpcodesOf(engine), ~Seeks(stored)
      PROVE  /\ address + OpcodeBytes(engine, stored.op)
                  + ParamAddress(OpcodesOf(engine)[stored.op].params, ItemsRead(stored))
                  + SkippedBytes(stored) = AddressOf(i + 1)
             /\ position + BytesIn(engine, stored) = At(script)[i + 1]
  <2> DEFINE params == OpcodesOf(engine)[stored.op].params
             bytes == OpcodeBytes(engine, stored.op) + ParamBytes(params, stored.string)
  <2>1. BytesIn(engine, script.code[i]) = bytes /\ BytesIn(engine, stored) = bytes
    BY <1>6, <1>8 DEF BytesIn
  <2>2. SkippedBytes(stored) = 0 /\ ItemsRead(stored) = stored.string
    BY <1>8 DEF SkippedBytes, ItemsRead, Seeks
  <2>3. ParamAddress(params, stored.string) = ParamBytes(params, stored.string)
    <3>1. params \in ScummFormats /\ (engine = "world" => params \in WorldFormats)
      BY <1>2, <1>8, KnownFormats
    <3>2. "sound" \notin ToSet(stored.string)
      BY <1>8 DEF Seeks, Sounds
    <3> HIDE DEF params, engine
    <3> QED
      BY <1>2, <1>6, <3>1, <3>2, AddressesKeepUp
  <2>4. At(script)[i + 1] = pos + bytes
    BY <1>1, <2>1, Layout
  <2>5. OpcodeBytes(engine, stored.op) \in {1, 2} /\ ParamBytes(params, stored.string) \in Nat
    <3>1. params \in ScummFormats
      BY <1>2, <1>8, KnownFormats
    <3> HIDE DEF params
    <3> QED
      BY <1>2, <1>6, <3>1, ParamsAddUp DEF OpcodeBytes
  <2>6. AddressOf(i) = pos - Base(script) /\ AddressOf(i + 1) = At(script)[i + 1] - Base(script)
    BY DEF AddressOf
  <2> DEFINE a == OpcodeBytes(engine, stored.op)
             b == ParamBytes(params, stored.string)
             c == ParamAddress(params, stored.string)
             skipped == SkippedBytes(stored)
  <2>7. a \in Int /\ b \in Int /\ c = b /\ skipped = 0
    BY <2>2, <2>3, <2>5
  <2>8. address = pos - Base(script) /\ position = pos
    BY <1>1, <2>6
  <2> HIDE DEF pos, a, b, c, skipped
  <2>9. address + a + c + skipped = (pos + (a + b)) - Base(script)
    BY <1>4, <1>5, <2>7, <2>8
  <2>10. position + BytesIn(engine, stored) = pos + (a + b)
    BY <2>1, <2>8 DEF a, b
  <2>11. At(script)[i + 1] = pos + (a + b)
    BY <2>4 DEF a, b
  <2>12. address + OpcodeBytes(engine, stored.op) + ParamAddress(params, ItemsRead(stored))
           + SkippedBytes(stored) = address + a + c + skipped
    BY <2>2 DEF a, c, skipped
  <2> QED
    BY <2>6, <2>9, <2>10, <2>11, <2>12
<1>9. Sounds(stored) = Sounds(script.code[i]) /\ Overrides(stored) = Overrides(script.code[i])
  BY <1>6 DEF Sounds, Overrides
<1>10. Sounds(stored) => IsScumm
  BY <1>1, <1>2, <1>9, ScriptFacts DEF IsScumm
<1>11. position \in DOMAIN stream
  BY <1>1, StreamHolds
<1> QED
  BY <1>6, <1>7, <1>8, <1>9, <1>10, <1>11

\* What the step of one opcode leaves, whether it is in its place or not.
LEMMA OpcodeKnown ==
  ASSUME ReadInv, phase = "read", ReadOpcode, ~Unknown, UNCHANGED <<script, stream>>,
         NEW stored, stored = stream[position]
  PROVE  /\ phase' \in {"read", "string"} /\ (phase' = "string" <=> Sounds(stored))
         /\ insts' \in Seq(ToSet(insts')) /\ Len(insts') = Len(insts) + 1
         /\ DOMAIN insts' = 1 .. Len(insts) + 1 /\ it' = it
         /\ \A k \in 1 .. Len(insts) : insts'[k] = insts[k]
         /\ ReadSoFar => \A k \in 1 .. Len(insts) + 1 : ReadAs(k)'
         /\ EffectsOfTable => EffectsOfTable'
         /\ Strayed' <=> \/ Strayed
                         \/ IsScumm /\ Len(insts) + 1 \in DOMAIN script.code
                            /\ Seeks(script.code[Len(insts) + 1])
         /\ stored.op \in DOMAIN OpcodesOf(script.engine)
         /\ position' = CASE Overrides(stored) -> OverrideSeek
                          [] Sounds(stored) -> position
                          [] OTHER -> position + BytesIn(script.engine, stored)
         /\ address' = address + OpcodeBytes(script.engine, stored.op)
                        + ParamAddress(OpcodesOf(script.engine)[stored.op].params, ItemsRead(stored))
                        + SkippedBytes(stored)
         /\ LET entry == insts'[Len(insts) + 1]
                table == OpcodesOf(script.engine)
            IN /\ entry.op = stored.op /\ entry.address = address
               /\ table[stored.op].params # <<"a">> => entry.val = stored.val
               /\ entry.dest \in {NoDest, DestOf(address, stored)}
<1> DEFINE n == Len(insts)
           table == OpcodesOf(script.engine)
           known == table[stored.op]
           entry == [op |-> stored.op, address |-> address, change |-> known.change,
                     val |-> FirstNumber(stored, known.params),
                     dest |-> IF known.class \in {"CondJump", "Jump"} THEN DestOf(address, stored)
                              ELSE NoDest]
<1>1. /\ IsScript(script) /\ stream = StreamOf(script)
      /\ n \in Nat /\ DOMAIN insts = 1 .. n /\ insts \in Seq(ToSet(insts))
      /\ script.engine \in {"scumm", "world"}
  BY ScriptFacts DEF ReadInv
<1>2. position \in DOMAIN stream /\ stored.op \in DOMAIN table
  BY DEF Unknown
<1>3. /\ insts' = Append(insts, entry) /\ it' = it
      /\ phase' = IF Sounds(stored) THEN "string" ELSE "read"
      /\ position' = CASE Overrides(stored) -> OverrideSeek
                       [] Sounds(stored) -> position
                       [] OTHER -> position + BytesIn(script.engine, stored)
      /\ address' = address + OpcodeBytes(script.engine, stored.op)
                     + ParamAddress(known.params, ItemsRead(stored)) + SkippedBytes(stored)
  BY DEF ReadOpcode
<1>4. stored.val \in Int /\ stored.target \in Int
  BY <1>1, <1>2, StreamTyped
<1>5. known.change \in Int
  BY <1>1, <1>2, KnownFormats
<1>6. /\ DOMAIN entry = Entry /\ entry.op = stored.op /\ entry.val \in Int
      /\ entry.address = address /\ entry.change \in Int
      /\ known.params # <<"a">> => entry.val = stored.val
      /\ entry.dest \in {NoDest, DestOf(address, stored)}
  <2>1. FirstNumber(stored, known.params) \in Int
        /\ (known.params # <<"a">> => FirstNumber(stored, known.params) = stored.val)
    <3> HIDE DEF known
    <3> QED
      BY <1>4 DEF FirstNumber
  <2> HIDE DEF known
  <2> QED
    BY <1>5, <2>1 DEF Entry
<1> HIDE DEF entry
<1>7. /\ insts' \in Seq(ToSet(insts')) /\ Len(insts') = n + 1 /\ DOMAIN insts' = 1 .. n + 1
      /\ insts'[n + 1] = entry /\ \A k \in 1 .. n : insts'[k] = insts[k]
  BY <1>1, <1>3, Appended
<1> HIDE DEF known
<1>8. \A k \in 1 .. n + 1 : k \in 1 .. n \/ k = n + 1
  BY <1>1
<1>9. ReadSoFar => \A k \in 1 .. n + 1 : ReadAs(k)'
  BY <1>2, <1>6, <1>7, <1>8 DEF ReadSoFar, ReadAs
<1>10. EffectsOfTable => EffectsOfTable'
  BY <1>6, <1>7, <1>8 DEF EffectsOfTable
<1>11. Strayed' <=> Strayed \/ (IsScumm /\ n + 1 \in DOMAIN script.code /\ Seeks(script.code[n + 1]))
  <2>1. IsScumm' <=> IsScumm
    BY DEF IsScumm
  <2>2. \A inst : Seeks(inst)' <=> Seeks(inst)
    BY <2>1 DEF Seeks, Sounds, Overrides
  <2>3. Strayed' <=> IsScumm /\ \E k \in 1 .. n + 1 : k \in DOMAIN script.code /\ Seeks(script.code[k])
    BY <1>7, <2>1, <2>2 DEF Strayed
  <2>4. Strayed <=> IsScumm /\ \E k \in 1 .. n : k \in DOMAIN script.code /\ Seeks(script.code[k])
    BY <1>1 DEF Strayed
  <2>5. n + 1 \in 1 .. n + 1 /\ \A k \in 1 .. n : k \in 1 .. n + 1
    BY <1>1
  <2> QED
    BY <1>8, <2>3, <2>4, <2>5
<1> HIDE DEF n, table
<1> QED
  BY <1>2, <1>3, <1>6, <1>7, <1>9, <1>10, <1>11 DEF n, table, known

\* In its place, it is the next instruction of the code.
LEMMA NextInPlace ==
  ASSUME ReadInv, phase = "read", ~Strayed, IsScumm \/ ~WorldEnded,
         IsScumm => position # StreamEnd(script),
         ReadOpcode, ~Unknown, UNCHANGED <<script, stream>>, ~Strayed'
  PROVE  /\ phase' = "read" /\ AllInPlace'
         /\ position' = At(script)[Len(insts') + 1]
         /\ address' = At(script)[Len(insts') + 1] - Base(script)
<1> DEFINE n == Len(insts)
           i == n + 1
<1>1. PICK stored : stored = stream[position]
  OBVIOUS
<1>2. /\ i \in 1 .. Len(script.code) /\ position = At(script)[i] /\ address = AddressOf(i)
      /\ ~IsScumm => \A k \in 1 .. n : script.code[k].op # \h203
  BY WhileReading
<1>3. /\ stored.op = script.code[i].op /\ stored.val = script.code[i].val
      /\ DestOf(address, stored) = LeadsTo(i)
      /\ Sounds(stored) = Sounds(script.code[i]) /\ Overrides(stored) = Overrides(script.code[i])
      /\ Sounds(stored) => IsScumm
  BY <1>1, NextEntry
<1>4. /\ IsScript(script) /\ n \in Nat /\ DOMAIN insts = 1 .. n /\ AllInPlace
      /\ Len(script.code) \in Nat /\ DOMAIN script.code = 1 .. Len(script.code)
  BY ScriptFacts DEF ReadInv, ReadSoFar
<1>5. ~Sounds(stored) /\ ~Overrides(stored) /\ ~Seeks(stored)
  <2>1. ~(IsScumm /\ i \in DOMAIN script.code /\ Seeks(script.code[i]))
    BY <1>1, OpcodeKnown
  <2>2. Overrides(stored) => IsScumm
    BY DEF Overrides
  <2> HIDE DEF i
  <2> QED
    BY <1>2, <1>3, <1>4, <2>1, <2>2 DEF Seeks
<1>6. /\ phase' = "read" /\ Len(insts') = i /\ DOMAIN insts' = 1 .. i
      /\ stored.op \in DOMAIN OpcodesOf(script.engine)
      /\ \A k \in 1 .. n : insts'[k] = insts[k]
  BY <1>1, <1>5, OpcodeKnown
<1>7. /\ insts'[i].op = stored.op /\ insts'[i].address = address
      /\ OpcodesOf(script.engine)[stored.op].params # <<"a">> => insts'[i].val = stored.val
      /\ insts'[i].dest \in {NoDest, DestOf(address, stored)}
  BY <1>1, OpcodeKnown
<1>8. position' = At(script)[i + 1] /\ address' = AddressOf(i + 1)
  <2>1. /\ position' = position + BytesIn(script.engine, stored)
        /\ address' = address + OpcodeBytes(script.engine, stored.op)
                       + ParamAddress(OpcodesOf(script.engine)[stored.op].params, ItemsRead(stored))
                       + SkippedBytes(stored)
    BY <1>1, <1>5, OpcodeKnown
  <2>2. /\ address + OpcodeBytes(script.engine, stored.op)
             + ParamAddress(OpcodesOf(script.engine)[stored.op].params, ItemsRead(stored))
             + SkippedBytes(stored) = AddressOf(i + 1)
        /\ position + BytesIn(script.engine, stored) = At(script)[i + 1]
    BY <1>1, <1>5, <1>6, NextEntry
  <2> QED
    BY <2>1, <2>2
<1>9. ~InWords /\ ~(InWords') /\ (\A j : AddressOf(j)' = AddressOf(j) /\ LeadsTo(j)' = LeadsTo(j))
      /\ (IsScumm' <=> IsScumm)
  BY <1>6 DEF InWords, Disassembled, LeadsTo, AddressOf, IsScumm
<1>10. \A k \in 1 .. i : k \in 1 .. n \/ k = i
  BY <1>4
<1>11. n = i - 1 /\ i \in Nat
  BY <1>4
<1> HIDE DEF i, n
<1>12. ASSUME NEW k \in 1 .. i
       PROVE  InPlace(k)'
  <2>1. CASE k \in 1 .. n
    <3>1. InPlace(k) /\ insts'[k] = insts[k]
      BY <1>4, <1>6, <2>1 DEF AllInPlace, n
    <3> QED
      BY <3>1, <1>9 DEF InPlace
  <2>2. CASE k = i
    <3>1. /\ insts'[k].op = script.code[k].op /\ insts'[k].address = AddressOf(k)
          /\ OpcodesOf(script.engine)[insts'[k].op].params # <<"a">> =>
               insts'[k].val = script.code[k].val
          /\ insts'[k].dest \in {NoDest, LeadsTo(k)}
      BY <1>2, <1>3, <1>7, <2>2
    <3> QED
      BY <3>1, <1>9 DEF InPlace
  <2> QED
    BY <1>10, <2>1, <2>2
<1>13. AllInPlace'
  BY <1>2, <1>6, <1>9, <1>11, <1>12 DEF AllInPlace
<1> QED
  BY <1>6, <1>8, <1>13 DEF AddressOf

\* Nothing of a locked script is read behind an override.
LEMMA LockedRead ==
  ASSUME ReadInv, phase = "read", IsScumm => position # StreamEnd(script), ReadOpcode, ~Unknown,
         UNCHANGED <<script, stream>>, Locked', Strayed'
  PROVE  phase' = "read" /\ position' = OverrideSeek
<1>1. PICK stored : stored = stream[position]
  OBVIOUS
<1>2. IsScript(script) /\ stream = StreamOf(script) /\ position \in DOMAIN stream
  BY DEF ReadInv, Unknown
<1>3. IsScumm /\ script.block \notin DOMAIN NameOpcode
      /\ \A i \in DOMAIN script.code : ~Sounds(script.code[i])
  BY DEF Locked, IsScumm, Sounds
<1>4. Locked
  BY <1>3 DEF Locked
<1>5. ~Strayed
  <2> SUFFICES ASSUME Strayed PROVE FALSE
    OBVIOUS
  <2>1. position = OverrideSeek
    BY <1>4 DEF ReadInv
  <2> QED
    BY <1>2, <1>3, <2>1, StreamTyped DEF IsScumm
<1>6. Len(insts) + 1 \in DOMAIN script.code /\ Seeks(script.code[Len(insts) + 1])
  BY <1>1, <1>5, OpcodeKnown
<1>7. Overrides(script.code[Len(insts) + 1]) /\ ~Sounds(script.code[Len(insts) + 1])
  BY <1>3, <1>6 DEF Seeks
<1>8. Overrides(stored) /\ ~Sounds(stored)
  BY <1>1, <1>3, <1>5, <1>7, NextEntry
<1> QED
  BY <1>1, <1>8, OpcodeKnown

LEMMA OpcodeRead ==
  ASSUME ReadInv, phase = "read", IsScumm \/ ~WorldEnded, IsScumm => position # StreamEnd(script),
         ReadOpcode, UNCHANGED <<script, stream, stack>>
  PROVE  ReadInv'
<1> DEFINE i == Len(insts) + 1
<1>1. /\ IsScript(script) /\ stream = StreamOf(script)
      /\ Len(insts) \in Nat /\ DOMAIN insts = 1 .. Len(insts) /\ insts \in Seq(ToSet(insts))
      /\ it \in Nat /\ stack = <<>> /\ ReadSoFar /\ EffectsOfTable
  BY DEF ReadInv
<1>2. UNCHANGED <<script, stream, stack, it>>
  BY DEF ReadOpcode, Fail
<1>3. PICK stored : stored = stream[position]
  OBVIOUS
<1>4. CASE Unknown
  <2>1. phase' = "failed" /\ insts' = insts
    BY <1>4 DEF ReadOpcode, Fail
  <2>2. Unreadable(script) \/ Strayed
    <3> SUFFICES ASSUME ~Strayed PROVE Unreadable(script)
      OBVIOUS
    <3>1. i \in 1 .. Len(script.code) /\ i \in DOMAIN CodeToRead(script)
      BY WhileReading
    <3>2. position \in DOMAIN stream /\ stored.op = script.code[i].op
      BY <1>3, NextEntry
    <3> HIDE DEF i
    <3>3. script.code[i].op \notin DOMAIN OpcodesOf(script.engine)
      BY <1>3, <1>4, <3>2 DEF Unknown
    <3> QED
      BY <3>1, <3>3 DEF Unreadable
  <2>3. Strayed' <=> Strayed
    BY <1>2, <2>1, Kept
  <2> QED
    BY <1>1, <1>2, <2>1, <2>2, <2>3 DEF ReadInv, Disassembled
<1>5. CASE ~Unknown
  <2>1. /\ phase' \in {"read", "string"} /\ (phase' = "string" <=> Sounds(stored))
        /\ insts' \in Seq(ToSet(insts')) /\ Len(insts') = i /\ DOMAIN insts' = 1 .. i
        /\ \A k \in 1 .. i : ReadAs(k)'
        /\ EffectsOfTable'
        /\ Strayed' <=> Strayed \/ (IsScumm /\ i \in DOMAIN script.code /\ Seeks(script.code[i]))
    BY <1>1, <1>3, <1>5, OpcodeKnown
  <2>2. ~Strayed' => /\ phase' = "read" /\ AllInPlace'
                     /\ position' = At(script)[Len(insts') + 1]
                     /\ address' = At(script)[Len(insts') + 1] - Base(script)
    BY <1>5, <2>1, NextInPlace
  <2>3. phase' = "string" => Strayed'
    BY <2>2
  <2>4. ReadSoFar'
    BY <2>1, <2>2 DEF ReadSoFar
  <2>5. Locked' /\ Strayed' => phase' = "read" /\ position' = OverrideSeek
    BY <1>5, LockedRead
  <2>6. i \in Nat
    BY <1>1
  <2> HIDE DEF i
  <2> QED
    BY <1>1, <1>2, <2>1, <2>2, <2>3, <2>4, <2>5, <2>6 DEF ReadInv, Disassembled, AddressOf
<1> QED
  BY <1>4, <1>5

----------------------------------------------------------------------------
(***************************************************************************)
(* The steps of the disassembler.                                          *)
(***************************************************************************)
LEMMA HeaderRead ==
  ASSUME ReadInv, ReadHeader, UNCHANGED stack
  PROVE  ReadInv'
<1>1. /\ IsScript(script) /\ stream = StreamOf(script) /\ phase = "header" /\ insts = <<>>
      /\ it \in Nat /\ stack = <<>> /\ insts' = insts /\ it' = it
      /\ UNCHANGED <<script, stream, stack>>
  BY DEF ReadInv, ReadHeader, Fail
<1>2. /\ Len(insts) = 0 /\ DOMAIN insts = 1 .. 0 /\ insts \in Seq(ToSet(insts))
      /\ ~Strayed /\ ~Strayed'
  BY <1>1, EmptySeq DEF Strayed
<1>3. CASE IsScumm /\ script.block \notin KnownBlocks
  <2>1. phase' = "failed" /\ Unreadable(script)
    BY <1>3 DEF ReadHeader, Fail, Unreadable, IsScumm
  <2> QED
    BY <1>1, <1>2, <2>1 DEF ReadInv, Disassembled
<1>4. CASE ~(IsScumm /\ script.block \notin KnownBlocks)
  <2>1. phase' = "read" /\ position' = FirstPosition(script)
        /\ address' = IF IsScumm THEN 0 ELSE FirstPosition(script)
    BY <1>4 DEF ReadHeader
  <2>2. At(script)[1] = FirstPosition(script) /\ FirstPosition(script) \in Nat /\ Len(script.code) \in Nat
    BY <1>1, Layout, ScriptFacts
  <2>3. position' = At(script)[1] /\ address' = At(script)[1] - Base(script)
    BY <2>1, <2>2 DEF Base, IsScumm
  <2>4. ReadSoFar' /\ EffectsOfTable'
    BY <1>1, <1>2, <2>2 DEF ReadSoFar, AllInPlace, EffectsOfTable
  <2> QED
    BY <1>1, <1>2, <2>1, <2>3, <2>4 DEF ReadInv, Disassembled, AddressOf
<1> QED
  BY <1>3, <1>4

LEMMA ScummEnded ==
  ASSUME ReadInv, EndScumm, UNCHANGED stack
  PROVE  ReadInv'
<1>1. /\ IsScript(script) /\ phase = "read" /\ IsScumm /\ position = StreamEnd(script)
      /\ phase' = "fix" /\ UNCHANGED <<script, stream, insts, it, stack>>
  BY DEF ReadInv, EndScumm
<1> DEFINE n == Len(insts)
           m == Len(script.code)
<1>2. n \in Nat /\ m \in Nat
  BY <1>1, ScriptFacts DEF ReadInv
<1>3. m + 1 \in 1 .. m + 1 /\ At(script)[m + 1] = StreamEnd(script)
  BY <1>2 DEF StreamEnd, At
<1>4. ~Strayed => n = m
  <2> SUFFICES ASSUME ~Strayed, n # m PROVE FALSE
    OBVIOUS
  <2>1. n <= m
    BY <1>1 DEF ReadInv, ReadSoFar, AllInPlace
  <2>2. At(script)[n + 1] = position
    BY <1>1 DEF ReadInv
  <2>3. n + 1 \in 1 .. m + 1 /\ n + 1 < m + 1
    BY <1>2, <2>1
  <2>4. At(script)[n + 1] < At(script)[m + 1] /\ At(script)[m + 1] \in Nat
    BY <1>1, <1>3, <2>3, PositionsAscend, Layout
  <2> QED
    BY <1>1, <1>3, <2>2, <2>4
<1>5. ~(Locked /\ Strayed)
  <2>1. position >= 8 /\ position \in Nat
    BY <1>1, <1>3, ScummBegins DEF IsScumm
  <2> QED
    BY <1>1, <2>1 DEF ReadInv, OverrideSeek
<1>6. (Strayed' <=> Strayed) /\ (Locked' <=> Locked)
  BY <1>1, Kept
<1>7. ReadSoFar' /\ EffectsOfTable'
  <2>1. ReadSoFar /\ EffectsOfTable /\ ~InWords /\ ~InWords'
    BY <1>1 DEF ReadInv, InWords, Disassembled
  <2> QED
    BY <1>1, <1>6, <2>1
       DEF ReadSoFar, AllInPlace, EffectsOfTable, ReadAs, InPlace, LeadsTo, AddressOf, IsScumm
<1> QED
  BY <1>1, <1>4, <1>5, <1>6, <1>7 DEF ReadInv, Disassembled, IsScumm

\* Behind a sound nothing new is read.
LEMMA StringRead ==
  ASSUME ReadInv, ReadString, UNCHANGED stack
  PROVE  ReadInv'
<1>1. /\ phase = "string" /\ phase' \in {"read", "failed"} /\ Strayed /\ ~Locked
      /\ UNCHANGED <<script, stream, insts, it, stack>>
  BY DEF ReadInv, ReadString, Fail
<1>2. (Strayed' <=> Strayed) /\ (Locked' <=> Locked)
  BY <1>1, Kept
<1>3. ReadSoFar' /\ EffectsOfTable'
  <2>1. ReadSoFar /\ EffectsOfTable
    BY <1>1 DEF ReadInv
  <2> QED
    BY <1>1, <1>2, <2>1 DEF ReadSoFar, EffectsOfTable, ReadAs
<1> QED
  BY <1>1, <1>2, <1>3 DEF ReadInv, Disassembled

LEMMA WorldEnds ==
  ASSUME ReadInv, EndWorld, UNCHANGED stack
  PROVE  ReadInv'
<1> DEFINE n == Len(insts)
           m == Len(script.code)
<1>1. /\ IsScript(script) /\ stream = StreamOf(script) /\ phase = "read" /\ ~IsScumm /\ WorldEnded
      /\ UNCHANGED <<script, stream, it, stack>>
      /\ n \in Nat /\ DOMAIN insts = 1 .. n /\ insts \in Seq(ToSet(insts)) /\ it \in Nat
      /\ ReadSoFar /\ AllInPlace /\ position = At(script)[n + 1] /\ stack = <<>>
      /\ ~Strayed /\ ~(Strayed') /\ ~Locked /\ ~(Locked')
  BY WorldsStay DEF ReadInv, ReadSoFar, EndWorld, Fail, Strayed, Locked, IsScumm
<1>2. m \in Nat /\ DOMAIN script.code = 1 .. m /\ script.engine = "world"
  BY <1>1, ScriptFacts DEF IsScumm
<1>3. PICK r \in 1 .. m :
        /\ script.code[r].op = \h203 /\ \A j \in 1 .. r - 1 : script.code[j].op # \h203
        /\ Len(CodeToRead(script)) = r /\ DOMAIN CodeToRead(script) = 1 .. r
        /\ r = m => CodeToRead(script) = script.code
  BY <1>1, <1>2, FirstReturn
<1>4. n = r
  <2>1. n # 0 /\ n \in 1 .. n
    BY <1>1 DEF WorldEnded
  <2>2. insts[n].op = \h203
    BY <1>1 DEF WorldEnded, Last
  <2>3. insts[n].op = script.code[n].op /\ n <= m
        /\ \A k \in 1 .. n - 1 : script.code[k].op # \h203
    BY <1>1, <2>1 DEF AllInPlace, InPlace
  <2>4. ~ (r < n) /\ ~ (n < r)
    BY <1>1, <1>2, <1>3, <2>1, <2>2, <2>3
  <2>5. n \in Nat /\ r \in Nat
    BY <1>1, <1>2
  <2> HIDE DEF n, m
  <2> QED
    BY <2>4, <2>5
<1>5. CASE ~WordBehind
  <2>1. phase' = "failed" /\ insts' = insts
    BY <1>5 DEF EndWorld, Fail
  <2>2. ~script.behind /\ position \notin DOMAIN stream
    BY <1>5 DEF WordBehind
  <2>3. n = m
    <3>1. ASSUME n < m PROVE FALSE
      <4>1. n + 1 \in 1 .. m
        BY <1>1, <1>2, <3>1
      <4>2. At(script)[n + 1] \in DOMAIN StreamOf(script)
        BY <1>1, <4>1, StreamHolds
      <4> QED
        BY <1>1, <2>2, <4>2
    <3> QED
      BY <1>1, <1>2, <1>3, <1>4, <3>1
  <2>4. Unreadable(script)
    BY <1>2, <1>3, <1>4, <2>2, <2>3 DEF Unreadable
  <2> QED
    BY <1>1, <2>1, <2>4 DEF ReadInv, Disassembled
<1>6. CASE WordBehind
  <2>1. insts' = [k \in DOMAIN insts |-> AsWords(insts[k])] /\ phase' = "process"
    BY <1>6 DEF EndWorld
  <2>2. insts' \in Seq(ToSet(insts')) /\ Len(insts') = n /\ DOMAIN insts' = 1 .. n
    <3>1. insts' = [k \in DOMAIN insts |-> insts'[k]]
      BY <2>1
    <3> QED
      BY <1>1, <3>1, Rewritten
  <2>3. ASSUME NEW k \in 1 .. n
        PROVE  ReadAs(k)' /\ InPlace(k)'
    <3>1. ReadAs(k) /\ InPlace(k) /\ ~InWords /\ InWords'
      BY <1>1, <2>1 DEF ReadSoFar, AllInPlace, InWords, Disassembled, IsScumm
    <3>2. insts'[k] = [insts[k] EXCEPT !.address = @ \div 2]
      BY <1>1, <2>1 DEF AsWords
    <3>3. DOMAIN insts[k] = Entry /\ insts[k].address = AddressOf(k)
      BY <3>1 DEF ReadAs, InPlace
    <3>4. /\ DOMAIN insts'[k] = Entry /\ insts'[k].op = insts[k].op /\ insts'[k].val = insts[k].val
          /\ insts'[k].dest = insts[k].dest /\ insts'[k].address = AddressOf(k) \div 2
      BY <3>2, <3>3 DEF Entry
    <3>5. AddressOf(k)' = AddressOf(k) /\ LeadsTo(k)' = LeadsTo(k)
      BY <1>1 DEF LeadsTo, AddressOf, IsScumm
    <3> QED
      BY <1>1, <3>1, <3>4, <3>5 DEF ReadAs, InPlace
  <2>4. ReadSoFar'
    <3>1. \A k \in 1 .. n - 1 : script.code[k].op # \h203
      BY <1>3, <1>4
    <3> QED
      BY <1>1, <1>3, <1>4, <2>2, <2>3, <3>1 DEF ReadSoFar, AllInPlace
  <2> QED
    BY <1>1, <1>3, <1>4, <2>1, <2>2, <2>4 DEF ReadInv, Disassembled
<1> QED
  BY <1>5, <1>6

LEMMA OneOpcode ==
  ASSUME ReadInv, ReadScumm \/ ReadWorld, UNCHANGED stack
  PROVE  ReadInv'
<1>1. /\ phase = "read" /\ ReadOpcode /\ UNCHANGED <<script, stream, stack>>
      /\ IsScumm \/ ~WorldEnded
      /\ IsScumm => position # StreamEnd(script)
  BY DEF ReadScumm, ReadWorld
<1> QED
  BY <1>1, OpcodeRead

LEMMA NoLoadBefore == \A loads \in 0 .. 15 : InstBefore(1, loads) = 0
<1> DEFINE before == {j \in 1 .. 1 - 1 : IsLoad(j)}
<1>1. before = {}
  OBVIOUS
<1>2. Cardinality(before) = 0
  BY <1>1, FS_EmptySet
<1>3. ASSUME NEW loads \in 0 .. 15 PROVE InstBefore(1, loads) = 0
  <2> HIDE DEF before
  <2>1. loads = 0 \/ (loads > 0 /\ Cardinality(before) < loads)
    BY <1>2
  <2>2. CASE loads = 0
    BY <2>2 DEF InstBefore
  <2>3. CASE loads > 0 /\ Cardinality(before) < loads
    BY <2>3 DEF InstBefore, before
  <2> QED
    BY <2>1, <2>2, <2>3
<1> QED
  BY <1>3

LEMMA EffectFixed ==
  ASSUME ReadInv, FixStackEffect, UNCHANGED stack
  PROVE  ReadInv'
<1> DEFINE n == Len(insts)
           k == it + 1
           change == insts[k].change
           found == InstBefore(k, Nibble(change, \h100))
           fixed == StackEffect(change, insts[found].val)
<1>1. /\ IsScript(script) /\ phase = "fix" /\ it \in Nat /\ it < n /\ IsScumm /\ stack = <<>>
      /\ n \in Nat /\ DOMAIN insts = 1 .. n /\ insts \in Seq(ToSet(insts))
      /\ UNCHANGED <<script, stream, stack>> /\ ReadSoFar /\ ~(Locked /\ Strayed)
      /\ ~Strayed => n = Len(script.code)
      /\ it = 0 => EffectsOfTable
  BY DEF ReadInv, FixStackEffect
<1>2. ~InWords /\ ~(InWords') /\ (\A j : AddressOf(j)' = AddressOf(j) /\ LeadsTo(j)' = LeadsTo(j))
  BY <1>1 DEF InWords, IsScumm, LeadsTo, AddressOf
<1>3. \/ it' = k /\ UNCHANGED <<phase, insts>>
      \/ phase' = "undefined" /\ UNCHANGED <<insts, it>>
      \/ found # 0 /\ phase' = "failed" /\ UNCHANGED <<insts, it>>
      \/ insts' = [insts EXCEPT ![k].change = fixed] /\ it' = k /\ phase' = phase
  BY DEF FixStackEffect
<1>4. CASE UNCHANGED insts
  <2>1. phase' \in {"fix", "undefined", "failed"} /\ it' \in {it, k}
        /\ (phase' = "fix" => it' # 0)
        /\ (phase' = "failed" => it' = it /\ found # 0)
    <3> HIDE DEF change, found, fixed
    <3> QED
      BY <1>1, <1>3
  <2>a. (Strayed' <=> Strayed) /\ (Locked' <=> Locked)
    BY <1>1, <1>4, Kept
  <2>2. ReadSoFar'
    <3> HIDE DEF k, change, found, fixed
    <3>1. ASSUME NEW j \in 1 .. n PROVE ReadAs(j)' /\ (InPlace(j) => InPlace(j)')
      BY <1>1, <1>2, <1>4 DEF ReadSoFar, ReadAs, InPlace
    <3> QED
      BY <1>1, <1>4, <2>a, <3>1 DEF ReadSoFar, AllInPlace, IsScumm
  <2>3. ~(phase' = "failed" /\ it' = 0)
    <3> SUFFICES ASSUME phase' = "failed", it' = 0 PROVE FALSE
      OBVIOUS
    <3>1. it = 0 /\ k = 1
      BY <1>1, <2>1
    <3>2. 1 \in 1 .. n /\ insts[1].change \in Int
      BY <1>1, <3>1 DEF EffectsOfTable
    <3>3. Nibble(change, \h100) \in 0 .. 15
      <4>1. change \in Int
        BY <3>1, <3>2
      <4> HIDE DEF change
      <4> QED
        BY <4>1 DEF Nibble
    <3>4. found = 0
      <4> DEFINE loads == Nibble(change, \h100)
      <4> HIDE DEF k, loads
      <4> QED
        BY <3>1, <3>3, NoLoadBefore DEF loads
    <3> QED
      BY <2>1, <3>4
  <2>4. it' \in Nat
    BY <1>1, <2>1
  <2> HIDE DEF k, change, found, fixed
  <2> QED
    BY <1>1, <1>2, <1>4, <2>a, <2>1, <2>2, <2>3, <2>4 DEF ReadInv, Disassembled, IsScumm
<1>5. CASE insts' = [insts EXCEPT ![k].change = fixed] /\ it' = k /\ phase' = phase
  <2> HIDE DEF fixed
  <2>1. insts' \in Seq(ToSet(insts')) /\ Len(insts') = n /\ DOMAIN insts' = 1 .. n
    <3>1. insts' = [j \in DOMAIN insts |-> insts'[j]]
      BY <1>5
    <3> QED
      BY <1>1, <3>1, Rewritten
  <2>2. ASSUME NEW j \in 1 .. n
        PROVE  ReadAs(j)' /\ (InPlace(j) => InPlace(j)')
    <3>1. ReadAs(j)
      BY <1>1 DEF ReadSoFar
    <3>2. insts'[j] = insts[j] \/ insts'[j] = [insts[j] EXCEPT !.change = fixed]
      BY <1>1, <1>5
    <3>3. DOMAIN insts[j] = Entry
      BY <3>1 DEF ReadAs
    <3>4. /\ DOMAIN insts'[j] = Entry /\ insts'[j].op = insts[j].op /\ insts'[j].val = insts[j].val
          /\ insts'[j].dest = insts[j].dest /\ insts'[j].address = insts[j].address
      BY <3>2, <3>3 DEF Entry
    <3> QED
      BY <1>1, <1>2, <3>1, <3>4 DEF ReadAs, InPlace
  <2>a. (Strayed' <=> Strayed) /\ (Locked' <=> Locked)
    BY <1>1, <2>1, Kept
  <2>3. ReadSoFar'
    BY <1>1, <2>a, <2>1, <2>2 DEF ReadSoFar, AllInPlace, IsScumm
  <2>4. k \in Nat /\ k # 0
    BY <1>1
  <2> HIDE DEF k
  <2> QED
    BY <1>1, <1>5, <2>a, <2>1, <2>3, <2>4 DEF ReadInv, Disassembled, IsScumm
<1> QED
  BY <1>3, <1>4, <1>5

LEMMA FixEnded ==
  ASSUME ReadInv, EndFix, UNCHANGED stack
  PROVE  ReadInv'
<1>1. /\ IsScript(script) /\ phase = "fix" /\ phase' = "process" /\ it' = 0 /\ IsScumm
      /\ UNCHANGED <<script, stream, insts, stack>> /\ stack = <<>>
      /\ ~Strayed => Len(insts) = Len(script.code)
      /\ ReadSoFar /\ ~(Locked /\ Strayed)
  BY DEF ReadInv, EndFix
<1>4. (Strayed' <=> Strayed) /\ (Locked' <=> Locked)
  BY <1>1, Kept
<1>2. ReadSoFar'
  <2>1. ~InWords /\ ~(InWords') /\ (\A j : AddressOf(j)' = AddressOf(j) /\ LeadsTo(j)' = LeadsTo(j))
    BY <1>1 DEF InWords, IsScumm, LeadsTo, AddressOf
  <2> QED
    BY <1>1, <1>4, <2>1 DEF ReadSoFar, AllInPlace, ReadAs, InPlace, IsScumm
<1>3. CodeToRead(script) = script.code
  BY <1>1 DEF CodeToRead, IsScumm
<1> QED
  BY <1>1, <1>2, <1>3, <1>4 DEF ReadInv, Disassembled, IsScumm

LEMMA DisassembleSteps ==
  ASSUME ReadInv, Disassemble, UNCHANGED stack
  PROVE  ReadInv'
BY HeaderRead, OneOpcode, StringRead, ScummEnded, WorldEnds, EffectFixed, FixEnded DEF Disassemble

----------------------------------------------------------------------------
(***************************************************************************)
(* The steps of processing.  They leave what has been read as it is; the   *)
(* only exception they throw is that of a number, which the first          *)
(* instruction cannot meet: it would have to be on the stack.              *)
(***************************************************************************)

\* An empty stack has no operand.
LEMMA OneOperandOfNone ==
  ASSUME NEW inst, LettersOf(inst) = <<"p">>, stack = <<>>
  PROVE  ~Operands(inst).defined
<1> DEFINE base == Taken(<<>>, <<>>)
           undef == [base EXCEPT !.defined = FALSE]
           op(taken, letter) == IF taken.defined THEN Take(taken, letter, inst) ELSE taken
           letters == <<"p">>
           Eqn(h) == h = [s \in SUBSET (DOMAIN letters) |->
                            IF s = {} THEN base ELSE op(h[s \ {Max(s)}], letters[Max(s)])]
           iter == CHOOSE h : Eqn(h)
           g == [s \in SUBSET (1 .. 1) |-> IF s = {} THEN base ELSE undef]
<1>1. base.defined /\ ~undef.defined /\ Take(base, "p", inst) = undef
  BY DEF Taken, Take, PopArg
<1> HIDE DEF base, undef
<1>2. DOMAIN letters = 1 .. 1 /\ letters[1] = "p"
  OBVIOUS
<1>3. /\ \A s \in SUBSET (1 .. 1) : s = {} \/ s = {1}
      /\ {} \in SUBSET (1 .. 1) /\ {1} \in SUBSET (1 .. 1) /\ {1} \ {1} = {} /\ {1} # {}
  <2>1. 1 .. 1 = {1}
    OBVIOUS
  <2>2. \A s \in SUBSET {1} : s = {} \/ s = {1}
    OBVIOUS
  <2> QED
    BY <2>1, <2>2
<1>4. Max({1}) = 1
  BY DEF Max
<1>5. op(base, letters[1]) = undef
  BY <1>1, <1>2
<1> HIDE DEF op
<1>6. Eqn(g)
  <2>1. g[{}] = base /\ g[{1}] = undef
    BY <1>3
  <2>2. \A s \in SUBSET (1 .. 1) :
          g[s] = IF s = {} THEN base ELSE op(g[s \ {Max(s)}], letters[Max(s)])
    BY <2>1, <1>3, <1>4, <1>5
  <2>3. g = [s \in SUBSET (1 .. 1) |->
               IF s = {} THEN base ELSE op(g[s \ {Max(s)}], letters[Max(s)])]
    BY <2>2
  <2> HIDE DEF g
  <2> QED
    BY <2>3, <1>2
<1>7. Eqn(iter)
  <2> HIDE DEF Eqn, g
  <2> QED
    BY <1>6
<1>8. Operands(inst) = iter[DOMAIN letters]
  BY DEF Operands, FoldLeft, MapThenFoldSet, base, op
<1> HIDE DEF iter
<1>9. iter[{1}] = undef
  <2>1. {} \in SUBSET (DOMAIN letters) /\ {1} \in SUBSET (DOMAIN letters)
    BY <1>2, <1>3
  <2>2. iter[{}] = base
    BY <1>7, <2>1
  <2>3. iter[{1}] = op(iter[{1} \ {Max({1})}], letters[Max({1})])
    BY <1>7, <2>1
  <2> QED
    BY <2>2, <2>3, <1>3, <1>4, <1>5
<1>10. DOMAIN letters = {1}
  BY <1>2
<1> QED
  BY <1>1, <1>8, <1>9, <1>10

\* A number is missed only where there is an operand.
LEMMA NumbersAreOnTheStack ==
  ASSUME NEW inst, inst.op \in DOMAIN OpcodesOf(script.engine), script.engine \in {"scumm", "world"},
         stack = <<>>, Operands(inst).defined,
         NEW args, NEW from, NEW result \in Results(inst, args, from)
  PROVE  ~result.throws
<1>1. \A pushed, printed : ~Result(pushed, printed).throws
  BY DEF Result
<1>2. CASE IsScumm
  <2>1. ClassOf(inst) \in ScummClasses
    BY <1>2, ScummTable DEF ClassOf, OpcodesOf, Described, IsScumm
  <2>2. \A value, at : ~Dup(value, at).throws
    BY <1>1 DEF Dup
  <2>3. \A data, all, at : ~CallResult(data, all, at).throws
    BY <1>1 DEF CallResult
  <2>4. ~ScummResult(inst, args, from).throws
    BY <1>1, <2>1, <2>2, <2>3 DEF ScummResult, ScummClasses
  <2>5. result = ScummResult(inst, args, from)
    BY <1>2 DEF Results
  <2> QED
    BY <2>4, <2>5
<1>3. CASE ~IsScumm
  <2>1. ClassOf(inst) \in WorldClasses
    BY <1>3, WorldTable DEF ClassOf, OpcodesOf, Described, IsScumm
  <2>2. result \in WorldResults(inst, args, from)
    BY <1>3 DEF Results
  <2>3. CASE ClassOf(inst) = "Kernel" /\ ThrowsOn(inst.op, args)
    <3>1. inst.op \in NumberCalls /\ KernelPops(inst.op) = 1
      BY <2>3 DEF ThrowsOn, NumberCalls, KernelPops
    <3>2. LettersOf(inst) = [i \in 1 .. KernelPops(inst.op) |-> "p"]
      BY <2>3 DEF LettersOf
    <3>3. [i \in 1 .. 1 |-> "p"] = <<"p">>
      OBVIOUS
    <3>4. ~Operands(inst).defined
      BY <3>1, <3>2, <3>3, OneOperandOfNone
    <3> QED
      BY <3>4
  <2>4. CASE ClassOf(inst) = "Kernel" /\ ~ThrowsOn(inst.op, args)
    BY <1>1, <2>2, <2>4 DEF WorldResults
  <2>5. CASE ClassOf(inst) = "Sub"
    BY <1>1, <2>2, <2>5 DEF WorldResults
  <2>6. CASE ClassOf(inst) \in WorldClasses \ {"Kernel", "Sub"}
    BY <1>1, <2>2, <2>6 DEF WorldResults, WorldClasses
  <2> QED
    BY <2>1, <2>3, <2>4, <2>5, <2>6
<1> QED
  BY <1>2, <1>3

LEMMA Processed ==
  ASSUME ReadInv, ProcessInst
  PROVE  ReadInv'
<1> DEFINE inst == insts[it + 1]
           taken == Operands(inst)
<1>1. /\ IsScript(script) /\ phase = "process" /\ it \in Nat /\ it < Len(insts)
      /\ UNCHANGED <<script, stream, insts>> /\ ReadSoFar
      /\ Len(insts) \in Nat /\ (~Strayed => Len(insts) = Len(CodeToRead(script)))
      /\ ~(Locked /\ Strayed)
      /\ it = 0 => stack = <<>>
  BY DEF ReadInv, ProcessInst, Disassembled
<1>2. \/ phase' = "undefined" /\ UNCHANGED <<it, stack>>
      \/ /\ taken.defined /\ \E result \in Results(inst, taken.args, it + 1) : result.throws
         /\ phase' = "failed" /\ UNCHANGED <<it, stack>>
      \/ it' = it + 1 /\ phase' = phase
  <2> HIDE DEF inst
  <2> QED
    BY DEF ProcessInst, inst
<1>3. ~(phase' = "failed" /\ it' = 0)
  <2> SUFFICES ASSUME phase' = "failed", it' = 0 PROVE FALSE
    OBVIOUS
  <2>1. /\ taken.defined /\ \E result \in Results(inst, taken.args, it + 1) : result.throws
        /\ it = 0 /\ stack = <<>>
    BY <1>1, <1>2
  <2>2. inst.op \in DOMAIN OpcodesOf(script.engine)
    <3>1. it + 1 \in 1 .. Len(insts)
      BY <1>1
    <3> QED
      BY <1>1, <3>1 DEF ReadSoFar, ReadAs
  <2>3. script.engine \in {"scumm", "world"}
    BY <1>1, ScriptFacts
  <2> HIDE DEF inst
  <2> QED
    BY <2>1, <2>2, <2>3, NumbersAreOnTheStack
<1>4. /\ it' \in Nat /\ phase' \in {"undefined", "failed", "process"}
      /\ it' = 0 => stack' = <<>>
  <2> HIDE DEF inst, taken
  <2> QED
    BY <1>1, <1>2
<1>6. (Strayed' <=> Strayed) /\ (Locked' <=> Locked)
  BY <1>1, Kept
<1>5. phase' = "process" => ReadSoFar'
  BY <1>1, <1>6
     DEF ReadSoFar, AllInPlace, ReadAs, InPlace, InWords, Disassembled, LeadsTo, AddressOf, IsScumm
<1> QED
  BY <1>1, <1>3, <1>4, <1>5, <1>6 DEF ReadInv, Disassembled

LEMMA ProcessingEnded ==
  ASSUME ReadInv, EndProcess
  PROVE  ReadInv'
<1>1. /\ IsScript(script) /\ phase = "process" /\ phase' = "done"
      /\ UNCHANGED <<script, stream, insts, it, stack>> /\ ReadSoFar
  BY DEF ReadInv, EndProcess, Disassembled
<1>2. (Strayed' <=> Strayed) /\ (Locked' <=> Locked)
  BY <1>1, Kept
<1>3. ReadSoFar'
  BY <1>1, <1>2
     DEF ReadSoFar, AllInPlace, ReadAs, InPlace, InWords, Disassembled, LeadsTo, AddressOf, IsScumm
<1> QED
  BY <1>1, <1>2, <1>3 DEF ReadInv, Disassembled

----------------------------------------------------------------------------
LEMMA ReadInvStep == ReadInv /\ [StackCodeNext]_stackVars => ReadInv'
<1> SUFFICES ASSUME ReadInv, [StackCodeNext]_stackVars PROVE ReadInv'
  OBVIOUS
<1>1. CASE Disassemble /\ UNCHANGED <<stack, lines>>
  BY <1>1, DisassembleSteps
<1>2. CASE ProcessInst
  BY <1>2, Processed
<1>3. CASE EndProcess
  BY <1>3, ProcessingEnded
<1>4. CASE UNCHANGED stackVars
  <2>1. UNCHANGED <<script, stream, phase, position, address, insts, it, stack>>
    BY <1>4 DEF stackVars
  <2>2. (IsScumm' <=> IsScumm) /\ (Strayed' <=> Strayed) /\ (Locked' <=> Locked)
    BY <2>1, Kept
  <2>3. ReadSoFar' <=> ReadSoFar
    BY <2>1, <2>2 DEF ReadSoFar, AllInPlace, ReadAs, InPlace, InWords, Disassembled, LeadsTo, AddressOf
  <2> QED
    BY <2>1, <2>2, <2>3 DEF ReadInv, Disassembled, EffectsOfTable, AddressOf
<1> QED
  BY <1>1, <1>2, <1>3, <1>4 DEF StackCodeNext

LEMMA ReadInvImplies == ReadInv => ScriptsReadWhole /\ JumpsHitInstructions
<1> SUFFICES ASSUME ReadInv PROVE ScriptsReadWhole /\ JumpsHitInstructions
  OBVIOUS
<1>1. ASSUME Disassembled, ~Strayed
      PROVE  AllInPlace /\ Len(insts) = Len(CodeToRead(script)) /\ DOMAIN insts = 1 .. Len(insts)
  BY <1>1 DEF ReadInv, ReadSoFar
<1>2. Disassembled => ~CutOff(script)
  <2> SUFFICES ASSUME Disassembled, CutOff(script) PROVE FALSE
    OBVIOUS
  <2>1. IsScumm /\ Locked
    BY DEF CutOff, Locked, IsScumm
  <2>2. ~Strayed
    BY <2>1 DEF ReadInv, Disassembled
  <2>3. CodeToRead(script) = script.code
    BY <2>1 DEF CodeToRead, IsScumm
  <2>4. DOMAIN script.code = 1 .. Len(script.code) /\ DOMAIN insts = 1 .. Len(script.code)
    BY <1>1, <2>2, <2>3, ScriptFacts DEF ReadInv
  <2>5. PICK i \in DOMAIN script.code : script.code[i].op = "beginOverride"
    BY DEF CutOff
  <2> QED
    BY <2>1, <2>2, <2>4, <2>5 DEF Strayed, Seeks, Overrides
<1>3. ScriptsReadWhole
  BY <1>1, <1>2 DEF ReadInv, AllInPlace, InPlace, ScriptsReadWhole
<1>4. ASSUME Disassembled, ~Strayed, NEW k \in DOMAIN insts, insts[k].dest # NoDest,
             script.code[k].to \in DOMAIN insts
      PROVE  insts[k].dest = insts[script.code[k].to].address
  <2>1. InPlace(k) /\ InPlace(script.code[k].to)
    BY <1>1, <1>4 DEF AllInPlace
  <2> QED
    BY <1>4, <2>1 DEF InPlace, LeadsTo, InWords
<1> QED
  BY <1>3, <1>4 DEF JumpsHitInstructions

THEOREM ReadInvariant == StackCodeSpec => []ReadInv
<1>1. StackCodeInit => ReadInv
  BY ReadInvInit
<1>2. ReadInv /\ [StackCodeNext]_stackVars => ReadInv'
  BY ReadInvStep
<1> QED
  BY <1>1, <1>2, PTL DEF StackCodeSpec

\* As long as no sound and no beginOverride has sought another position, every script is
\* read as it is in its file, up to its end or its first return, and only what cannot be
\* read ends the program; and whatever bytes lie where a seek leads, a global or room
\* script with a beginOverride and no sound is not disassembled at all (the loops of the
\* doDisassemble of scummv6/disassembler.cpp and ff7_world/ff7_world_disassembler.cpp).
THEOREM ScriptsAreReadWhole == StackCodeSpec => []ScriptsReadWhole
<1>1. ReadInv => ScriptsReadWhole
  BY ReadInvImplies
<1> QED
  BY <1>1, ReadInvariant, PTL

\* In every script without a sound or a beginOverride each jump leads to the address of
\* the instruction it leads to in the file, in bytes or in words; behind one of the two
\* it need not (getDestAddress of scummv6/engine.cpp and ff7_world/ff7_world_engine.cpp).
THEOREM JumpsLeadToInstructions == StackCodeSpec => []JumpsHitInstructions
<1>1. ReadInv => JumpsHitInstructions
  BY ReadInvImplies
<1> QED
  BY <1>1, ReadInvariant, PTL

----------------------------------------------------------------------------
(***************************************************************************)
(* The stack effects of the table.  Weighs says how many values the first  *)
(* letters of a format take from the stack, when a list has the given      *)
(* length; what an instruction pushes less what its letters take is its    *)
(* effect.                                                                 *)
(***************************************************************************)
Alphabet == {"p", "l", "z", "s", "v", "w", "j", "i"}
Weight(letter, length) ==
  CASE letter = "p" -> 1 [] letter = "z" -> 2 [] letter = "l" -> length + 1 [] OTHER -> 0

Weighs(w, letters, length) ==
  /\ w[0] = 0
  /\ \A k \in 1 .. Len(letters) : w[k] = w[k - 1] + Weight(letters[k], length)

EntryLetters(v) ==
  CASE v.class = "Call" -> IF ReturnsValue(v.data) THEN Tail(v.data) ELSE v.data
    [] v.class \in {"ArrayRead", "Dup", "Not", "Pop", "Write", "ArrayInc", "CondJump",
                    "AssignString"} -> <<"p">>
    [] v.class \in {"IndexedRead", "Binary", "ArrayWrite"} -> <<"p", "p">>
    [] v.class = "IndexedWrite" -> <<"p", "p", "p">>
    [] v.class = "AssignList" -> <<"p", "l">>
    [] v.class = "AssignLists" -> <<"p", "l", "p">>
    [] v.class \in {"Push", "PushVar", "VarInc", "Jump"} -> <<>>

Pushed(v) ==
  CASE v.class \in {"Push", "PushVar", "ArrayRead", "IndexedRead", "Not", "Binary"} -> 1
    [] v.class = "Dup" -> 2
    [] v.class = "Call" -> IF ReturnsValue(v.data) THEN 1 ELSE 0
    [] v.class \in {"Pop", "Jump", "AssignList", "AssignLists", "Write", "ArrayWrite",
                    "IndexedWrite", "VarInc", "ArrayInc", "CondJump", "AssignString"} -> 0

\* The list of a marked effect is where the effect says, and its only list.
ListAt(letters, k) ==
  /\ k \in 1 .. Len(letters) /\ letters[k] = "l"
  /\ \A j \in 1 .. Len(letters) : letters[j] = "l" => j = k

LettersAdd(letters, change, pushed) ==
  /\ letters \in Seq(Alphabet)
  /\ \A length \in Nat : \A w \in [0 .. Len(letters) -> Int] : Weighs(w, letters, length) =>
       /\ change < \h1000 =>
            /\ change = pushed - w[Len(letters)]
            /\ \A k \in 1 .. Len(letters) : letters[k] # "l"
       /\ change >= \h1000 =>
            /\ length <= LongestList => StackEffect(change, length) = pushed - w[Len(letters)]
            /\ \E k \in 1 .. Len(letters) : ListAt(letters, k) /\ w[k - 1] = Nibble(change, \h100)

EffectAdds(v) ==
  /\ v.change \in Int
  /\ LettersAdd(EntryLetters(v), v.change, Pushed(v))

LEMMA LettersTyped ==
  /\ <<>> \in Seq(Alphabet)
  /\ \A a \in Alphabet : <<a>> \in Seq(Alphabet)
  /\ \A a, b \in Alphabet : <<a, b>> \in Seq(Alphabet)
  /\ \A a, b, c \in Alphabet : <<a, b, c>> \in Seq(Alphabet)
  /\ \A a, b, c, d \in Alphabet : <<a, b, c, d>> \in Seq(Alphabet)
  /\ \A a, b, c, d, e \in Alphabet : <<a, b, c, d, e>> \in Seq(Alphabet)
OBVIOUS

LEMMA OneLetter ==
  ASSUME NEW length \in Nat, NEW w, NEW letters, Weighs(w, letters, length), Len(letters) = 1
  PROVE  /\ w[0] = 0
         /\ w[1] = w[0] + Weight(letters[1], length)
<1>1. w[0] = 0
  BY DEF Weighs
<1>2. w[1] = w[0] + Weight(letters[1], length)
  BY DEF Weighs
<1> QED
  BY <1>1, <1>2

LEMMA TwoLetters ==
  ASSUME NEW length \in Nat, NEW w, NEW letters, Weighs(w, letters, length), Len(letters) = 2
  PROVE  /\ w[0] = 0
         /\ w[1] = w[0] + Weight(letters[1], length)
         /\ w[2] = w[1] + Weight(letters[2], length)
<1>1. w[0] = 0
  BY DEF Weighs
<1>2. w[1] = w[0] + Weight(letters[1], length)
  BY DEF Weighs
<1>3. w[2] = w[1] + Weight(letters[2], length)
  BY DEF Weighs
<1> QED
  BY <1>1, <1>2, <1>3

LEMMA ThreeLetters ==
  ASSUME NEW length \in Nat, NEW w, NEW letters, Weighs(w, letters, length), Len(letters) = 3
  PROVE  /\ w[0] = 0
         /\ w[1] = w[0] + Weight(letters[1], length)
         /\ w[2] = w[1] + Weight(letters[2], length)
         /\ w[3] = w[2] + Weight(letters[3], length)
<1>1. w[0] = 0
  BY DEF Weighs
<1>2. w[1] = w[0] + Weight(letters[1], length)
  BY DEF Weighs
<1>3. w[2] = w[1] + Weight(letters[2], length)
  BY DEF Weighs
<1>4. w[3] = w[2] + Weight(letters[3], length)
  BY DEF Weighs
<1> QED
  BY <1>1, <1>2, <1>3, <1>4

LEMMA FourLetters ==
  ASSUME NEW length \in Nat, NEW w, NEW letters, Weighs(w, letters, length), Len(letters) = 4
  PROVE  /\ w[0] = 0
         /\ w[1] = w[0] + Weight(letters[1], length)
         /\ w[2] = w[1] + Weight(letters[2], length)
         /\ w[3] = w[2] + Weight(letters[3], length)
         /\ w[4] = w[3] + Weight(letters[4], length)
<1>1. w[0] = 0
  BY DEF Weighs
<1>2. w[1] = w[0] + Weight(letters[1], length)
  BY DEF Weighs
<1>3. w[2] = w[1] + Weight(letters[2], length)
  BY DEF Weighs
<1>4. w[3] = w[2] + Weight(letters[3], length)
  BY DEF Weighs
<1>5. w[4] = w[3] + Weight(letters[4], length)
  BY DEF Weighs
<1> QED
  BY <1>1, <1>2, <1>3, <1>4, <1>5

LEMMA FiveLetters ==
  ASSUME NEW length \in Nat, NEW w, NEW letters, Weighs(w, letters, length), Len(letters) = 5
  PROVE  /\ w[0] = 0
         /\ w[1] = w[0] + Weight(letters[1], length)
         /\ w[2] = w[1] + Weight(letters[2], length)
         /\ w[3] = w[2] + Weight(letters[3], length)
         /\ w[4] = w[3] + Weight(letters[4], length)
         /\ w[5] = w[4] + Weight(letters[5], length)
<1>1. w[0] = 0
  BY DEF Weighs
<1>2. w[1] = w[0] + Weight(letters[1], length)
  BY DEF Weighs
<1>3. w[2] = w[1] + Weight(letters[2], length)
  BY DEF Weighs
<1>4. w[3] = w[2] + Weight(letters[3], length)
  BY DEF Weighs
<1>5. w[4] = w[3] + Weight(letters[4], length)
  BY DEF Weighs
<1>6. w[5] = w[4] + Weight(letters[5], length)
  BY DEF Weighs
<1> QED
  BY <1>1, <1>2, <1>3, <1>4, <1>5, <1>6

\* What letters that come without a list take.
Takes == [a \in Alphabet \ {"l"} |-> IF a = "p" THEN 1 ELSE IF a = "z" THEN 2 ELSE 0]

LEMMA Weights ==
  /\ \A length \in Nat : \A a \in Alphabet \ {"l"} : Weight(a, length) = Takes[a] /\ Takes[a] \in Nat
  /\ \A length \in Nat : Weight("l", length) = length + 1
  /\ Takes["p"] = 1 /\ Takes["z"] = 2
  /\ Takes["s"] = 0 /\ Takes["v"] = 0 /\ Takes["j"] = 0 /\ Takes["w"] = 0 /\ Takes["i"] = 0
BY DEF Weight, Takes, Alphabet

Plain(letters, takes) ==
  \A length \in Nat : \A w : Weighs(w, letters, length) => w[Len(letters)] = takes

LEMMA PlainLetters ==
  ASSUME NEW a \in Alphabet \ {"l"}, NEW b \in Alphabet \ {"l"}, NEW c \in Alphabet \ {"l"},
         NEW d \in Alphabet \ {"l"}, NEW e \in Alphabet \ {"l"}
  PROVE  /\ Plain(<<>>, 0) /\ Plain(<<a>>, Takes[a]) /\ Plain(<<a, b>>, Takes[a] + Takes[b])
         /\ Plain(<<a, b, c>>, Takes[a] + Takes[b] + Takes[c])
         /\ Plain(<<a, b, c, d>>, Takes[a] + Takes[b] + Takes[c] + Takes[d])
         /\ Plain(<<a, b, c, d, e>>, Takes[a] + Takes[b] + Takes[c] + Takes[d] + Takes[e])
<1>1. Takes[a] \in Nat /\ Takes[b] \in Nat /\ Takes[c] \in Nat /\ Takes[d] \in Nat
      /\ Takes[e] \in Nat
  BY Weights
<1>2. /\ Len(<<>>) = 0 /\ Len(<<a>>) = 1 /\ Len(<<a, b>>) = 2 /\ Len(<<a, b, c>>) = 3
      /\ Len(<<a, b, c, d>>) = 4 /\ Len(<<a, b, c, d, e>>) = 5
  OBVIOUS
<1>3. ASSUME NEW length \in Nat
      PROVE  /\ Weight(a, length) = Takes[a] /\ Weight(b, length) = Takes[b]
             /\ Weight(c, length) = Takes[c] /\ Weight(d, length) = Takes[d]
             /\ Weight(e, length) = Takes[e]
  BY Weights
<1>4. ASSUME NEW length \in Nat, NEW w, Weighs(w, <<>>, length)
      PROVE  w[0] = 0
  BY <1>4 DEF Weighs
<1>5. ASSUME NEW length \in Nat, NEW w, Weighs(w, <<a>>, length)
      PROVE  w[1] = Takes[a]
  BY <1>1, <1>3, <1>5, OneLetter
<1>6. ASSUME NEW length \in Nat, NEW w, Weighs(w, <<a, b>>, length)
      PROVE  w[2] = Takes[a] + Takes[b]
  BY <1>1, <1>3, <1>6, TwoLetters
<1>7. ASSUME NEW length \in Nat, NEW w, Weighs(w, <<a, b, c>>, length)
      PROVE  w[3] = Takes[a] + Takes[b] + Takes[c]
  BY <1>1, <1>3, <1>7, ThreeLetters
<1>8. ASSUME NEW length \in Nat, NEW w, Weighs(w, <<a, b, c, d>>, length)
      PROVE  w[4] = Takes[a] + Takes[b] + Takes[c] + Takes[d]
  BY <1>1, <1>3, <1>8, FourLetters
<1>9. ASSUME NEW length \in Nat, NEW w, Weighs(w, <<a, b, c, d, e>>, length)
      PROVE  w[5] = Takes[a] + Takes[b] + Takes[c] + Takes[d] + Takes[e]
  BY <1>1, <1>3, <1>9, FiveLetters
<1> QED
  BY <1>2, <1>4, <1>5, <1>6, <1>7, <1>8, <1>9 DEF Plain

LEMMA PlainAdds ==
  ASSUME NEW letters \in Seq(Alphabet \ {"l"}), NEW takes \in Nat, Plain(letters, takes),
         NEW pushed \in Nat, pushed - takes < \h1000
  PROVE  LettersAdd(letters, pushed - takes, pushed)
<1>1. letters \in Seq(Alphabet) /\ Len(letters) \in Nat
      /\ \A k \in 1 .. Len(letters) : letters[k] # "l"
  BY SeqMonotonic
<1>2. \A length \in Nat : \A w : Weighs(w, letters, length) => w[Len(letters)] = takes
  BY DEF Plain
<1> QED
  BY <1>1, <1>2 DEF LettersAdd

LEMMA PlainSequences ==
  ASSUME NEW a \in Alphabet \ {"l"}, NEW b \in Alphabet \ {"l"}, NEW c \in Alphabet \ {"l"},
         NEW d \in Alphabet \ {"l"}, NEW e \in Alphabet \ {"l"}
  PROVE  /\ <<>> \in Seq(Alphabet \ {"l"}) /\ <<a>> \in Seq(Alphabet \ {"l"})
         /\ <<a, b>> \in Seq(Alphabet \ {"l"}) /\ <<a, b, c>> \in Seq(Alphabet \ {"l"})
         /\ <<a, b, c, d>> \in Seq(Alphabet \ {"l"})
         /\ <<a, b, c, d, e>> \in Seq(Alphabet \ {"l"})
OBVIOUS

\* Letters without a list, and what an instruction with them pushes.
Adds(letters, takes) ==
  \A pushed \in Nat : pushed - takes < \h1000 => LettersAdd(letters, pushed - takes, pushed)

LEMMA PlainEffects ==
  /\ Adds(<<>>, 0) /\ Adds(<<"p">>, 1) /\ Adds(<<"p", "p">>, 2) /\ Adds(<<"p", "p", "p">>, 3)
  /\ Adds(<<"p", "p", "p", "p">>, 4) /\ Adds(<<"p", "p", "p", "p", "p">>, 5)
  /\ Adds(<<"z">>, 2) /\ Adds(<<"z", "p">>, 3) /\ Adds(<<"p", "p", "z">>, 4)
  /\ Adds(<<"p", "s">>, 1) /\ Adds(<<"s">>, 0) /\ Adds(<<"v", "p", "p">>, 2)
  /\ Adds(<<"p", "j">>, 1) /\ Adds(<<"p", "v">>, 1) /\ Adds(<<"v">>, 0)
  /\ Adds(<<"p", "p", "v">>, 2)
<1> DEFINE A == Alphabet \ {"l"}
<1>1. "p" \in A /\ "z" \in A /\ "s" \in A /\ "v" \in A /\ "j" \in A
  BY DEF Alphabet
<1>2. \A letters \in Seq(A) : \A takes \in Nat : Plain(letters, takes) => Adds(letters, takes)
  BY PlainAdds DEF Adds
<1> HIDE DEF A
<1>3. ASSUME NEW a \in A, NEW b \in A, NEW c \in A, NEW d \in A, NEW e \in A
      PROVE  /\ <<>> \in Seq(A) /\ <<a>> \in Seq(A) /\ <<a, b>> \in Seq(A) /\ <<a, b, c>> \in Seq(A)
             /\ <<a, b, c, d>> \in Seq(A) /\ <<a, b, c, d, e>> \in Seq(A)
             /\ Plain(<<>>, 0) /\ Plain(<<a>>, Takes[a]) /\ Plain(<<a, b>>, Takes[a] + Takes[b])
             /\ Plain(<<a, b, c>>, Takes[a] + Takes[b] + Takes[c])
             /\ Plain(<<a, b, c, d>>, Takes[a] + Takes[b] + Takes[c] + Takes[d])
             /\ Plain(<<a, b, c, d, e>>, Takes[a] + Takes[b] + Takes[c] + Takes[d] + Takes[e])
  BY PlainSequences, PlainLetters DEF A
<1>4. Takes["p"] = 1 /\ Takes["z"] = 2 /\ Takes["s"] = 0 /\ Takes["v"] = 0 /\ Takes["j"] = 0
  BY Weights
<1>5. ASSUME NEW a \in A, NEW b \in A, NEW c \in A, NEW d \in A, NEW e \in A,
             NEW x \in Nat, NEW y \in Nat, NEW z \in Nat, NEW u \in Nat, NEW v \in Nat,
             Takes[a] = x, Takes[b] = y, Takes[c] = z, Takes[d] = u, Takes[e] = v
      PROVE  /\ Adds(<<>>, 0) /\ Adds(<<a>>, x) /\ Adds(<<a, b>>, x + y)
             /\ Adds(<<a, b, c>>, x + y + z) /\ Adds(<<a, b, c, d>>, x + y + z + u)
             /\ Adds(<<a, b, c, d, e>>, x + y + z + u + v)
  <2>1. /\ x + y \in Nat /\ x + y + z \in Nat /\ x + y + z + u \in Nat
        /\ x + y + z + u + v \in Nat /\ 0 \in Nat
    OBVIOUS
  <2> DEFINE s1 == <<a>>
             s2 == <<a, b>>
             s3 == <<a, b, c>>
             s4 == <<a, b, c, d>>
             s5 == <<a, b, c, d, e>>
  <2>2. /\ <<>> \in Seq(A) /\ s1 \in Seq(A) /\ s2 \in Seq(A) /\ s3 \in Seq(A)
        /\ s4 \in Seq(A) /\ s5 \in Seq(A)
        /\ Plain(<<>>, 0) /\ Plain(s1, x) /\ Plain(s2, x + y) /\ Plain(s3, x + y + z)
        /\ Plain(s4, x + y + z + u) /\ Plain(s5, x + y + z + u + v)
    BY <1>3, <1>5
  <2> HIDE DEF s1, s2, s3, s4, s5
  <2>3. /\ Adds(<<>>, 0) /\ Adds(s1, x) /\ Adds(s2, x + y) /\ Adds(s3, x + y + z)
        /\ Adds(s4, x + y + z + u) /\ Adds(s5, x + y + z + u + v)
    BY <1>2, <2>1, <2>2
  <2> QED
    BY <2>3 DEF s1, s2, s3, s4, s5
<1>6. /\ Adds(<<>>, 0) /\ Adds(<<"p">>, 1) /\ Adds(<<"p", "p">>, 1 + 1)
      /\ Adds(<<"p", "p", "p">>, 1 + 1 + 1) /\ Adds(<<"p", "p", "p", "p">>, 1 + 1 + 1 + 1)
      /\ Adds(<<"p", "p", "p", "p", "p">>, 1 + 1 + 1 + 1 + 1)
  BY <1>1, <1>4, <1>5
<1>7. ASSUME NEW a \in A, NEW b \in A, NEW c \in A, NEW x \in Nat, NEW y \in Nat, NEW z \in Nat,
             Takes[a] = x, Takes[b] = y, Takes[c] = z
      PROVE  Adds(<<a>>, x) /\ Adds(<<a, b>>, x + y) /\ Adds(<<a, b, c>>, x + y + z)
  <2>1. "p" \in A /\ Takes["p"] = 1 /\ 1 \in Nat
    BY <1>1, <1>4
  <2>2. /\ Adds(<<a>>, x) /\ Adds(<<a, b>>, x + y) /\ Adds(<<a, b, c>>, x + y + z)
        /\ Adds(<<a, b, c, "p">>, x + y + z + 1) /\ Adds(<<a, b, c, "p", "p">>, x + y + z + 1 + 1)
    BY <2>1, <1>5, <1>7
  <2> QED
    BY <2>2
<1>8. Adds(<<"z">>, 2) /\ Adds(<<"z", "p">>, 2 + 1)
  BY <1>1, <1>4, <1>7
<1>9. Adds(<<"p", "p", "z">>, 1 + 1 + 2)
  BY <1>1, <1>4, <1>7
<1>10. Adds(<<"s">>, 0)
  BY <1>1, <1>4, <1>7
<1>11. Adds(<<"p", "s">>, 1 + 0)
  BY <1>1, <1>4, <1>7
<1>12. Adds(<<"v">>, 0)
  BY <1>1, <1>4, <1>7
<1>13. Adds(<<"p", "j">>, 1 + 0) /\ Adds(<<"p", "v">>, 1 + 0)
  BY <1>1, <1>4, <1>7
<1>14. Adds(<<"v", "p", "p">>, 0 + 1 + 1) /\ Adds(<<"p", "p", "v">>, 1 + 1 + 0)
  BY <1>1, <1>4, <1>7
<1> QED
  BY <1>6, <1>8, <1>9, <1>10, <1>11, <1>12, <1>13, <1>14

\* Letters with a list: where it is, and how many values are taken above it and in all.
Lists(letters, k, above, others) ==
  /\ letters \in Seq(Alphabet) /\ ListAt(letters, k)
  /\ \A length \in Nat : \A w : Weighs(w, letters, length) =>
       w[k - 1] = above /\ w[Len(letters)] = others + length + 1

Nibbles(change, pushed, below, above) ==
  Nibble(change, 1) = pushed /\ Nibble(change, \h10) = below /\ Nibble(change, \h100) = above

ListEffect(letters, k, above, below, others, change, pushed) ==
  /\ above \in Nat /\ below \in Nat /\ pushed \in Nat /\ change \in Int /\ change >= \h1000
  /\ others = below + above /\ Lists(letters, k, above, others)
  /\ Nibbles(change, pushed, below, above)

\* What 16 bits hold is left as it is.
LEMMA InSixteenBits ==
  ASSUME NEW n \in Int, n >= -\h8000, n < \h8000
  PROVE  Int16(n) = n
<1>1. \A m \in Int : m >= 0 /\ m < \h10000 => m % \h10000 = m
  OBVIOUS
<1> DEFINE m == n + \h8000
<1>2. m \in Int /\ m >= 0 /\ m < \h10000 /\ m - \h8000 = n
  OBVIOUS
<1> HIDE DEF m
<1>3. m % \h10000 = m
  BY <1>1, <1>2
<1>4. Int16(n) = (m % \h10000) - \h8000
  BY DEF Int16, m
<1> QED
  BY <1>2, <1>3, <1>4

LEMMA OfSixteenBits ==
  ASSUME NEW n \in Int
  PROVE  Int16(n) \in Int
<1> DEFINE m == n + \h8000
<1>1. m \in Int
  OBVIOUS
<1> HIDE DEF m
<1>2. m % \h10000 \in Int
  BY <1>1
<1> QED
  BY <1>2 DEF Int16, m

LEMMA NibblesOf ==
  ASSUME NEW change \in Int
  PROVE  /\ Nibble(change, 1) \in Nat /\ Nibble(change, 1) < 16
         /\ Nibble(change, \h10) \in Nat /\ Nibble(change, \h10) < 16
         /\ Nibble(change, \h100) \in Nat /\ Nibble(change, \h100) < 16
BY DEF Nibble

LEMMA EffectOfLength ==
  ASSUME NEW change \in Int, NEW length \in Nat, length <= LongestList
  PROVE  StackEffect(change, length) =
           Nibble(change, 1) - Nibble(change, \h10) - Nibble(change, \h100) - (length + 1)
<1> DEFINE a == Nibble(change, 1)
           b == Nibble(change, \h10)
           c == Nibble(change, \h100)
           n == a - b - c - (length + 1)
<1>1. a \in Nat /\ a < 16 /\ b \in Nat /\ b < 16 /\ c \in Nat /\ c < 16
  BY NibblesOf
<1>2. length <= 32736
  BY DEF LongestList
<1>3. StackEffect(change, length) = Int16(n)
  BY DEF StackEffect
<1> HIDE DEF a, b, c
<1>4. n \in Int /\ n >= -\h8000 /\ n < \h8000
  BY <1>1, <1>2
<1> HIDE DEF n
<1>5. Int16(n) = n
  BY <1>4, InSixteenBits
<1> QED
  BY <1>3, <1>5 DEF n, a, b, c

LEMMA ListAdds ==
  ASSUME NEW letters, NEW k, NEW above, NEW below, NEW others, NEW change, NEW pushed,
         ListEffect(letters, k, above, below, others, change, pushed)
  PROVE  LettersAdd(letters, change, pushed)
<1> DEFINE n == Len(letters)
<1>1. letters \in Seq(Alphabet) /\ ListAt(letters, k) /\ k \in 1 .. n
  BY DEF ListEffect, Lists, ListAt
<1>2. above \in Nat /\ below \in Nat /\ pushed \in Nat /\ change \in Int /\ change >= \h1000
      /\ others = below + above
  BY DEF ListEffect
<1>3. ASSUME NEW length \in Nat, NEW w \in [0 .. n -> Int], Weighs(w, letters, length)
      PROVE  /\ length <= LongestList => StackEffect(change, length) = pushed - w[n]
             /\ w[k - 1] = Nibble(change, \h100)
  <2>1. w[k - 1] = above /\ w[n] = (below + above) + length + 1
    BY <1>2, <1>3 DEF Lists, ListEffect
  <2>2. length <= LongestList =>
          StackEffect(change, length) = pushed - below - above - (length + 1)
    BY <1>2, EffectOfLength DEF Nibbles, ListEffect
  <2> QED
    BY <1>2, <2>1, <2>2 DEF Nibbles, ListEffect
<1> QED
  BY <1>1, <1>2, <1>3 DEF LettersAdd

LEMMA ListLetters ==
  /\ Lists(<<"l">>, 1, 0, 0) /\ Lists(<<"l", "p">>, 1, 0, 1) /\ Lists(<<"l", "p", "p">>, 1, 0, 2)
  /\ Lists(<<"l", "p", "p", "p">>, 1, 0, 3) /\ Lists(<<"l", "w">>, 1, 0, 0)
  /\ Lists(<<"p", "l">>, 2, 1, 1)
<1>1. "l" \in Alphabet /\ "p" \in Alphabet /\ "w" \in Alphabet
  BY DEF Alphabet
<1>2. \A length \in Nat : /\ Weight("l", length) = length + 1
                          /\ Weight("p", length) = 1 /\ Weight("w", length) = 0
  BY DEF Weight
<1>3. Lists(<<"l">>, 1, 0, 0)
  <2> DEFINE s == <<"l">>
  <2>1. s \in Seq(Alphabet) /\ ListAt(s, 1) /\ Len(s) = 1 /\ s[1] = "l"
    BY <1>1, LettersTyped DEF ListAt
  <2> HIDE DEF s
  <2>2. ASSUME NEW length \in Nat, NEW w, Weighs(w, s, length)
        PROVE  w[0] = 0 /\ w[1] = 0 + length + 1
    <3>1. Len(s) = 1
      BY <2>1
    <3>2. w[0] = 0 /\ w[1] = w[0] + Weight(s[1], length)
      BY <2>2, <3>1, OneLetter
    <3> QED
      BY <1>2, <2>1, <3>2
  <2>3. Lists(s, 1, 0, 0)
    BY <2>1, <2>2 DEF Lists
  <2> QED
    BY <2>3 DEF s
<1>4. Lists(<<"l", "p">>, 1, 0, 1)
  <2> DEFINE s == <<"l", "p">>
  <2>1. s \in Seq(Alphabet) /\ ListAt(s, 1) /\ Len(s) = 2 /\ s[1] = "l" /\ s[2] = "p"
    BY <1>1, LettersTyped DEF ListAt
  <2> HIDE DEF s
  <2>2. ASSUME NEW length \in Nat, NEW w, Weighs(w, s, length)
        PROVE  w[0] = 0 /\ w[2] = 1 + length + 1
    <3>1. Len(s) = 2
      BY <2>1
    <3>2. w[0] = 0 /\ w[1] = w[0] + Weight(s[1], length) /\ w[2] = w[1] + Weight(s[2], length)
      BY <2>2, <3>1, TwoLetters
    <3> QED
      BY <1>2, <2>1, <3>2
  <2>3. Lists(s, 1, 0, 1)
    BY <2>1, <2>2 DEF Lists
  <2> QED
    BY <2>3 DEF s
<1>5. Lists(<<"l", "p", "p">>, 1, 0, 2)
  <2> DEFINE s == <<"l", "p", "p">>
  <2>1. s \in Seq(Alphabet) /\ ListAt(s, 1) /\ Len(s) = 3 /\ s[1] = "l" /\ s[2] = "p" /\ s[3] = "p"
    BY <1>1, LettersTyped DEF ListAt
  <2> HIDE DEF s
  <2>2. ASSUME NEW length \in Nat, NEW w, Weighs(w, s, length)
        PROVE  w[0] = 0 /\ w[3] = 2 + length + 1
    <3>1. Len(s) = 3
      BY <2>1
    <3>2. w[0] = 0 /\ w[1] = w[0] + Weight(s[1], length) /\ w[2] = w[1] + Weight(s[2], length) /\ w[3] = w[2] + Weight(s[3], length)
      BY <2>2, <3>1, ThreeLetters
    <3> QED
      BY <1>2, <2>1, <3>2
  <2>3. Lists(s, 1, 0, 2)
    BY <2>1, <2>2 DEF Lists
  <2> QED
    BY <2>3 DEF s
<1>6. Lists(<<"l", "p", "p", "p">>, 1, 0, 3)
  <2> DEFINE s == <<"l", "p", "p", "p">>
  <2>1. s \in Seq(Alphabet) /\ ListAt(s, 1) /\ Len(s) = 4 /\ s[1] = "l" /\ s[2] = "p"
        /\ s[3] = "p" /\ s[4] = "p"
    BY <1>1, LettersTyped DEF ListAt
  <2> HIDE DEF s
  <2>2. ASSUME NEW length \in Nat, NEW w, Weighs(w, s, length)
        PROVE  w[0] = 0 /\ w[4] = 3 + length + 1
    <3>1. Len(s) = 4
      BY <2>1
    <3>2. w[0] = 0 /\ w[1] = w[0] + Weight(s[1], length) /\ w[2] = w[1] + Weight(s[2], length) /\ w[3] = w[2] + Weight(s[3], length) /\ w[4] = w[3] + Weight(s[4], length)
      BY <2>2, <3>1, FourLetters
    <3> QED
      BY <1>2, <2>1, <3>2
  <2>3. Lists(s, 1, 0, 3)
    BY <2>1, <2>2 DEF Lists
  <2> QED
    BY <2>3 DEF s
<1>7. Lists(<<"l", "w">>, 1, 0, 0)
  <2> DEFINE s == <<"l", "w">>
  <2>1. s \in Seq(Alphabet) /\ ListAt(s, 1) /\ Len(s) = 2 /\ s[1] = "l" /\ s[2] = "w"
    BY <1>1, LettersTyped DEF ListAt
  <2> HIDE DEF s
  <2>2. ASSUME NEW length \in Nat, NEW w, Weighs(w, s, length)
        PROVE  w[0] = 0 /\ w[2] = 0 + length + 1
    <3>1. Len(s) = 2
      BY <2>1
    <3>2. w[0] = 0 /\ w[1] = w[0] + Weight(s[1], length) /\ w[2] = w[1] + Weight(s[2], length)
      BY <2>2, <3>1, TwoLetters
    <3> QED
      BY <1>2, <2>1, <3>2
  <2>3. Lists(s, 1, 0, 0)
    BY <2>1, <2>2 DEF Lists
  <2> QED
    BY <2>3 DEF s
<1>8. Lists(<<"p", "l">>, 2, 1, 1)
  <2> DEFINE s == <<"p", "l">>
  <2>1. s \in Seq(Alphabet) /\ ListAt(s, 2) /\ Len(s) = 2 /\ s[1] = "p" /\ s[2] = "l"
    BY <1>1, LettersTyped DEF ListAt
  <2> HIDE DEF s
  <2>2. ASSUME NEW length \in Nat, NEW w, Weighs(w, s, length)
        PROVE  w[1] = 1 /\ w[2] = 1 + length + 1
    <3>1. Len(s) = 2
      BY <2>1
    <3>2. w[0] = 0 /\ w[1] = w[0] + Weight(s[1], length) /\ w[2] = w[1] + Weight(s[2], length)
      BY <2>2, <3>1, TwoLetters
    <3> QED
      BY <1>2, <2>1, <3>2
  <2>3. Lists(s, 2, 1, 1)
    BY <2>1, <2>2 DEF Lists
  <2> QED
    BY <2>3 DEF s
<1> QED
  BY <1>3, <1>4, <1>5, <1>6, <1>7, <1>8

LEMMA MarkedEffects ==
  /\ Nibbles(\h1000, 0, 0, 0) /\ Nibbles(\h1010, 0, 1, 0) /\ Nibbles(\h1020, 0, 2, 0)
  /\ Nibbles(\h1030, 0, 3, 0) /\ Nibbles(\h1011, 1, 1, 0) /\ Nibbles(\h1001, 1, 0, 0)
  /\ Nibbles(\h1100, 0, 0, 1)
BY DEF Nibbles, Nibble

LEMMA ListEffects ==
  /\ LettersAdd(<<"l">>, \h1000, 0) /\ LettersAdd(<<"l", "p">>, \h1010, 0)
  /\ LettersAdd(<<"l", "p", "p">>, \h1020, 0) /\ LettersAdd(<<"l", "p", "p", "p">>, \h1030, 0)
  /\ LettersAdd(<<"l", "p">>, \h1011, 1) /\ LettersAdd(<<"l", "w">>, \h1001, 1)
  /\ LettersAdd(<<"p", "l">>, \h1100, 0)
<1>1. ListEffect(<<"l">>, 1, 0, 0, 0, \h1000, 0)
  BY ListLetters, MarkedEffects DEF ListEffect
<1>2. ListEffect(<<"l", "p">>, 1, 0, 1, 1, \h1010, 0)
  BY ListLetters, MarkedEffects DEF ListEffect
<1>3. ListEffect(<<"l", "p", "p">>, 1, 0, 2, 2, \h1020, 0)
  BY ListLetters, MarkedEffects DEF ListEffect
<1>4. ListEffect(<<"l", "p", "p", "p">>, 1, 0, 3, 3, \h1030, 0)
  BY ListLetters, MarkedEffects DEF ListEffect
<1>5. ListEffect(<<"l", "p">>, 1, 0, 1, 1, \h1011, 1)
  BY ListLetters, MarkedEffects DEF ListEffect
<1>6. ListEffect(<<"l", "w">>, 1, 0, 0, 0, \h1001, 1)
  BY ListLetters, MarkedEffects DEF ListEffect
<1>7. ListEffect(<<"p", "l">>, 2, 1, 0, 1, \h1100, 0)
  BY ListLetters, MarkedEffects DEF ListEffect
<1> QED
  BY <1>1, <1>2, <1>3, <1>4, <1>5, <1>6, <1>7, ListAdds

\* What the letters of a call add, after the "r" of a call with a value.
DataAdds(change, data) ==
  /\ change \in Int
  /\ LettersAdd(IF ReturnsValue(data) THEN Tail(data) ELSE data, change,
                IF ReturnsValue(data) THEN 1 ELSE 0)

LEMMA CallsAdd ==
  ASSUME NEW change, NEW data, DataAdds(change, data), NEW params
  PROVE  /\ EffectAdds(Call(change, data)) /\ EffectAdds(SubCall(change, data))
         /\ EffectAdds(Opcode("Call", change, params, data))
         /\ EffectAdds(Suboption(change, params, data))
BY DEF DataAdds, EffectAdds, Call, SubCall, Suboption, Opcode, EntryLetters, Pushed

LEMMA WithoutValue ==
  /\ ~ReturnsValue(<<>>)
  /\ \A a : ReturnsValue(<<a>>) <=> a = "r"
  /\ \A a, b : ReturnsValue(<<a, b>>) <=> a = "r"
  /\ \A a, b, c : ReturnsValue(<<a, b, c>>) <=> a = "r"
  /\ \A a, b, c, d : ReturnsValue(<<a, b, c, d>>) <=> a = "r"
  /\ \A a, b, c, d, e : ReturnsValue(<<a, b, c, d, e>>) <=> a = "r"
BY DEF ReturnsValue

LEMMA Tails ==
  /\ \A a, b : Tail(<<a, b>>) = <<b>>
  /\ \A a, b, c : Tail(<<a, b, c>>) = <<b, c>>
  /\ \A a, b, c, d : Tail(<<a, b, c, d>>) = <<b, c, d>>
  /\ \A a, b, c, d, e : Tail(<<a, b, c, d, e>>) = <<b, c, d, e>>
OBVIOUS

LEMMA PlainCalls ==
  /\ DataAdds(0, <<>>) /\ DataAdds(-1, <<"p">>) /\ DataAdds(-2, <<"p", "p">>)
  /\ DataAdds(-3, <<"p", "p", "p">>) /\ DataAdds(-4, <<"p", "p", "p", "p">>)
  /\ DataAdds(-5, <<"p", "p", "p", "p", "p">>)
  /\ DataAdds(-2, <<"z">>) /\ DataAdds(-3, <<"z", "p">>) /\ DataAdds(-4, <<"p", "p", "z">>)
  /\ DataAdds(-1, <<"p", "s">>) /\ DataAdds(0, <<"s">>) /\ DataAdds(-2, <<"v", "p", "p">>)
  /\ DataAdds(-1, <<"p", "j">>) /\ DataAdds(-1, <<"p", "v">>) /\ DataAdds(0, <<"v">>)
  /\ DataAdds(-2, <<"p", "p", "v">>)
<1>1. ASSUME NEW letters, NEW takes \in Nat, NEW change \in Int, change = 0 - takes,
             Adds(letters, takes), ~ReturnsValue(letters)
      PROVE  DataAdds(change, letters)
  <2>1. 0 - takes < \h1000 /\ 0 \in Nat
    OBVIOUS
  <2>2. LettersAdd(letters, 0 - takes, 0)
    BY <1>1, <2>1 DEF Adds
  <2> QED
    BY <1>1, <2>2 DEF DataAdds
<1>2. DataAdds(0, <<>>) /\ DataAdds(-1, <<"p">>) /\ DataAdds(-2, <<"p", "p">>)
  BY <1>1, PlainEffects, WithoutValue
<1>3. DataAdds(-3, <<"p", "p", "p">>) /\ DataAdds(-4, <<"p", "p", "p", "p">>)
  BY <1>1, PlainEffects, WithoutValue
<1>4. DataAdds(-5, <<"p", "p", "p", "p", "p">>)
  BY <1>1, PlainEffects, WithoutValue
<1>5. DataAdds(-2, <<"z">>) /\ DataAdds(-3, <<"z", "p">>) /\ DataAdds(-4, <<"p", "p", "z">>)
  BY <1>1, PlainEffects, WithoutValue
<1>6. DataAdds(-1, <<"p", "s">>) /\ DataAdds(0, <<"s">>) /\ DataAdds(-2, <<"v", "p", "p">>)
  BY <1>1, PlainEffects, WithoutValue
<1>7. DataAdds(-1, <<"p", "j">>) /\ DataAdds(-1, <<"p", "v">>) /\ DataAdds(0, <<"v">>)
  BY <1>1, PlainEffects, WithoutValue
<1>8. DataAdds(-2, <<"p", "p", "v">>)
  BY <1>1, PlainEffects, WithoutValue
<1> QED
  BY <1>2, <1>3, <1>4, <1>5, <1>6, <1>7, <1>8

LEMMA CallsWithValue ==
  /\ DataAdds(0, <<"r", "p">>) /\ DataAdds(-1, <<"r", "p", "p">>)
  /\ DataAdds(-2, <<"r", "p", "p", "p">>) /\ DataAdds(-3, <<"r", "p", "p", "p", "p">>)
<1>1. ASSUME NEW data, NEW letters, NEW takes \in Nat, NEW change \in Int, change = 1 - takes,
             Adds(letters, takes), ReturnsValue(data), Tail(data) = letters
      PROVE  DataAdds(change, data)
  <2>1. 1 - takes < \h1000 /\ 1 \in Nat
    OBVIOUS
  <2>2. LettersAdd(letters, 1 - takes, 1)
    BY <1>1, <2>1 DEF Adds
  <2> QED
    BY <1>1, <2>2 DEF DataAdds
<1>2. DataAdds(0, <<"r", "p">>)
  <2> DEFINE data == <<"r", "p">>
             letters == <<"p">>
  <2>1. Adds(letters, 1) /\ ReturnsValue(data) /\ Tail(data) = letters
    BY PlainEffects, WithoutValue
  <2> HIDE DEF data, letters
  <2>2. DataAdds(0, data)
    BY <1>1, <2>1
  <2> QED
    BY <2>2 DEF data
<1>3. DataAdds(-1, <<"r", "p", "p">>)
  <2> DEFINE data == <<"r", "p", "p">>
             letters == <<"p", "p">>
  <2>1. Adds(letters, 2) /\ ReturnsValue(data) /\ Tail(data) = letters
    BY PlainEffects, WithoutValue
  <2> HIDE DEF data, letters
  <2>2. DataAdds(-1, data)
    BY <1>1, <2>1
  <2> QED
    BY <2>2 DEF data
<1>4. DataAdds(-2, <<"r", "p", "p", "p">>)
  <2> DEFINE data == <<"r", "p", "p", "p">>
             letters == <<"p", "p", "p">>
  <2>1. Adds(letters, 3) /\ ReturnsValue(data) /\ Tail(data) = letters
    BY PlainEffects, WithoutValue
  <2> HIDE DEF data, letters
  <2>2. DataAdds(-2, data)
    BY <1>1, <2>1
  <2> QED
    BY <2>2 DEF data
<1>5. DataAdds(-3, <<"r", "p", "p", "p", "p">>)
  <2> DEFINE data == <<"r", "p", "p", "p", "p">>
             letters == <<"p", "p", "p", "p">>
  <2>1. Adds(letters, 4) /\ ReturnsValue(data) /\ Tail(data) = letters
    BY PlainEffects, WithoutValue
  <2> HIDE DEF data, letters
  <2>2. DataAdds(-3, data)
    BY <1>1, <2>1
  <2> QED
    BY <2>2 DEF data
<1> QED
  BY <1>2, <1>3, <1>4, <1>5

LEMMA CallsWithList ==
  /\ DataAdds(\h1020, <<"l", "p", "p">>) /\ DataAdds(\h1010, <<"l", "p">>)
  /\ DataAdds(\h1030, <<"l", "p", "p", "p">>) /\ DataAdds(\h1000, <<"l">>)
  /\ DataAdds(\h1011, <<"r", "l", "p">>) /\ DataAdds(\h1100, <<"p", "l">>)
  /\ DataAdds(\h1001, <<"r", "l", "w">>)
BY ListEffects, WithoutValue, Tails DEF DataAdds

\* The other classes.
LEMMA OthersAdd ==
  /\ \A params, data : EffectAdds(Opcode("Push", 1, params, data))
  /\ \A params, data : EffectAdds(Opcode("PushVar", 1, params, data))
  /\ \A params, data : EffectAdds(Opcode("ArrayRead", 0, params, data))
  /\ \A params, data : EffectAdds(Opcode("IndexedRead", -1, params, data))
  /\ \A params, data : EffectAdds(Opcode("Binary", -1, params, data))
  /\ \A params, data : EffectAdds(Opcode("Dup", 1, params, data))
  /\ \A params, data : EffectAdds(Opcode("Not", 0, params, data))
  /\ \A params, data : EffectAdds(Opcode("Pop", -1, params, data))
  /\ \A params, data : EffectAdds(Opcode("Write", -1, params, data))
  /\ \A params, data : EffectAdds(Opcode("ArrayWrite", -2, params, data))
  /\ \A params, data : EffectAdds(Opcode("IndexedWrite", -3, params, data))
  /\ \A params, data : EffectAdds(Opcode("VarInc", 0, params, data))
  /\ \A params, data : EffectAdds(Opcode("ArrayInc", -1, params, data))
  /\ \A params, data : EffectAdds(Opcode("CondJump", -1, params, data))
  /\ \A params, data : EffectAdds(Opcode("Jump", 0, params, data))
  /\ \A params, data : EffectAdds([Opcode("AssignString", -1, params, data) EXCEPT !.sub = TRUE])
  /\ \A params, data : EffectAdds([Opcode("AssignList", \h1100, params, data) EXCEPT !.sub = TRUE])
<1>1. ASSUME NEW letters, NEW takes \in Nat, NEW pushed \in 0 .. 2, NEW change \in Int,
             change = pushed - takes, Adds(letters, takes)
      PROVE  LettersAdd(letters, change, pushed)
  <2>1. pushed \in Nat /\ pushed - takes < \h1000
    OBVIOUS
  <2> QED
    BY <1>1, <2>1 DEF Adds
<1>2. /\ LettersAdd(<<>>, 1, 1) /\ LettersAdd(<<>>, 0, 0)
      /\ LettersAdd(<<"p">>, 0, 1) /\ LettersAdd(<<"p">>, 1, 2) /\ LettersAdd(<<"p">>, -1, 0)
      /\ LettersAdd(<<"p", "p">>, -1, 1) /\ LettersAdd(<<"p", "p">>, -2, 0)
      /\ LettersAdd(<<"p", "p", "p">>, -3, 0)
  BY <1>1, PlainEffects
<1>3. /\ \A params, data : EffectAdds(Opcode("Push", 1, params, data))
      /\ \A params, data : EffectAdds(Opcode("PushVar", 1, params, data))
      /\ \A params, data : EffectAdds(Opcode("ArrayRead", 0, params, data))
      /\ \A params, data : EffectAdds(Opcode("IndexedRead", -1, params, data))
      /\ \A params, data : EffectAdds(Opcode("Binary", -1, params, data))
      /\ \A params, data : EffectAdds(Opcode("Dup", 1, params, data))
      /\ \A params, data : EffectAdds(Opcode("Not", 0, params, data))
  BY <1>2 DEF EffectAdds, Opcode, EntryLetters, Pushed
<1>4. /\ \A params, data : EffectAdds(Opcode("Pop", -1, params, data))
      /\ \A params, data : EffectAdds(Opcode("Write", -1, params, data))
      /\ \A params, data : EffectAdds(Opcode("ArrayWrite", -2, params, data))
      /\ \A params, data : EffectAdds(Opcode("IndexedWrite", -3, params, data))
      /\ \A params, data : EffectAdds(Opcode("VarInc", 0, params, data))
      /\ \A params, data : EffectAdds(Opcode("ArrayInc", -1, params, data))
      /\ \A params, data : EffectAdds(Opcode("CondJump", -1, params, data))
      /\ \A params, data : EffectAdds(Opcode("Jump", 0, params, data))
  BY <1>2 DEF EffectAdds, Opcode, EntryLetters, Pushed
<1>5. /\ \A params, data : EffectAdds([Opcode("AssignString", -1, params, data) EXCEPT !.sub = TRUE])
      /\ \A params, data : EffectAdds([Opcode("AssignList", \h1100, params, data) EXCEPT !.sub = TRUE])
  BY <1>2, ListEffects DEF EffectAdds, Opcode, EntryLetters, Pushed
<1> QED
  BY <1>3, <1>4, <1>5

\* The effects of a table, but for the two opcodes whose effects are wrong in it.
EffectsAdd(table) ==
  \A op \in DOMAIN table :
    /\ EntryLetters(table[op]) \in Seq(Alphabet)
    /\ op \notin WrongEffects => EffectAdds(table[op])
AllEffectsAdd(table) == \A op \in DOMAIN table : EffectAdds(table[op])

LEMMA EffectsOfTables ==
  /\ \A S, v : EffectAdds(v) => AllEffectsAdd(Each(S, v))
  /\ \A f, g : AllEffectsAdd(f) /\ AllEffectsAdd(g) => AllEffectsAdd(f ++ g)
  /\ \A p, f : AllEffectsAdd(f) => AllEffectsAdd(Prefixed(p, f))
  /\ \A f : AllEffectsAdd(f) => EffectsAdd(f)
  /\ \A op, v : op \in WrongEffects /\ EntryLetters(v) \in Seq(Alphabet) => EffectsAdd(Each({op}, v))
  /\ \A f, g : EffectsAdd(f) /\ EffectsAdd(g) => EffectsAdd(f ++ g)
<1>1. \A S, v : EffectAdds(v) => AllEffectsAdd(Each(S, v))
  BY DEF AllEffectsAdd, Each
<1>2. ASSUME NEW f, NEW g
      PROVE  /\ AllEffectsAdd(f) /\ AllEffectsAdd(g) => AllEffectsAdd(f ++ g)
             /\ EffectsAdd(f) /\ EffectsAdd(g) => EffectsAdd(f ++ g)
  <2>1. /\ DOMAIN (f ++ g) = DOMAIN f \cup DOMAIN g
        /\ \A op \in DOMAIN f : (f ++ g)[op] = f[op]
        /\ \A op \in DOMAIN g : op \notin DOMAIN f => (f ++ g)[op] = g[op]
    BY TwoTables
  <2>4. AllEffectsAdd(f) /\ AllEffectsAdd(g) => AllEffectsAdd(f ++ g)
    BY <2>1 DEF AllEffectsAdd
  <2> QED
    BY <2>1, <2>4 DEF EffectsAdd
<1>3. \A p, f : AllEffectsAdd(f) => AllEffectsAdd(Prefixed(p, f))
  BY DEF AllEffectsAdd, Prefixed
<1>4. \A f : AllEffectsAdd(f) => EffectsAdd(f)
  BY DEF AllEffectsAdd, EffectsAdd, EffectAdds, LettersAdd
<1>5. \A op, v : op \in WrongEffects /\ EntryLetters(v) \in Seq(Alphabet) => EffectsAdd(Each({op}, v))
  BY DEF EffectsAdd, Each
<1> QED
  BY <1>1, <1>2, <1>3, <1>4, <1>5

\* The stack effect the table gives an opcode is what the opcode's class pushes less what
\* its letters take, for lists of up to LongestList values and every opcode but the two of
\* WrongEffects (the tables of scummv6/disassembler.cpp, against the processInst of each).
THEOREM EffectsOfScumm == EffectsAdd(ScummOpcodeTable)
<1>1. /\ \A S, v : EffectAdds(v) => AllEffectsAdd(Each(S, v))
      /\ \A f, g : AllEffectsAdd(f) /\ AllEffectsAdd(g) => AllEffectsAdd(f ++ g)
  BY EffectsOfTables
<1>2. \A p, f : AllEffectsAdd(f) => AllEffectsAdd(Prefixed(p, f))
  BY EffectsOfTables
<1>3. /\ \A op, v : op \in WrongEffects /\ EntryLetters(v) \in Seq(Alphabet) => EffectsAdd(Each({op}, v))
      /\ \A f, g : EffectsAdd(f) /\ EffectsAdd(g) => EffectsAdd(f ++ g)
      /\ \A f : AllEffectsAdd(f) => EffectsAdd(f)
  BY EffectsOfTables
<1>4. \A change, data, params : DataAdds(change, data) =>
        /\ EffectAdds(Call(change, data)) /\ EffectAdds(SubCall(change, data))
        /\ EffectAdds(Opcode("Call", change, params, data))
        /\ EffectAdds(Suboption(change, params, data))
  BY CallsAdd
<1>5. AllEffectsAdd(LoadOpcodes)
  <2>1. /\ EffectAdds(Opcode("Push", 1, <<"B">>, <<>>))
        /\ EffectAdds(Opcode("Push", 1, <<"s">>, <<>>))
        /\ EffectAdds(Opcode("PushVar", 1, <<"B">>, <<>>))
        /\ EffectAdds(Opcode("PushVar", 1, <<"w">>, <<>>))
        /\ EffectAdds(Opcode("ArrayRead", 0, <<"B">>, <<>>))
        /\ EffectAdds(Opcode("ArrayRead", 0, <<"w">>, <<>>))
        /\ EffectAdds(Opcode("IndexedRead", -1, <<"B">>, <<>>))
        /\ EffectAdds(Opcode("IndexedRead", -1, <<"w">>, <<>>))
    BY OthersAdd
  <2> DEFINE part1 == Each({"pushByte"}, Opcode("Push", 1, <<"B">>, <<>>))
             part2 == Each({"pushWord"}, Opcode("Push", 1, <<"s">>, <<>>))
             part3 == Each({"pushByteVar"}, Opcode("PushVar", 1, <<"B">>, <<>>))
             part4 == Each({"pushWordVar"}, Opcode("PushVar", 1, <<"w">>, <<>>))
             part5 == Each({"byteArrayRead"}, Opcode("ArrayRead", 0, <<"B">>, <<>>))
             part6 == Each({"wordArrayRead"}, Opcode("ArrayRead", 0, <<"w">>, <<>>))
             part7 == Each({"byteArrayIndexedRead"}, Opcode("IndexedRead", -1, <<"B">>, <<>>))
             part8 == Each({"wordArrayIndexedRead"}, Opcode("IndexedRead", -1, <<"w">>, <<>>))
  <2>2. /\ AllEffectsAdd(part1)
        /\ AllEffectsAdd(part2)
        /\ AllEffectsAdd(part3)
        /\ AllEffectsAdd(part4)
        /\ AllEffectsAdd(part5)
        /\ AllEffectsAdd(part6)
        /\ AllEffectsAdd(part7)
        /\ AllEffectsAdd(part8)
    BY <1>1, <2>1
  <2>3. LoadOpcodes = part1 ++ part2 ++ part3 ++ part4 ++ part5 ++ part6 ++ part7 ++ part8
    BY DEF LoadOpcodes
  <2> HIDE DEF part1, part2, part3, part4, part5, part6, part7, part8
  <2>4. AllEffectsAdd(part1 ++ part2 ++ part3 ++ part4 ++ part5 ++ part6 ++ part7 ++ part8)
    BY <1>1, <2>2
  <2> QED
    BY <2>3, <2>4
<1>6. AllEffectsAdd(StoreOpcodes)
  <2>1. /\ EffectAdds(Opcode("Write", -1, <<"B">>, <<>>))
        /\ EffectAdds(Opcode("Write", -1, <<"w">>, <<>>))
        /\ EffectAdds(Opcode("ArrayWrite", -2, <<"B">>, <<>>))
        /\ EffectAdds(Opcode("ArrayWrite", -2, <<"w">>, <<>>))
        /\ EffectAdds(Opcode("IndexedWrite", -3, <<"B">>, <<>>))
        /\ EffectAdds(Opcode("IndexedWrite", -3, <<"w">>, <<>>))
        /\ EffectAdds(Opcode("VarInc", 0, <<"B">>, <<>>))
        /\ EffectAdds(Opcode("VarInc", 0, <<"w">>, <<>>))
        /\ EffectAdds(Opcode("ArrayInc", -1, <<"B">>, <<>>))
        /\ EffectAdds(Opcode("ArrayInc", -1, <<"w">>, <<>>))
    BY OthersAdd
  <2> DEFINE part1 == Each({"writeByteVar"}, Opcode("Write", -1, <<"B">>, <<>>))
             part2 == Each({"writeWordVar"}, Opcode("Write", -1, <<"w">>, <<>>))
             part3 == Each({"byteArrayWrite"}, Opcode("ArrayWrite", -2, <<"B">>, <<>>))
             part4 == Each({"wordArrayWrite"}, Opcode("ArrayWrite", -2, <<"w">>, <<>>))
             part5 == Each({"byteArrayIndexedWrite"}, Opcode("IndexedWrite", -3, <<"B">>, <<>>))
             part6 == Each({"wordArrayIndexedWrite"}, Opcode("IndexedWrite", -3, <<"w">>, <<>>))
             part7 == Each({"byteVarInc", "byteVarDec"}, Opcode("VarInc", 0, <<"B">>, <<>>))
             part8 == Each({"wordVarInc", "wordVarDec"}, Opcode("VarInc", 0, <<"w">>, <<>>))
             part9 == Each({"byteArrayInc", "byteArrayDec"}, Opcode("ArrayInc", -1, <<"B">>, <<>>))
             part10 == Each({"wordArrayInc", "wordArrayDec"}, Opcode("ArrayInc", -1, <<"w">>, <<>>))
  <2>2. /\ AllEffectsAdd(part1)
        /\ AllEffectsAdd(part2)
        /\ AllEffectsAdd(part3)
        /\ AllEffectsAdd(part4)
        /\ AllEffectsAdd(part5)
        /\ AllEffectsAdd(part6)
        /\ AllEffectsAdd(part7)
        /\ AllEffectsAdd(part8)
        /\ AllEffectsAdd(part9)
        /\ AllEffectsAdd(part10)
    BY <1>1, <2>1
  <2>3. StoreOpcodes = part1 ++ part2 ++ part3 ++ part4 ++ part5 ++ part6 ++ part7 ++ part8 ++ part9 ++ part10
    BY DEF StoreOpcodes
  <2> HIDE DEF part1, part2, part3, part4, part5, part6, part7, part8, part9, part10
  <2>4. AllEffectsAdd(part1 ++ part2 ++ part3 ++ part4 ++ part5 ++ part6 ++ part7 ++ part8 ++ part9 ++ part10)
    BY <1>1, <2>2
  <2> QED
    BY <2>3, <2>4
<1>7. AllEffectsAdd(JumpOpcodes)
  <2>1. /\ EffectAdds(Opcode("CondJump", -1, <<"a">>, <<>>))
        /\ EffectAdds(Opcode("Jump", 0, <<"a">>, <<>>))
    BY OthersAdd
  <2> DEFINE part1 == Each({"jumpTrue", "jumpFalse"}, Opcode("CondJump", -1, <<"a">>, <<>>))
             part2 == Each({"jump"}, Opcode("Jump", 0, <<"a">>, <<>>))
  <2>2. /\ AllEffectsAdd(part1)
        /\ AllEffectsAdd(part2)
    BY <1>1, <2>1
  <2>3. JumpOpcodes = part1 ++ part2
    BY DEF JumpOpcodes
  <2> HIDE DEF part1, part2
  <2>4. AllEffectsAdd(part1 ++ part2)
    BY <1>1, <2>2
  <2> QED
    BY <2>3, <2>4
<1>8. EffectsAdd(ScriptCalls)
  <2>1. /\ EffectAdds(Call(\h1020, <<"l", "p", "p">>))
        /\ EffectAdds(Call(\h1010, <<"l", "p">>))
        /\ EffectAdds(Call(\h1030, <<"l", "p", "p", "p">>))
        /\ EffectAdds(Call(\h1000, <<"l">>))
        /\ EffectAdds(Call(\h1011, <<"r", "l", "p">>))
        /\ EffectAdds(Call(\h1100, <<"p", "l">>))
        /\ EffectAdds(Opcode("Call", \h1001, <<"w">>, <<"r", "l", "w">>))
    BY <1>4, CallsWithList
  <2> DEFINE part1 == Each({"startScript", "startObjectQuick", "jumpToScript"}, Call(\h1020, <<"l", "p", "p">>))
             part2 == Each({"startScriptQuick", "setClass", "pseudoRoom", "startScriptQuick2"},
                          Call(\h1010, <<"l", "p">>))
             part3 == Each({"startObject"}, Call(\h1030, <<"l", "p", "p", "p">>))
             part4 == Each({"beginCutscene", "soundKludge", "kernelGetFunctions", "kernelSetFunctions"},
                          Call(\h1000, <<"l">>))
             part5 == Each({"ifClassOfIs", "isAnyOf", "pickOneOf"}, Call(\h1011, <<"r", "l", "p">>))
             part6 == Each({"setBoxFlags"}, Call(\h1100, <<"p", "l">>))
             part7 == Each({"pickOneOfDefault"}, Call(\h111, <<"r", "p", "l", "p">>))
             part8 == Each({"pickVarRandom"}, Opcode("Call", \h1001, <<"w">>, <<"r", "l", "w">>))
  <2>2. /\ AllEffectsAdd(part1)
        /\ AllEffectsAdd(part2)
        /\ AllEffectsAdd(part3)
        /\ AllEffectsAdd(part4)
        /\ AllEffectsAdd(part5)
        /\ AllEffectsAdd(part6)
        /\ AllEffectsAdd(part8)
    BY <1>1, <2>1
  <2>3. EffectsAdd(part7)
    <3>1. "pickOneOfDefault" \in WrongEffects
      BY DEF WrongEffects
    <3>2. EntryLetters(Call(\h111, <<"r", "p", "l", "p">>)) \in Seq(Alphabet)
      <4>1. EntryLetters(Call(\h111, <<"r", "p", "l", "p">>)) = <<"p", "l", "p">>
        BY Tails DEF Call, Opcode, EntryLetters, ReturnsValue
      <4>2. "p" \in Alphabet /\ "l" \in Alphabet
        BY DEF Alphabet
      <4>3. \A a, b, c \in Alphabet : <<a, b, c>> \in Seq(Alphabet)
        BY LettersTyped
      <4>4. <<"p", "l", "p">> \in Seq(Alphabet)
        BY <4>2, <4>3
      <4> QED
        BY <4>1, <4>4, Zenon
    <3>3. EffectsAdd(Each({"pickOneOfDefault"}, Call(\h111, <<"r", "p", "l", "p">>)))
      BY <1>3, <3>1, <3>2
    <3> QED
      BY <3>3
  <2>4. ScriptCalls = part1 ++ part2 ++ part3 ++ part4 ++ part5 ++ part6 ++ part7 ++ part8
    BY DEF ScriptCalls
  <2> HIDE DEF part1, part2, part3, part4, part5, part6, part7, part8
  <2>5. AllEffectsAdd(part1 ++ part2 ++ part3 ++ part4 ++ part5 ++ part6)
    BY <1>1, <2>2
  <2>6. EffectsAdd(part1 ++ part2 ++ part3 ++ part4 ++ part5 ++ part6) /\ EffectsAdd(part8)
    BY <1>3, <2>2, <2>5
  <2> QED
    BY <1>3, <2>3, <2>4, <2>6
<1>9. AllEffectsAdd(KernelCalls)
  <2>1. /\ EffectAdds(Call(0, <<>>))
        /\ EffectAdds(Call(-1, <<"p">>))
        /\ EffectAdds(Call(-2, <<"p", "p">>))
        /\ EffectAdds(Call(-3, <<"p", "p", "p">>))
        /\ EffectAdds(Call(-4, <<"p", "p", "p", "p">>))
        /\ EffectAdds(Call(-5, <<"p", "p", "p", "p", "p">>))
        /\ EffectAdds(Call(-2, <<"z">>))
        /\ EffectAdds(Call(-3, <<"z", "p">>))
        /\ EffectAdds(Call(-4, <<"p", "p", "z">>))
        /\ EffectAdds(Opcode("Call", -1, <<"c">>, <<"p", "s">>))
        /\ EffectAdds(Opcode("Call", 0, <<"c">>, <<"s">>))
        /\ EffectAdds(Opcode("Call", -2, <<"w">>, <<"v", "p", "p">>))
    BY <1>4, PlainCalls
  <2> DEFINE part1 == Each({"stopObjectCodeA", "stopObjectCodeB", "endCutscene", "stopMusic", "breakHere",
                          "beginOverride", "endOverride", "createBoxMatrix", "stopSentence", "getDateTime",
                          "stopTalking"}, Call(0, <<>>))
             part2 == Each({"freezeUnfreeze", "startSound", "stopSound", "startMusic", "stopObjectScript",
                          "panCameraTo", "actorFollowCamera", "setCameraAt", "loadRoom", "stopScript",
                          "delay", "delaySeconds", "delayMinutes", "delayFrames", "setBoxSet"},
                          Call(-1, <<"p">>))
             part3 == Each({"drawObject", "setState", "setOwner", "faceActor", "animateActor"},
                          Call(-2, <<"p", "p">>))
             part4 == Each({"drawObjectAt", "walkActorToObj", "walkActorTo"}, Call(-3, <<"p", "p", "p">>))
             part5 == Each({"setBlastObjectWindow", "putActorAtXY", "doSentence", "stampObject"},
                          Call(-4, <<"p", "p", "p", "p">>))
             part6 == Each({"drawBlastObject", "drawBox"}, Call(-5, <<"p", "p", "p", "p", "p">>))
             part7 == Each({"pickupObject"}, Call(-2, <<"z">>))
             part8 == Each({"putActorAtObject"}, Call(-3, <<"z", "p">>))
             part9 == Each({"loadRoomWithEgo"}, Call(-4, <<"p", "p", "z">>))
             part10 == Each({"setObjectName", "talkActor"}, Opcode("Call", -1, <<"c">>, <<"p", "s">>))
             part11 == Each({"talkEgo"}, Opcode("Call", 0, <<"c">>, <<"s">>))
             part12 == Each({"shuffle"}, Opcode("Call", -2, <<"w">>, <<"v", "p", "p">>))
  <2>2. /\ AllEffectsAdd(part1)
        /\ AllEffectsAdd(part2)
        /\ AllEffectsAdd(part3)
        /\ AllEffectsAdd(part4)
        /\ AllEffectsAdd(part5)
        /\ AllEffectsAdd(part6)
        /\ AllEffectsAdd(part7)
        /\ AllEffectsAdd(part8)
        /\ AllEffectsAdd(part9)
        /\ AllEffectsAdd(part10)
        /\ AllEffectsAdd(part11)
        /\ AllEffectsAdd(part12)
    BY <1>1, <2>1
  <2>3. KernelCalls = part1 ++ part2 ++ part3 ++ part4 ++ part5 ++ part6 ++ part7 ++ part8 ++ part9 ++ part10 ++ part11 ++ part12
    BY DEF KernelCalls
  <2> HIDE DEF part1, part2, part3, part4, part5, part6, part7, part8, part9, part10, part11, part12
  <2>4. AllEffectsAdd(part1 ++ part2 ++ part3 ++ part4 ++ part5 ++ part6 ++ part7 ++ part8 ++ part9 ++ part10 ++ part11 ++ part12)
    BY <1>1, <2>2
  <2> QED
    BY <2>3, <2>4
<1>10. AllEffectsAdd(ValueCalls)
  <2>1. /\ EffectAdds(Call(0, <<"r", "p">>))
        /\ EffectAdds(Call(-1, <<"r", "p", "p">>))
        /\ EffectAdds(Call(-2, <<"r", "p", "p", "p">>))
        /\ EffectAdds(Call(-3, <<"r", "p", "p", "p", "p">>))
    BY <1>4, CallsWithValue
  <2> DEFINE part1 == Each({"getState", "getOwner", "getRandomNumber", "getActorMoving", "isScriptRunning",
                          "getActorRoom", "getObjectX", "getObjectY", "getObjectDir", "getActorWalkBox",
                          "getActorCostume", "getInventoryCount", "isSoundRunning", "getActorElevation",
                          "getActorWidth", "getActorScaleX", "getActorAnimCounter", "abs",
                          "isRoomScriptRunning", "findAllObjects", "getActorLayer", "getObjectNewDir"},
                          Call(0, <<"r", "p">>))
             part2 == Each({"getRandomNumberRange", "findInventory", "getVerbFromXY", "getActorFromXY",
                          "findObject", "getVerbEntrypoint", "isActorInBox", "getDistObjObj",
                          "getAnimateVariable", "getPixel"}, Call(-1, <<"r", "p", "p">>))
             part3 == Each({"getDistObjPt"}, Call(-2, <<"r", "p", "p", "p">>))
             part4 == Each({"getDistPtPt"}, Call(-3, <<"r", "p", "p", "p", "p">>))
  <2>2. /\ AllEffectsAdd(part1)
        /\ AllEffectsAdd(part2)
        /\ AllEffectsAdd(part3)
        /\ AllEffectsAdd(part4)
    BY <1>1, <2>1
  <2>3. ValueCalls = part1 ++ part2 ++ part3 ++ part4
    BY DEF ValueCalls
  <2> HIDE DEF part1, part2, part3, part4
  <2>4. AllEffectsAdd(part1 ++ part2 ++ part3 ++ part4)
    BY <1>1, <2>2
  <2> QED
    BY <2>3, <2>4
<1>11. AllEffectsAdd(CursorCommands)
  <2>0. EffectAdds(SubCall(\h1000, <<"l">>))
    BY <1>4, CallsWithList
  <2>1. /\ EffectAdds(SubCall(0, <<>>))
        /\ EffectAdds(SubCall(-2, <<"z">>))
        /\ EffectAdds(SubCall(-2, <<"p", "p">>))
        /\ EffectAdds(SubCall(-1, <<"p">>))
    BY <1>4, PlainCalls
  <2> DEFINE part1 == Each({"cursorOn", "cursorOff", "userputOn", "userputOff", "softCursorOn",
                          "softCursorOff", "softUserputOn", "softUserputOff"}, SubCall(0, <<>>))
             part2 == Each({"setCursorImg"}, SubCall(-2, <<"z">>))
             part3 == Each({"setCursorHotspot"}, SubCall(-2, <<"p", "p">>))
             part4 == Each({"initCharset", "setCursorTransparency"}, SubCall(-1, <<"p">>))
             part5 == Each({"charsetColors"}, SubCall(\h1000, <<"l">>))
  <2>2. /\ AllEffectsAdd(part1)
        /\ AllEffectsAdd(part2)
        /\ AllEffectsAdd(part3)
        /\ AllEffectsAdd(part4)
        /\ AllEffectsAdd(part5)
    BY <1>1, <2>0, <2>1
  <2>3. CursorCommands = Prefixed("cursorCommand.",
            part1 ++ part2 ++ part3 ++ part4 ++ part5)
    BY DEF CursorCommands
  <2> HIDE DEF part1, part2, part3, part4, part5
  <2>4. AllEffectsAdd(part1 ++ part2 ++ part3 ++ part4 ++ part5)
    BY <1>1, <2>2
  <2> QED
    BY <1>2, <2>3, <2>4
<1>12. AllEffectsAdd(ResourceRoutines)
  <2>1. /\ EffectAdds(SubCall(-1, <<"p">>))
        /\ EffectAdds(SubCall(-2, <<"p", "p">>))
    BY <1>4, PlainCalls
  <2> DEFINE part1 == Each({"loadScript", "loadSound", "loadCostume", "loadRoom", "nukeScript", "nukeSound",
                          "nukeCostume", "nukeRoom", "lockScript", "lockSound", "lockCostume", "lockRoom",
                          "unlockScript", "unlockSound", "unlockCostume", "unlockRoom", "loadCharset",
                          "nukeCharset"}, SubCall(-1, <<"p">>))
             part2 == Each({"loadFlObject"}, SubCall(-2, <<"p", "p">>))
  <2>2. /\ AllEffectsAdd(part1)
        /\ AllEffectsAdd(part2)
    BY <1>1, <2>1
  <2>3. ResourceRoutines = Prefixed("resourceRoutines.",
            part1 ++ part2)
    BY DEF ResourceRoutines
  <2> HIDE DEF part1, part2
  <2>4. AllEffectsAdd(part1 ++ part2)
    BY <1>1, <2>2
  <2> QED
    BY <1>2, <2>3, <2>4
<1>13. AllEffectsAdd(RoomOps)
  <2>1. /\ EffectAdds(SubCall(0, <<>>))
        /\ EffectAdds(SubCall(-1, <<"p">>))
        /\ EffectAdds(SubCall(-2, <<"p", "p">>))
        /\ EffectAdds(SubCall(-3, <<"p", "p", "p">>))
        /\ EffectAdds(SubCall(-4, <<"p", "p", "p", "p">>))
        /\ EffectAdds(SubCall(-5, <<"p", "p", "p", "p", "p">>))
    BY <1>4, PlainCalls
  <2> DEFINE part1 == Each({"shakeOn", "shakeOff"}, SubCall(0, <<>>))
             part2 == Each({"screenEffect", "setPalette"}, SubCall(-1, <<"p">>))
             part3 == Each({"roomScroll", "setScreen", "saveLoadRoom", "colorCycleDelay", "copyPalColor"},
                          SubCall(-2, <<"p", "p">>))
             part4 == Each({"darkenPalette"}, SubCall(-3, <<"p", "p", "p">>))
             part5 == Each({"setPalColor", "palManipulate"}, SubCall(-4, <<"p", "p", "p", "p">>))
             part6 == Each({"darkenPaletteRGB", "setupShadowPalette"},
                          SubCall(-5, <<"p", "p", "p", "p", "p">>))
  <2>2. /\ AllEffectsAdd(part1)
        /\ AllEffectsAdd(part2)
        /\ AllEffectsAdd(part3)
        /\ AllEffectsAdd(part4)
        /\ AllEffectsAdd(part5)
        /\ AllEffectsAdd(part6)
    BY <1>1, <2>1
  <2>3. RoomOps = Prefixed("roomOps.",
            part1 ++ part2 ++ part3 ++ part4 ++ part5 ++ part6)
    BY DEF RoomOps
  <2> HIDE DEF part1, part2, part3, part4, part5, part6
  <2>4. AllEffectsAdd(part1 ++ part2 ++ part3 ++ part4 ++ part5 ++ part6)
    BY <1>1, <2>2
  <2> QED
    BY <1>2, <2>3, <2>4
<1>14. AllEffectsAdd(ActorOps)
  <2>0. EffectAdds(SubCall(\h1000, <<"l">>))
    BY <1>4, CallsWithList
  <2>1. /\ EffectAdds(SubCall(0, <<>>))
        /\ EffectAdds(SubCall(-1, <<"p">>))
        /\ EffectAdds(SubCall(-2, <<"p", "p">>))
        /\ EffectAdds(SubCall(-3, <<"p", "p", "p">>))
        /\ EffectAdds(Suboption(0, <<"c">>, <<"s">>))
    BY <1>4, PlainCalls
  <2> DEFINE part1 == Each({"init", "setDefAnim", "setNeverZClip", "setIgnoreBoxes", "setFollowBoxes",
                          "setIgnoreTurnsOn", "setIgnoreTurnsOff", "initLittle", "setStanding", "freeze",
                          "unfreeze"}, SubCall(0, <<>>))
             part2 == Each({"setCostume", "setWalkFrame", "setStandFrame", "setElevation", "setTalkColor",
                          "setInitFrame", "setWidth", "setScale", "setAlwaysZClip", "setAnimSpeed",
                          "setShadowMode", "setCurActor", "setAlwaysZClip?", "setLayer", "setWalkScript",
                          "setDirection", "turnToDirection", "setTalkScript"}, SubCall(-1, <<"p">>))
             part3 == Each({"setWalkSpeed", "setTalkFrame", "setPalette", "setTalkPos", "setAnimVar"},
                          SubCall(-2, <<"p", "p">>))
             part4 == Each({"82?"}, SubCall(-3, <<"p", "p", "p">>))
             part5 == Each({"setSound"}, SubCall(\h1000, <<"l">>))
             part6 == Each({"setName"}, Suboption(0, <<"c">>, <<"s">>))
  <2>2. /\ AllEffectsAdd(part1)
        /\ AllEffectsAdd(part2)
        /\ AllEffectsAdd(part3)
        /\ AllEffectsAdd(part4)
        /\ AllEffectsAdd(part5)
        /\ AllEffectsAdd(part6)
    BY <1>1, <2>0, <2>1
  <2>3. ActorOps = Prefixed("actorOps.",
            part1 ++ part2 ++ part3 ++ part4 ++ part5 ++ part6)
    BY DEF ActorOps
  <2> HIDE DEF part1, part2, part3, part4, part5, part6
  <2>4. AllEffectsAdd(part1 ++ part2 ++ part3 ++ part4 ++ part5 ++ part6)
    BY <1>1, <2>2
  <2> QED
    BY <1>2, <2>3, <2>4
<1>15. AllEffectsAdd(VerbOps)
  <2>1. /\ EffectAdds(SubCall(0, <<>>))
        /\ EffectAdds(SubCall(-1, <<"p">>))
        /\ EffectAdds(SubCall(-2, <<"p", "p">>))
        /\ EffectAdds(Suboption(0, <<"c">>, <<"s">>))
    BY <1>4, PlainCalls
  <2> DEFINE part1 == Each({"setOn", "setOff", "kill", "init", "setDimmed", "setCenter", "redraw"},
                          SubCall(0, <<>>))
             part2 == Each({"loadImg", "setColor", "setHiColor", "setDimColor", "setKey", "setToString",
                          "setBkColor", "setCurVerb"}, SubCall(-1, <<"p">>))
             part3 == Each({"setXY", "setToObject"}, SubCall(-2, <<"p", "p">>))
             part4 == Each({"loadString"}, Suboption(0, <<"c">>, <<"s">>))
  <2>2. /\ AllEffectsAdd(part1)
        /\ AllEffectsAdd(part2)
        /\ AllEffectsAdd(part3)
        /\ AllEffectsAdd(part4)
    BY <1>1, <2>1
  <2>3. VerbOps = Prefixed("verbOps.",
            part1 ++ part2 ++ part3 ++ part4)
    BY DEF VerbOps
  <2> HIDE DEF part1, part2, part3, part4
  <2>4. AllEffectsAdd(part1 ++ part2 ++ part3 ++ part4)
    BY <1>1, <2>2
  <2> QED
    BY <1>2, <2>3, <2>4
<1>16. AllEffectsAdd(PrintOps)
  <2>1. /\ EffectAdds(SubCall(-2, <<"p", "p">>))
        /\ EffectAdds(SubCall(-1, <<"p">>))
        /\ EffectAdds(SubCall(0, <<>>))
        /\ EffectAdds(Suboption(0, <<"c">>, <<"s">>))
    BY <1>4, PlainCalls
  <2> DEFINE part1 == Each({"XY"}, SubCall(-2, <<"p", "p">>))
             part2 == Each({"color", "right"}, SubCall(-1, <<"p">>))
             part3 == Each({"center", "left", "overhead", "mumble", "begin", "end"}, SubCall(0, <<>>))
             part4 == Each({"msg"}, Suboption(0, <<"c">>, <<"s">>))
  <2>2. /\ AllEffectsAdd(part1)
        /\ AllEffectsAdd(part2)
        /\ AllEffectsAdd(part3)
        /\ AllEffectsAdd(part4)
    BY <1>1, <2>1
  <2>3. PrintOps = part1 ++ part2 ++ part3 ++ part4
    BY DEF PrintOps
  <2> HIDE DEF part1, part2, part3, part4
  <2>4. AllEffectsAdd(part1 ++ part2 ++ part3 ++ part4)
    BY <1>1, <2>2
  <2> QED
    BY <2>3, <2>4
<1>17. AllEffectsAdd(PrintCommands)
  <2>1. AllEffectsAdd(Each({"begin"}, SubCall(-1, <<"p">>)))
    <3>1. EffectAdds(SubCall(-1, <<"p">>))
      BY <1>4, PlainCalls
    <3> QED
      BY <1>1, <3>1
  <2>2. AllEffectsAdd(Each({"begin"}, SubCall(-1, <<"p">>)) ++ PrintOps)
    BY <1>1, <1>16, <2>1
  <2>3. \A p : AllEffectsAdd(Prefixed(p, PrintOps))
    BY <1>2, <1>16
  <2>4. AllEffectsAdd(Prefixed("printActor.", Each({"begin"}, SubCall(-1, <<"p">>)) ++ PrintOps))
    BY <1>2, <2>2
  <2> QED
    BY <1>1, <2>3, <2>4 DEF PrintCommands
<1>18. EffectsAdd(ArrayOps)
  <2> DEFINE part1 == Each({"arrayOps.assignString"},
                           [Opcode("AssignString", -1, <<"w", "c">>, <<>>) EXCEPT !.sub = TRUE])
             part2 == Each({"arrayOps.assignIntList"},
                           [Opcode("AssignList", \h1100, <<"w">>, <<>>) EXCEPT !.sub = TRUE])
             part3 == Each({"arrayOps.assign2DimList"},
                           [Opcode("AssignLists", \h1100, <<"w">>, <<>>) EXCEPT !.sub = TRUE])
  <2>1. /\ EffectAdds([Opcode("AssignString", -1, <<"w", "c">>, <<>>) EXCEPT !.sub = TRUE])
        /\ EffectAdds([Opcode("AssignList", \h1100, <<"w">>, <<>>) EXCEPT !.sub = TRUE])
    BY OthersAdd
  <2>2. AllEffectsAdd(part1) /\ AllEffectsAdd(part2)
    BY <1>1, <2>1
  <2>3. EffectsAdd(part3)
    <3>1. "arrayOps.assign2DimList" \in WrongEffects
      BY DEF WrongEffects
    <3> DEFINE v == [Opcode("AssignLists", \h1100, <<"w">>, <<>>) EXCEPT !.sub = TRUE]
    <3>2. EntryLetters(v) \in Seq(Alphabet)
      <4>1. v.class = "AssignLists"
        BY DEF Opcode
      <4> HIDE DEF v
      <4>2. EntryLetters(v) = <<"p", "l", "p">>
        BY <4>1 DEF EntryLetters
      <4>3. "p" \in Alphabet /\ "l" \in Alphabet
        BY DEF Alphabet
      <4>4. \A a, b, c \in Alphabet : <<a, b, c>> \in Seq(Alphabet)
        BY LettersTyped
      <4>5. <<"p", "l", "p">> \in Seq(Alphabet)
        BY <4>3, <4>4
      <4> QED
        BY <4>2, <4>5
    <3>3. EffectsAdd(Each({"arrayOps.assign2DimList"}, v))
      BY <1>3, <3>1, <3>2
    <3> QED
      BY <3>3
  <2>4. ArrayOps = part1 ++ part2 ++ part3
    BY DEF ArrayOps
  <2> HIDE DEF part1, part2, part3
  <2>5. EffectsAdd(part1 ++ part2)
    BY <1>1, <1>3, <2>2
  <2> QED
    BY <1>3, <2>3, <2>4, <2>5
<1>19. AllEffectsAdd(OtherSubCalls)
  <2>1. /\ EffectAdds(SubCall(-3, <<"p", "p", "p">>))
        /\ EffectAdds(Suboption(-1, <<"s">>, <<"p", "j">>))
        /\ EffectAdds(SubCall(0, <<>>))
        /\ EffectAdds(Suboption(-1, <<"w">>, <<"p", "v">>))
        /\ EffectAdds(Suboption(0, <<"w">>, <<"v">>))
        /\ EffectAdds(Suboption(-2, <<"w">>, <<"p", "p", "v">>))
    BY <1>4, PlainCalls
  <2> DEFINE part1 == Each({"saveRestoreVerbs.saveVerbs", "saveRestoreVerbs.restoreVerbs",
                          "saveRestoreVerbs.deleteVerbs"}, SubCall(-3, <<"p", "p", "p">>))
             part2 == Each({"waitForActor", "waitUntilActorDrawn", "waitUntilActorTurned"},
                          Suboption(-1, <<"s">>, <<"p", "j">>))
             part3 == Each({"waitForMessage", "waitForCamera", "waitForSentence", "systemOps.restartGame",
                          "systemOps.pauseGame", "systemOps.shutDown"}, SubCall(0, <<>>))
             part4 == Each({"dimArrayInt", "dimArrayBit", "dimArrayNibble", "dimArrayByte", "dimArrayString"},
                          Suboption(-1, <<"w">>, <<"p", "v">>))
             part5 == Each({"dimArray_nukeArray"}, Suboption(0, <<"w">>, <<"v">>))
             part6 == Each({"dim2DimArrayInt", "dim2DimArrayBit", "dim2DimArrayNibble", "dim2DimArrayByte",
                          "dim2DimArrayString"}, Suboption(-2, <<"w">>, <<"p", "p", "v">>))
  <2>2. /\ AllEffectsAdd(part1)
        /\ AllEffectsAdd(part2)
        /\ AllEffectsAdd(part3)
        /\ AllEffectsAdd(part4)
        /\ AllEffectsAdd(part5)
        /\ AllEffectsAdd(part6)
    BY <1>1, <2>1
  <2>3. OtherSubCalls = part1 ++ part2 ++ part3 ++ part4 ++ part5 ++ part6
    BY DEF OtherSubCalls
  <2> HIDE DEF part1, part2, part3, part4, part5, part6
  <2>4. AllEffectsAdd(part1 ++ part2 ++ part3 ++ part4 ++ part5 ++ part6)
    BY <1>1, <2>2
  <2> QED
    BY <2>3, <2>4
<1>20. AllEffectsAdd(OperatorOpcodes)
  <2> DEFINE names == {"eq", "neq", "gt", "lt", "le", "ge", "add", "sub", "mul", "div", "land",
                       "lor", "band", "bor"}
             data(name) ==
               CASE name = "eq" -> <<"==">> [] name = "neq" -> <<"!=">> [] name = "gt" -> <<">">>
                 [] name = "lt" -> <<"<">> [] name = "le" -> <<"<=">> [] name = "ge" -> <<">=">>
                 [] name = "add" -> <<"+">> [] name = "sub" -> <<"-">> [] name = "mul" -> <<"*">>
                 [] name = "div" -> <<"/">> [] name = "land" -> <<"&&">> [] name = "lor" -> <<"||">>
                 [] name = "band" -> <<"&">> [] name = "bor" -> <<"|">>
             binary == [name \in names |-> Opcode("Binary", -1, <<>>, data(name))]
  <2>1. AllEffectsAdd(binary)
    <3> HIDE DEF data
    <3>1. DOMAIN binary = names /\ \A op \in names : binary[op] = Opcode("Binary", -1, <<>>, data(op))
      OBVIOUS
    <3>2. \A params, d : EffectAdds(Opcode("Binary", -1, params, d))
      BY OthersAdd
    <3> HIDE DEF binary, names
    <3> QED
      BY <3>1, <3>2 DEF AllEffectsAdd
  <2>2. /\ EffectAdds(Opcode("Dup", 1, <<>>, <<>>)) /\ EffectAdds(Opcode("Not", 0, <<>>, <<>>))
        /\ EffectAdds(Opcode("Pop", -1, <<>>, <<>>))
    BY OthersAdd
  <2> DEFINE part1 == Each({"dup"}, Opcode("Dup", 1, <<>>, <<>>))
             part2 == Each({"not"}, Opcode("Not", 0, <<>>, <<>>))
             part3 == Each({"pop"}, Opcode("Pop", -1, <<>>, <<>>))
  <2>3. AllEffectsAdd(part1) /\ AllEffectsAdd(part2) /\ AllEffectsAdd(part3)
    BY <1>1, <2>2
  <2>4. OperatorOpcodes = binary ++ part1 ++ part2 ++ part3
    BY DEF OperatorOpcodes
  <2> HIDE DEF binary, part1, part2, part3
  <2>5. AllEffectsAdd(binary ++ part1 ++ part2 ++ part3)
    BY <1>1, <2>1, <2>3
  <2> QED
    BY <2>4, <2>5
<1>21. /\ EffectsAdd(LoadOpcodes) /\ EffectsAdd(OperatorOpcodes) /\ EffectsAdd(StoreOpcodes)
       /\ EffectsAdd(JumpOpcodes) /\ EffectsAdd(KernelCalls) /\ EffectsAdd(ValueCalls)
       /\ EffectsAdd(CursorCommands) /\ EffectsAdd(ResourceRoutines) /\ EffectsAdd(RoomOps)
       /\ EffectsAdd(ActorOps) /\ EffectsAdd(VerbOps) /\ EffectsAdd(PrintCommands)
       /\ EffectsAdd(OtherSubCalls)
  BY <1>3, <1>5, <1>6, <1>7, <1>9, <1>10, <1>11, <1>12, <1>13, <1>14, <1>15, <1>17, <1>19, <1>20
<1>22. EffectsAdd(LoadOpcodes ++ OperatorOpcodes ++ StoreOpcodes ++ JumpOpcodes ++ ScriptCalls)
  BY <1>3, <1>8, <1>21
<1>23. EffectsAdd(LoadOpcodes ++ OperatorOpcodes ++ StoreOpcodes ++ JumpOpcodes ++ ScriptCalls
                  ++ KernelCalls ++ ValueCalls ++ CursorCommands ++ ResourceRoutines ++ RoomOps)
  BY <1>3, <1>21, <1>22
<1> QED
  BY <1>3, <1>18, <1>21, <1>23 DEF ScummOpcodeTable

----------------------------------------------------------------------------
(***************************************************************************)
(* The values of the stack.  A comparison and a negated value are made of  *)
(* what negate takes out of them again, and only a value that is pushed or *)
(* has a name is doubled as it is, so that it is made of one value.        *)
(***************************************************************************)
Names == {"var", "Read", "array", "list", "call"}
Words ==
  Operations \cup Names \cup {"(", ")", "!", "temp"} \cup {ToString(n) : n \in Int}
  \cup {SubOperators[op] : op \in Int}
Texts == {s \in Seq(Words) : Len(s) >= 1}
Grades == 0 .. 11

Simple(v) ==
  /\ v.text \in Texts /\ v.prec \in Grades /\ v.lead \in Seq(Int) /\ v.from \in Seq(Nat)
  /\ IsNumber(v) \/ IsDup(v) => Len(v.from) <= 1

\* The pushed values of one value behind those of another.
MadeOf(v, l, r) == v.from = l.from \o r.from

Compares(v) ==
  /\ Simple(v.args[1]) /\ Simple(v.args[2])
  /\ MadeOf(v, v.args[1], v.args[2])

Negates(v) ==
  /\ Simple(v.args[1]) /\ v.args[1].op \notin Comparisons \cup {"!"}
  /\ v.from = v.args[1].from

Sound(v) ==
  /\ Simple(v)
  /\ v.op \in Comparisons => Compares(v)
  /\ v.op = "!" => Negates(v)

LEMMA NegateTable ==
  DOMAIN negateMap = Comparisons /\ \A op \in Comparisons : negateMap[op] \in Comparisons
BY DEF negateMap, Comparisons

\* A table with a row of one level behind it.
Graded(f, S) == Valued(f, Grades) /\ DOMAIN f = S

LEMMA GradedBy ==
  ASSUME NEW f, NEW S, Graded(f, S), NEW T, NEW level \in Grades
  PROVE  Graded(f ++ Each(T, level), S \cup T)
<1> DEFINE g == Each(T, level)
<1>1. Valued(g, Grades) /\ DOMAIN g = T
  BY DEF Valued, Each
<1> HIDE DEF g
<1>2. Valued(f ++ g, Grades) /\ DOMAIN (f ++ g) = S \cup T
  <2>1. DOMAIN (f ++ g) = DOMAIN f \cup DOMAIN g
    BY TwoTables
  <2> QED
    BY <1>1, <2>1, TablesIn DEF Graded
<1> QED
  BY <1>2 DEF Graded, g

LEMMA PrecedenceTable == \A op \in Operations : Precedence[op] \in Grades
<1>1. \A level \in {2, 3, 4, 5, 6, 7, 8, 9, 10, 11} : level \in Grades
  BY DEF Grades
<1> DEFINE a == Each({"*", "/", "%"}, 2)
           b == a ++ Each({"+", "-"}, 3)
           c == b ++ Each({"<<", ">>"}, 4)
           d == c ++ Each({"<", "<=", ">=", ">"}, 5)
           e == d ++ Each({"==", "!="}, 6)
           f == e ++ Each({"&"}, 7)
           g == f ++ Each({"^"}, 8)
           h == g ++ Each({"|"}, 9)
           i == h ++ Each({"&&"}, 10)
           j == i ++ Each({"||"}, 11)
           A == {"*", "/", "%"}
           B == A \cup {"+", "-"}
           C == B \cup {"<<", ">>"}
           D == C \cup {"<", "<=", ">=", ">"}
           E == D \cup {"==", "!="}
           F == E \cup {"&"}
           G == F \cup {"^"}
           H == G \cup {"|"}
           I == H \cup {"&&"}
           J == I \cup {"||"}
<1>2. Precedence = j
  BY DEF Precedence
<1>3. Operations \subseteq J
  BY DEF Operations
<1>4. Graded(a, A)
  BY <1>1, TablesIn DEF Graded, Each
<1> HIDE DEF a, A
<1>5. Graded(b, B)
  BY <1>1, <1>4, GradedBy
<1> HIDE DEF b, B
<1>6. Graded(c, C)
  BY <1>1, <1>5, GradedBy
<1> HIDE DEF c, C
<1>7. Graded(d, D)
  BY <1>1, <1>6, GradedBy
<1> HIDE DEF d, D
<1>8. Graded(e, E)
  BY <1>1, <1>7, GradedBy
<1> HIDE DEF e, E
<1>9. Graded(f, F)
  BY <1>1, <1>8, GradedBy
<1> HIDE DEF f, F
<1>10. Graded(g, G)
  BY <1>1, <1>9, GradedBy
<1> HIDE DEF g, G
<1>11. Graded(h, H)
  BY <1>1, <1>10, GradedBy
<1> HIDE DEF h, H
<1>12. Graded(i, I)
  BY <1>1, <1>11, GradedBy
<1> HIDE DEF i, I
<1>13. Graded(j, J)
  BY <1>1, <1>12, GradedBy
<1> HIDE DEF j, J
<1> QED
  BY <1>2, <1>3, <1>13 DEF Graded, Valued

LEMMA JoinedTexts ==
  /\ \A w \in Words : <<w>> \in Texts /\ Len(<<w>>) = 1
  /\ \A a, b \in Texts : a \o b \in Texts /\ Len(a \o b) = Len(a) + Len(b)
<1>1. \A w \in Words : <<w>> \in Texts /\ Len(<<w>>) = 1
  BY DEF Texts
<1>2. ASSUME NEW a \in Texts, NEW b \in Texts
      PROVE  a \o b \in Texts /\ Len(a \o b) = Len(a) + Len(b)
  <2>1. a \in Seq(Words) /\ b \in Seq(Words) /\ Len(a) >= 1 /\ Len(b) >= 1
    BY DEF Texts
  <2>2. a \o b \in Seq(Words) /\ Len(a \o b) = Len(a) + Len(b) /\ Len(a) \in Nat /\ Len(b) \in Nat
    BY <2>1, ConcatProperties, LenProperties
  <2> QED
    BY <2>1, <2>2 DEF Texts
<1> QED
  BY <1>1, <1>2

LEMMA OperandTexts ==
  ASSUME NEW v, v.text \in Texts, NEW prec
  PROVE  OperandText(v, prec) \in Texts
<1>1. <<"(">> \in Texts /\ <<")">> \in Texts
  BY JoinedTexts DEF Words
<1>2. Paren(v.text) \in Texts
  BY <1>1, JoinedTexts DEF Paren
<1> QED
  BY <1>2 DEF OperandText

\* A text of several words is that of an operation.
LEMMA SeveralWords ==
  ASSUME NEW v, v.text \in Texts, Len(v.text) >= 2
  PROVE  ~IsNumber(v) /\ ~IsDup(v)
<1>1. Len(v.text) \in Nat
  BY LenProperties DEF Texts
<1>2. ASSUME NEW w, v.text = <<w>> PROVE FALSE
  <2>1. Len(<<w>>) = 1
    OBVIOUS
  <2>2. Len(v.text) = 1
    BY <1>2, <2>1
  <2> QED
    BY <1>1, <2>2
<1> QED
  BY <1>2 DEF IsNumber, IsDup

LEMMA AtomsSound ==
  ASSUME NEW from \in Seq(Nat)
  PROVE  /\ \A n \in Int : Len(from) <= 1 => Sound(IntValue(n, from))
         /\ \A name \in Names : Sound(VarValue(name, from))
         /\ Len(from) <= 1 => Sound(DupValue(from))
<1>1. "" \notin Comparisons /\ "" # "!"
  BY DEF Comparisons
<1>2. ASSUME NEW n \in Int, Len(from) <= 1
      PROVE  Sound(IntValue(n, from))
  <2>1. ToString(n) \in Words
    BY DEF Words
  <2>2. /\ IntValue(n, from).text = <<ToString(n)>> /\ IntValue(n, from).op = ""
        /\ IntValue(n, from).lead = <<n>> /\ IntValue(n, from).from = from
        /\ IntValue(n, from).prec = 0 /\ 0 \in Grades
    BY DEF IntValue, Atom, Grades
  <2>3. <<ToString(n)>> \in Texts /\ <<n>> \in Seq(Int)
    BY <2>1, JoinedTexts
  <2> QED
    BY <1>1, <1>2, <2>2, <2>3 DEF Sound, Simple
<1>3. ASSUME NEW name \in Names \cup {"temp"}
      PROVE  /\ VarValue(name, from).text = <<name>> /\ VarValue(name, from).text \in Texts
             /\ VarValue(name, from).lead = <<>>
             /\ VarValue(name, from).lead \in Seq(Int)
             /\ VarValue(name, from).op = "" /\ VarValue(name, from).from = from
             /\ VarValue(name, from).prec = 0 /\ 0 \in Grades
  <2>1. name \in Words
    BY DEF Words
  <2> QED
    BY <2>1, JoinedTexts DEF VarValue, Atom, NoNumber, Grades
<1>4. ASSUME NEW name \in Names
      PROVE  Sound(VarValue(name, from))
  <2>1. name \in Names \cup {"temp"} /\ name # "temp"
    BY DEF Names
  <2>2. VarValue(name, from).text = <<name>> /\ VarValue(name, from).lead = <<>>
    BY <1>3, <2>1
  <2>3. <<name>> # <<"temp">>
    <3>1. <<name>>[1] = name /\ <<"temp">>[1] = "temp"
      OBVIOUS
    <3> QED
      BY <2>1, <3>1
  <2>4. ~IsNumber(VarValue(name, from)) /\ ~IsDup(VarValue(name, from))
    BY <2>2, <2>3 DEF IsNumber, IsDup, NoNumber
  <2> QED
    BY <1>1, <1>3, <2>1, <2>4 DEF Sound, Simple
<1>5. ASSUME Len(from) <= 1
      PROVE  Sound(DupValue(from))
  <2>1. "temp" \in Names \cup {"temp"}
    OBVIOUS
  <2> HIDE DEF Names
  <2> QED
    BY <1>1, <1>3, <1>5, <2>1 DEF Sound, Simple, DupValue
<1> QED
  BY <1>2, <1>4, <1>5

\* What two values make.
OperationIs(op, l, r) ==
  /\ op \in Operations => Simple(BinaryOpValue(op, l, r))
  /\ MadeOf(BinaryOpValue(op, l, r), l, r) /\ BinaryOpValue(op, l, r).op = op
  /\ BinaryOpValue(op, l, r).args[1] = l /\ BinaryOpValue(op, l, r).args[2] = r
  /\ Simple(FlatValue(op, l, r)) /\ MadeOf(FlatValue(op, l, r), l, r)
  /\ FlatValue(op, l, r).op = ""

LEMMA OperationsSimple ==
  ASSUME NEW l, NEW r, Simple(l), Simple(r), NEW op \in Words
  PROVE  OperationIs(op, l, r)
<1> DEFINE v == BinaryOpValue(op, l, r)
           u == FlatValue(op, l, r)
           a == OperandText(l, Precedence[op])
           b == OperandText(r, Precedence[op])
<1>1. /\ v.text = a \o <<op>> \o b /\ v.op = op /\ v.args[1] = l /\ v.args[2] = r
      /\ v.lead \in {NoNumber, l.lead} /\ v.from = l.from \o r.from /\ v.prec = Precedence[op]
  BY DEF BinaryOpValue
<1>2. /\ u.text = l.text \o <<op>> \o r.text /\ u.op = ""
      /\ u.lead = l.lead /\ u.from = l.from \o r.from /\ u.prec = 0
  BY DEF FlatValue, VarValue, Atom
<1>3. a \in Texts /\ b \in Texts /\ l.text \in Texts /\ r.text \in Texts /\ <<op>> \in Texts
      /\ Len(<<op>>) = 1
  BY OperandTexts, JoinedTexts DEF Simple
<1> HIDE DEF u, v, a, b
<1> DEFINE Glued(x, y, z) == x \o y \o z
<1>4. ASSUME NEW x \in Texts, NEW y \in Texts, NEW z \in Texts
      PROVE  Glued(x, y, z) \in Texts /\ Len(Glued(x, y, z)) >= 3
  <2>1. \A s \in Texts : Len(s) \in Nat /\ Len(s) >= 1
    BY LenProperties DEF Texts
  <2> QED
    BY <2>1, JoinedTexts
<1>5. v.text \in Texts /\ Len(v.text) >= 3 /\ u.text \in Texts /\ Len(u.text) >= 3
  <2> DEFINE m == <<op>>
  <2>1. v.text = Glued(a, m, b) /\ u.text = Glued(l.text, m, r.text) /\ m \in Texts
    BY <1>1, <1>2, <1>3
  <2> HIDE DEF m, Glued
  <2> QED
    BY <1>3, <1>4, <2>1
<1>7. ~IsNumber(v) /\ ~IsDup(v) /\ ~IsNumber(u) /\ ~IsDup(u)
  <2>1. Len(v.text) \in Nat /\ Len(u.text) \in Nat
    BY <1>5, LenProperties DEF Texts
  <2>2. Len(v.text) >= 2 /\ Len(u.text) >= 2
    BY <1>5, <2>1
  <2> QED
    BY <1>5, <2>2, SeveralWords
<1>8. l.from \o r.from \in Seq(Nat) /\ l.lead \in Seq(Int) /\ NoNumber \in Seq(Int)
  <2>1. l.from \in Seq(Nat) /\ r.from \in Seq(Nat) /\ l.lead \in Seq(Int)
    BY DEF Simple
  <2> QED
    BY <2>1, ConcatProperties, EmptySeq DEF NoNumber
<1>9. op \in Operations => Simple(v)
  BY <1>1, <1>5, <1>7, <1>8, PrecedenceTable DEF Simple
<1>10. Simple(u)
  <2>1. 0 \in Grades
    BY DEF Grades
  <2> QED
    BY <1>2, <1>5, <1>7, <1>8, <2>1 DEF Simple
<1> QED
  BY <1>1, <1>2, <1>9, <1>10 DEF u, v, MadeOf, OperationIs

LEMMA OperationsSound ==
  ASSUME NEW l, NEW r, Sound(l), Sound(r), NEW op \in Operations
  PROVE  /\ Sound(BinaryOpValue(op, l, r)) /\ MadeOf(BinaryOpValue(op, l, r), l, r)
         /\ Sound(FlatValue(op, l, r)) /\ MadeOf(FlatValue(op, l, r), l, r)
<1> DEFINE v == BinaryOpValue(op, l, r)
<1>1. Simple(l) /\ Simple(r) /\ op \in Words /\ op # "!"
  BY DEF Sound, Words, Operations
<1>2. /\ Simple(v) /\ MadeOf(v, l, r) /\ v.op = op /\ v.args[1] = l /\ v.args[2] = r
      /\ Simple(FlatValue(op, l, r)) /\ MadeOf(FlatValue(op, l, r), l, r)
      /\ FlatValue(op, l, r).op = ""
  <2>1. OperationIs(op, l, r)
    BY <1>1, OperationsSimple
  <2> QED
    BY <2>1 DEF OperationIs
<1> HIDE DEF v
<1>4. Compares(v)
  BY <1>1, <1>2 DEF Compares
<1>5. "" \notin Comparisons
  BY DEF Comparisons
<1> QED
  <2>1. Sound(v)
    BY <1>1, <1>2, <1>4 DEF Sound
  <2>2. Sound(FlatValue(op, l, r))
    BY <1>2, <1>5 DEF Sound
  <2> QED
    BY <1>2, <2>1, <2>2 DEF v

LEMMA NegationsSound ==
  ASSUME NEW v, Sound(v)
  PROVE  Sound(Negate(v)) /\ Negate(v).from = v.from
<1>1. CASE v.op \in Comparisons
  <2> DEFINE op == negateMap[v.op]
             l == v.args[1]
             r == v.args[2]
             b == BinaryOpValue(op, l, r)
             u == [b EXCEPT !.means = BinaryMeans(Complement[v.op], l, r)]
  <2>1. op \in Comparisons /\ v.op \in DOMAIN negateMap
    BY <1>1, NegateTable
  <2>2. Negate(v) = u
    <3>1. v.op # "!"
      BY <1>1 DEF Comparisons
    <3> HIDE DEF u
    <3>2. Negate(v) = [BinaryOpValue(negateMap[v.op], v.args[1], v.args[2]) EXCEPT
                         !.means = BinaryMeans(Complement[v.op], v.args[1], v.args[2])]
      BY <2>1, <3>1 DEF Negate
    <3> QED
      BY <3>2 DEF u
  <2>3. Simple(l) /\ Simple(r) /\ MadeOf(v, l, r)
    BY <1>1 DEF Sound, Compares
  <2>4. op \in Operations /\ op \in Words /\ op # "!"
    BY <2>1 DEF Comparisons, Words, Operations
  <2> HIDE DEF op, l, r
  <2>5. Simple(b) /\ MadeOf(b, l, r) /\ b.op = op /\ b.args[1] = l /\ b.args[2] = r
    <3>1. OperationIs(op, l, r)
      BY <2>3, <2>4, OperationsSimple
    <3> QED
      BY <2>4, <3>1 DEF OperationIs
  <2>6. /\ u.text = b.text /\ u.lead = b.lead /\ u.from = b.from /\ u.op = b.op
        /\ u.args = b.args /\ u.prec = b.prec
    BY DEF BinaryOpValue
  <2> HIDE DEF u, b
  <2>7. u.args[1] = l /\ u.args[2] = r
    BY <2>5, <2>6
  <2>8. Simple(u)
    BY <2>5, <2>6 DEF Simple, IsNumber, IsDup
  <2> QED
    BY <2>2, <2>3, <2>4, <2>5, <2>6, <2>7, <2>8 DEF Sound, Compares, MadeOf
<1>2. CASE v.op = "!"
  <2>1. "!" \notin DOMAIN negateMap
    BY NegateTable DEF Comparisons
  <2>2. Negate(v) = v.args[1]
    BY <1>2, <2>1 DEF Negate
  <2> QED
    BY <1>2, <2>2 DEF Sound, Negates
<1>3. CASE v.op \notin Comparisons \cup {"!"}
  <2> DEFINE t == OperandText(v, 1)
             u == NegatedValue(v)
  <2>1. Negate(v) = u
    BY <1>3, NegateTable DEF Negate
  <2>2. /\ u.text = <<"!">> \o t /\ u.lead = NoNumber /\ u.from = v.from /\ u.op = "!"
        /\ u.args = <<v>> /\ u.prec = 1 /\ 1 \in Grades
    BY DEF NegatedValue, Grades
  <2>3. Simple(v)
    BY DEF Sound
  <2>4. t \in Texts /\ <<"!">> \in Texts /\ Len(<<"!">>) = 1
    <3>1. "!" \in Words
      BY DEF Words
    <3> QED
      BY <2>3, <3>1, OperandTexts, JoinedTexts DEF Simple
  <2> HIDE DEF t, u
  <2>5. u.text \in Texts /\ Len(u.text) >= 2
    <3>1. Len(t) \in Nat /\ Len(t) >= 1
      BY <2>4, LenProperties DEF Texts
    <3> QED
      BY <2>2, <2>4, <3>1, JoinedTexts
  <2>6. ~IsNumber(u) /\ ~IsDup(u)
    BY <2>5, SeveralWords
  <2>7. u.lead \in Seq(Int) /\ u.from \in Seq(Nat)
    BY <2>2, <2>3, EmptySeq DEF Simple, NoNumber
  <2>8. u.args[1] = v
    BY <2>2
  <2>9. Simple(u)
    BY <2>2, <2>5, <2>6, <2>7 DEF Simple
  <2>10. "!" \notin Comparisons
    BY DEF Comparisons
  <2> QED
    BY <1>3, <2>1, <2>2, <2>3, <2>8, <2>9, <2>10 DEF Sound, Negates
<1> QED
  BY <1>1, <1>2, <1>3

----------------------------------------------------------------------------
(***************************************************************************)
(* The pushed values that sequences of values are made of.                 *)
(***************************************************************************)
Made(V) == \A v \in V : v.from \in Seq(Nat)
Froms(s) == [i \in DOMAIN s |-> s[i].from]

LEMMA FromsTyped ==
  ASSUME NEW V, Made(V), NEW s \in Seq(V)
  PROVE  Froms(s) \in Seq(Seq(Nat)) /\ Len(Froms(s)) = Len(s)
         /\ \A i \in 1 .. Len(s) : Froms(s)[i] = s[i].from
<1>1. Len(s) \in Nat /\ DOMAIN s = 1 .. Len(s) /\ \A i \in 1 .. Len(s) : s[i] \in V
  OBVIOUS
<1>2. \A i \in 1 .. Len(s) : s[i].from \in Seq(Nat)
  BY <1>1 DEF Made
<1>3. Froms(s) = [i \in 1 .. Len(s) |-> s[i].from]
  BY <1>1 DEF Froms
<1>4. Froms(s) \in [1 .. Len(s) -> Seq(Nat)]
  BY <1>2, <1>3
<1> QED
  BY <1>1, <1>3, <1>4

LEMMA FromAllTyped ==
  ASSUME NEW V, Made(V), NEW s \in Seq(V)
  PROVE  FromAll(s) \in Seq(Nat)
<1>1. Froms(s) \in Seq(Seq(Nat)) /\ Len(Froms(s)) = Len(s) /\ Len(s) \in Nat
  BY FromsTyped
<1>2. Froms(s) \in [1 .. Len(s) -> Seq(Nat)]
  <2> DEFINE f == Froms(s)
  <2> HIDE DEF f
  <2> QED
    BY <1>1
<1>3. FlattenSeq(Froms(s)) \in Seq(Nat)
  BY <1>1, <1>2, FlattenType
<1> QED
  BY <1>3 DEF FromAll, Froms

\* FromAll of one sequence behind another.
FromBoth(a, b) == FromAll(a \o b) = FromAll(a) \o FromAll(b)

LEMMA FromAllJoined ==
  ASSUME NEW V, Made(V), NEW a \in Seq(V), NEW b \in Seq(V)
  PROVE  FromBoth(a, b)
<1> DEFINE f == Froms(a)
           g == Froms(b)
           h == Froms(a \o b)
           n == Len(a) + Len(b)
<1>1. Len(a) \in Nat /\ Len(b) \in Nat /\ n \in Nat
  OBVIOUS
<1>2. /\ f \in Seq(Seq(Nat)) /\ Len(f) = Len(a) /\ \A i \in 1 .. Len(a) : f[i] = a[i].from
      /\ g \in Seq(Seq(Nat)) /\ Len(g) = Len(b) /\ \A i \in 1 .. Len(b) : g[i] = b[i].from
  BY FromsTyped
<1>3. /\ a \o b \in Seq(V) /\ Len(a \o b) = n
      /\ \A i \in 1 .. n : (a \o b)[i] = IF i <= Len(a) THEN a[i] ELSE b[i - Len(a)]
  BY ConcatProperties
<1>4. h \in Seq(Seq(Nat)) /\ Len(h) = n /\ \A i \in 1 .. n : h[i] = (a \o b)[i].from
  BY <1>3, FromsTyped
<1> HIDE DEF f, g, h
<1>5. /\ f \o g \in Seq(Seq(Nat)) /\ Len(f \o g) = n
      /\ \A i \in 1 .. n : (f \o g)[i] = IF i <= Len(f) THEN f[i] ELSE g[i - Len(f)]
  BY <1>2, ConcatProperties
<1> DEFINE j == f \o g
           c == a \o b
<1>6. \A i \in 1 .. n : h[i] = j[i]
  <2> HIDE DEF j, c
  <2> TAKE i \in 1 .. n
  <2>1. h[i] = c[i].from
    BY <1>4 DEF c
  <2>2. CASE i <= Len(a)
    <3>1. i \in 1 .. Len(a) /\ c[i] = a[i] /\ j[i] = f[i]
      BY <1>1, <1>2, <1>3, <1>5, <2>2 DEF c, j
    <3> QED
      BY <2>1, <3>1, <1>2
  <2>3. CASE ~(i <= Len(a))
    <3>1. i - Len(a) \in 1 .. Len(b) /\ c[i] = b[i - Len(a)] /\ j[i] = g[i - Len(a)]
      BY <1>1, <1>2, <1>3, <1>5, <2>3 DEF c, j
    <3> QED
      BY <2>1, <3>1, <1>2
  <2> QED
    BY <2>2, <2>3
<1>7. h = j
  <2>1. j \in Seq(Seq(Nat)) /\ Len(j) = n
    BY <1>5
  <2> HIDE DEF j, n
  <2> QED
    BY <1>4, <1>6, <2>1, SeqEqual
<1>8. FlattenSeq(h) = FlattenSeq(f) \o FlattenSeq(g)
  BY <1>2, <1>7, FlattenConcat
<1>9. FlattenSeq(h) = FromAll(a \o b) /\ FlattenSeq(f) = FromAll(a) /\ FlattenSeq(g) = FromAll(b)
  BY DEF FromAll, Froms, f, g, h
<1> QED
  BY <1>8, <1>9 DEF FromBoth

LEMMA FromAllOne ==
  /\ FromAll(<<>>) = <<>>
  /\ \A v : v.from \in Seq(Nat) => FromAll(<<v>>) = v.from
<1>1. FromAll(<<>>) = <<>>
  <2>1. [i \in DOMAIN <<>> |-> <<>>[i].from] = <<>>
    OBVIOUS
  <2> QED
    BY <2>1, FlattenNone DEF FromAll
<1>2. ASSUME NEW v, v.from \in Seq(Nat)
      PROVE  FromAll(<<v>>) = v.from
  <2> DEFINE s == <<v>>
             f == [i \in DOMAIN s |-> s[i].from]
  <2>1. f = <<v.from>>
    OBVIOUS
  <2>2. FlattenSeq(<<v.from>>) = v.from
    BY <1>2, FlattenOne
  <2>3. FromAll(s) = FlattenSeq(f)
    BY DEF FromAll
  <2> QED
    BY <2>1, <2>2, <2>3
<1> QED
  BY <1>1, <1>2

----------------------------------------------------------------------------
(***************************************************************************)
(* Parts of sequences.                                                     *)
(***************************************************************************)
LEMMA PrefixIs ==
  ASSUME NEW V, NEW s \in Seq(V), NEW m \in 0 .. Len(s)
  PROVE  /\ SubSeq(s, 1, m) \in Seq(V) /\ Len(SubSeq(s, 1, m)) = m
         /\ \A i \in 1 .. m : SubSeq(s, 1, m)[i] = s[i]
<1>1. m \in Int /\ 1 \in Int /\ \A i \in 1 .. m : s[i] \in V
  OBVIOUS
<1> DEFINE l == SubSeq(s, 1, m)
<1>2. /\ l \in Seq(V)
      /\ Len(l) = IF 1 <= m THEN m - 1 + 1 ELSE 0
      /\ \A i \in 1 .. m - 1 + 1 : l[i] = s[1 + i - 1]
  BY <1>1, SubSeqProperties
<1> HIDE DEF l
<1>3. Len(l) = m /\ \A i \in 1 .. m : l[i] = s[i]
  BY <1>1, <1>2
<1> QED
  BY <1>2, <1>3 DEF l

LEMMA PartIs ==
  ASSUME NEW V, NEW s \in Seq(V), NEW a \in Nat \ {0}, NEW b \in Nat, b <= Len(s)
  PROVE  SubSeq(s, a, b) \in Seq(V)
<1>1. a \in Int /\ b \in Int /\ \A i \in a .. b : s[i] \in V
  OBVIOUS
<1> QED
  BY <1>1, SubSeqProperties

LEMMA LastIs ==
  ASSUME NEW V, NEW s \in Seq(V), NEW n, n = Len(s), n > 0
  PROVE  SubSeq(s, n, n) = << s[n] >>
<1>1. n \in Nat /\ n \in Int /\ s[n] \in V /\ \A i \in n .. n : s[i] \in V
  OBVIOUS
<1> DEFINE l == SubSeq(s, n, n)
<1>2. l \in Seq(V)
      /\ Len(l) = (IF n <= n THEN n - n + 1 ELSE 0)
      /\ \A i \in 1 .. n - n + 1 : l[i] = s[n + i - 1]
  BY <1>1, SubSeqProperties
<1> HIDE DEF l
<1>3. Len(l) = 1 /\ l[1] = s[n]
  BY <1>1, <1>2
<1> DEFINE o == << s[n] >>
<1>4. o \in Seq(V) /\ Len(o) = 1 /\ o[1] = s[n]
  BY <1>1
<1> HIDE DEF o
<1>5. l = o
  BY <1>2, <1>3, <1>4, SeqEqual
<1> QED
  BY <1>5 DEF l, o

LEMMA SplitAt ==
  ASSUME NEW V, NEW s \in Seq(V), NEW m \in 0 .. Len(s), NEW n, n = Len(s)
  PROVE  s = SubSeq(s, 1, m) \o SubSeq(s, m + 1, n)
<1>1. n \in m .. Len(s) /\ 1 \in 1 .. Len(s) + 1 /\ m \in 1 - 1 .. Len(s)
  OBVIOUS
<1>2. SubSeq(s, 1, m) \o SubSeq(s, m + 1, n) = SubSeq(s, 1, n)
  BY <1>1, ConcatAdjacentSubSeq
<1>3. SubSeq(s, 1, n) = s
  BY SubSeqFull
<1> QED
  BY <1>2, <1>3

LEMMA ListAbove ==
  ASSUME NEW V, NEW s \in Seq(V), NEW n, n = Len(s), n > 0, NEW m \in 1 .. n
  PROVE  SubSeq(s, m, n) = Append(SubSeq(s, m, n - 1), s[n])
<1>1. n \in Nat /\ s[n] \in V /\ m \in 1 .. Len(s) /\ n \in m .. Len(s)
  OBVIOUS
<1>2. SubSeq(s, m, n) = SubSeq(s, m, n - 1) \o << s[n] >>
  BY <1>1, SubSeqRecursiveSecond
<1>3. SubSeq(s, m, n - 1) \in Seq(V)
  <2>1. m \in Int /\ n - 1 \in Int /\ \A i \in m .. n - 1 : s[i] \in V
    BY <1>1
  <2> QED
    BY <2>1, SubSeqProperties
<1> QED
  BY <1>1, <1>2, <1>3, AppendIsConcat

\* The two ways to join three sequences.
JoinedEitherWay(p, q, t) == (p \o q) \o t = p \o (q \o t)

LEMMA ThreeJoined ==
  ASSUME NEW S, NEW p \in Seq(S), NEW q \in Seq(S), NEW t \in Seq(S)
  PROVE  JoinedEitherWay(p, q, t)
<1>1. (p \o q) \o t = p \o (q \o t)
  BY ConcatAssociative
<1> QED
  BY <1>1 DEF JoinedEitherWay

----------------------------------------------------------------------------
(***************************************************************************)
(* Operands.  Each letter takes values from the top of the stack, and the  *)
(* values that are left and the arguments are, in their order, made of     *)
(* what the stack was made of.                                             *)
(***************************************************************************)
TakenOf(V, W) == [left : Seq(V), args : Seq(W), defined : BOOLEAN]

\* Values on the stack, V, and what may be made arguments, W.
Pool(V, W, inst) ==
  /\ V \subseteq W /\ \A v \in W : Sound(v)
  /\ Param(inst) \in W /\ ParamVar \in W
  /\ \A items \in Seq(V) : \A length \in V : ListValue(items, length) \in W

MadeOfAll(x) == FromAll(x.left) \o FromAll(x.args)
Took(x, y, n) ==
  /\ Len(x.left) \in Nat /\ Len(y.left) \in Nat /\ n \in Nat /\ Len(y.left) = Len(x.left) - n
  /\ \A i \in 1 .. Len(y.left) : y.left[i] = x.left[i]
  /\ MadeOfAll(y) = MadeOfAll(x)

LEMMA PoolMade ==
  ASSUME NEW V, NEW W, NEW inst, Pool(V, W, inst)
  PROVE  Made(V) /\ Made(W)
BY DEF Pool, Made, Sound, Simple

\* The argument v, made of the values of x above the m-th, is added, and they are taken.
Adding(V, W, x, m, l, v, y) ==
  /\ x \in TakenOf(V, W) /\ m \in 0 .. Len(x.left) /\ l = SubSeq(x.left, 1, m)
  /\ v \in W /\ v.from = FromAll(SubSeq(x.left, m + 1, Len(x.left)))
  /\ y = [AddArg(x, v) EXCEPT !.left = l]

LEMMA ArgumentAdded ==
  ASSUME NEW V, NEW W, NEW inst, Pool(V, W, inst), NEW x, NEW m, NEW l, NEW v, NEW y,
         Adding(V, W, x, m, l, v, y), NEW k, k = Len(x.left) - m
  PROVE  y \in TakenOf(V, W) /\ y.defined = x.defined /\ Took(x, y, k)
<1> DEFINE s == x.left
           n == Len(s)
           r == SubSeq(s, m + 1, n)
           a == x.args
<1>1. s \in Seq(V) /\ a \in Seq(W) /\ n \in Nat /\ m \in Nat /\ m <= n /\ x.defined \in BOOLEAN
  BY DEF Adding, TakenOf
<1>2. y.left = l /\ y.args = <<v>> \o a /\ y.defined = x.defined
      /\ y = [left |-> l, args |-> <<v>> \o a, defined |-> x.defined]
  BY DEF Adding, AddArg, TakenOf
<1>a. v \in W /\ v.from = FromAll(r) /\ l = SubSeq(s, 1, m)
  BY DEF Adding
<1> HIDE DEF s, n, a
<1>3. /\ l \in Seq(V) /\ Len(l) = m /\ \A i \in 1 .. m : l[i] = s[i]
  BY <1>1, <1>a, PrefixIs DEF n
<1>4. r \in Seq(V)
  <2>1. m + 1 \in Nat \ {0} /\ n <= Len(s)
    BY <1>1 DEF n
  <2> QED
    BY <1>1, <2>1, PartIs
<1>5. s = l \o r
  <2>1. m \in 0 .. Len(s) /\ n = Len(s)
    BY <1>1 DEF n
  <2>2. s = SubSeq(s, 1, m) \o SubSeq(s, m + 1, n)
    BY <1>1, <2>1, SplitAt
  <2> QED
    BY <1>a, <2>2
<1>6. <<v>> \in Seq(W)
  BY <1>a
<1>7. Made(V) /\ Made(W)
  BY PoolMade
<1> DEFINE p == FromAll(l)
           q == FromAll(r)
           t == FromAll(a)
<1>b. p \in Seq(Nat) /\ q \in Seq(Nat) /\ t \in Seq(Nat)
  BY <1>1, <1>3, <1>4, <1>7, FromAllTyped
<1> HIDE DEF r
<1>8. FromAll(s) = p \o q
  <2>1. FromBoth(l, r)
    BY <1>3, <1>4, <1>7, FromAllJoined
  <2> QED
    BY <1>5, <2>1 DEF FromBoth
<1>9. FromAll(<<v>> \o a) = q \o t
  <2> DEFINE o == <<v>>
  <2>1. FromAll(o) = q
    BY <1>7, <1>a, <1>b, FromAllOne DEF Made
  <2>2. o \in Seq(W)
    BY <1>6
  <2> HIDE DEF o
  <2>3. FromBoth(o, a)
    BY <1>1, <1>7, <2>2, FromAllJoined
  <2>4. FromAll(o \o a) = q \o t
    BY <2>1, <2>3 DEF FromBoth
  <2> QED
    BY <2>4 DEF o
<1>10. JoinedEitherWay(p, q, t)
  <2> HIDE DEF p, q, t
  <2> QED
    BY <1>b, ThreeJoined
<1>11. MadeOfAll(y) = MadeOfAll(x)
  <2>1. MadeOfAll(y) = p \o (q \o t)
    BY <1>2, <1>9 DEF MadeOfAll
  <2>2. MadeOfAll(x) = (p \o q) \o t
    BY <1>8 DEF MadeOfAll, s, a
  <2> HIDE DEF p, q, t
  <2> QED
    BY <1>10, <2>1, <2>2 DEF JoinedEitherWay
<1>12. y \in TakenOf(V, W)
  <2> DEFINE b == <<v>> \o a
  <2>1. b \in Seq(W)
    BY <1>1, <1>6, ConcatProperties
  <2>2. y = [left |-> l, args |-> b, defined |-> x.defined]
    BY <1>2
  <2> HIDE DEF b
  <2> QED
    BY <1>1, <1>3, <2>1, <2>2 DEF TakenOf
<1>13. Took(x, y, k)
  <2>1. y.left = l /\ n = Len(x.left) /\ x.left = s
    BY <1>2 DEF s, n
  <2> QED
    BY <1>1, <1>3, <1>11, <2>1 DEF Took
<1> QED
  BY <1>2, <1>12, <1>13

LEMMA NothingTaken ==
  ASSUME NEW V, NEW W, NEW inst, Pool(V, W, inst), NEW x \in TakenOf(V, W),
         NEW v \in W, v.from = <<>>
  PROVE  AddArg(x, v) \in TakenOf(V, W) /\ AddArg(x, v).defined = x.defined
         /\ Took(x, AddArg(x, v), 0)
<1> DEFINE y == AddArg(x, v)
           m == Len(x.left)
           l == x.left
<1>1. y = [AddArg(x, v) EXCEPT !.left = l]
  BY DEF AddArg, TakenOf
<1>2. x.left \in Seq(V) /\ m \in 0 .. m /\ m \in Nat
  BY DEF TakenOf
<1>3. SubSeq(x.left, 1, m) = x.left /\ SubSeq(x.left, m + 1, m) = <<>>
  BY <1>2, SubSeqFull, SubSeqEmpty
<1>4. v.from = FromAll(SubSeq(x.left, m + 1, m))
  BY <1>3, FromAllOne
<1> HIDE DEF y
<1>5. Adding(V, W, x, m, l, v, y)
  BY <1>1, <1>2, <1>3, <1>4 DEF Adding
<1>6. 0 = Len(x.left) - m
  BY <1>2
<1> HIDE DEF m, l
<1>7. y \in TakenOf(V, W) /\ y.defined = x.defined /\ Took(x, y, 0)
  BY <1>5, <1>6, ArgumentAdded
<1> QED
  BY <1>7 DEF y

LEMMA PopTakes ==
  ASSUME NEW V, NEW W, NEW inst, Pool(V, W, inst), NEW x \in TakenOf(V, W)
  PROVE  PopArg(x) \in TakenOf(V, W)
         /\ (PopArg(x).defined => x.defined /\ Took(x, PopArg(x), 1))
<1>1. CASE x.left = <<>>
  BY <1>1 DEF PopArg, TakenOf
<1>2. CASE x.left # <<>>
  <2> DEFINE s == x.left
             n == Len(s)
             m == n - 1
             v == Last(s)
             y == PopArg(x)
             l == Front(s)
  <2>1. s \in Seq(V) /\ n \in Nat /\ n > 0 /\ m \in 0 .. n /\ m + 1 = n /\ 1 = n - m
    BY <1>2, EmptySeq DEF TakenOf
  <2>2. s[n] \in V
    BY <2>1
  <2>3. v = s[n] /\ v \in W
    BY <2>2 DEF Last, Pool
  <2>4. y = [AddArg(x, v) EXCEPT !.left = l]
    BY <1>2 DEF PopArg, AddArg, TakenOf
  <2>5. l = SubSeq(s, 1, m)
    BY DEF Front
  <2>6. SubSeq(s, n, n) = <<v>>
    BY <2>1, <2>3, LastIs
  <2>7. v.from = FromAll(SubSeq(s, m + 1, n))
    <3>1. v.from \in Seq(Nat)
      BY <2>3, PoolMade DEF Made
    <3>2. FromAll(<<v>>) = v.from
      BY <3>1, FromAllOne
    <3> QED
      BY <2>1, <2>6, <3>2
  <2> HIDE DEF v, m, y, l
  <2>8. Adding(V, W, x, m, l, v, y)
    BY <2>1, <2>3, <2>4, <2>5, <2>7 DEF Adding
  <2>9. y \in TakenOf(V, W) /\ y.defined = x.defined /\ Took(x, y, 1)
    BY <2>1, <2>8, ArgumentAdded
  <2> QED
    BY <2>9 DEF y
<1> QED
  BY <1>1, <1>2

LEMMA ListTakes ==
  ASSUME NEW V, NEW W, NEW inst, Pool(V, W, inst), NEW x \in TakenOf(V, W)
  PROVE  PopList(x) \in TakenOf(V, W)
         /\ (PopList(x).defined => /\ x.defined /\ x.left # <<>>
                                   /\ Took(x, PopList(x), ListLength(Last(x.left)) + 1))
<1> DEFINE s == x.left
           n == Len(s)
           below == Len(x.left) - 1
           length == ListLength(Last(x.left))
           v == Last(s)
           y == PopList(x)
<1>1. s \in Seq(V) /\ n \in Nat /\ x.defined \in BOOLEAN
  BY DEF TakenOf
<1>2. CASE s = <<>> \/ (s # <<>> /\ length > below)
  <2>1. y = [x EXCEPT !.defined = FALSE]
    BY <1>2 DEF PopList
  <2> QED
    BY <2>1 DEF TakenOf
<1>3. CASE s # <<>> /\ ~(length > below)
  <2>1. n > 0 /\ s[n] \in V /\ below = n - 1
    BY <1>1, <1>3, EmptySeq
  <2>2. v = s[n] /\ v \in V /\ v \in W
    BY <2>1 DEF Last, Pool
  <2>3. length \in Nat
    <3>1. v.lead \in Seq(Int)
      BY <2>2 DEF Pool, Sound, Simple
    <3>2. v.lead # <<>> => v.lead[1] \in Int
      BY <3>1
    <3>3. length = ListLength(v)
      OBVIOUS
    <3> HIDE DEF v, length
    <3> QED
      BY <3>2, <3>3 DEF ListLength, NoNumber
  <2> HIDE DEF length
  <2> DEFINE m == below - length
             items == SubSeq(s, m + 1, below)
             list == ListValue(items, v)
  <2>4. m \in 0 .. n /\ m + 1 \in 1 .. n /\ n - m = length + 1
        /\ below \in Int /\ m \in Int /\ below + 1 = n
    <3>1. below \in Nat /\ length <= below
      BY <1>1, <1>3, <2>1, <2>3 DEF length
    <3>2. n = below + 1
      BY <1>1, <2>1
    <3>3. m = below - length
      OBVIOUS
    <3> HIDE DEF below, m, n
    <3> QED
      BY <1>1, <2>3, <3>1, <3>2, <3>3
  <2>5. y = [AddArg(x, list) EXCEPT !.left = SubSeq(s, 1, m)]
    <3>1. y = [AddArg(x, list) EXCEPT !.left = SubSeq(@, 1, m)]
      BY <1>3, <2>1 DEF PopList, length
    <3> HIDE DEF y, list, m
    <3> QED
      BY <3>1 DEF AddArg, TakenOf
  <2>6. items \in Seq(V)
    <3>1. \A i \in m + 1 .. below : s[i] \in V
      BY <1>1, <2>4
    <3> HIDE DEF m, below
    <3> QED
      BY <2>4, <3>1, SubSeqProperties
  <2>7. list \in W
    BY <2>2, <2>6 DEF Pool
  <2>8. Append(items, v) = SubSeq(s, m + 1, n)
    <3>1. m + 1 \in 1 .. n /\ n - 1 = below
      BY <1>1, <2>4
    <3> HIDE DEF m, below, v
    <3>2. SubSeq(s, m + 1, n) = Append(SubSeq(s, m + 1, n - 1), s[n])
      BY <1>1, <2>1, <3>1, ListAbove
    <3> QED
      BY <3>1, <3>2, <2>2
  <2>9. list.from = FromAll(SubSeq(s, m + 1, n))
    BY <2>8 DEF ListValue, VarValue, Atom
  <2> HIDE DEF list, m, below, items, y
  <2> DEFINE l == SubSeq(s, 1, m)
             k == length + 1
  <2>10. Adding(V, W, x, m, l, list, y)
    BY <2>4, <2>5, <2>7, <2>9 DEF Adding
  <2>11. k = Len(x.left) - m
    BY <2>4
  <2> HIDE DEF l, k
  <2>12. y \in TakenOf(V, W) /\ y.defined = x.defined /\ Took(x, y, k)
    BY <2>10, <2>11, ArgumentAdded
  <2> QED
    BY <1>3, <2>12 DEF length, k, y
<1> QED
  BY <1>2, <1>3

LEMMA TookTwice ==
  ASSUME NEW x, NEW y, NEW z, NEW m, NEW n, Took(x, y, m), Took(y, z, n), NEW k, k = m + n
  PROVE  Took(x, z, k)
<1> DEFINE a == x.left
           b == y.left
           c == z.left
<1>1. /\ Len(a) \in Nat /\ Len(b) \in Nat /\ Len(c) \in Nat /\ m \in Nat /\ n \in Nat
      /\ Len(b) = Len(a) - m /\ Len(c) = Len(b) - n
  BY DEF Took
<1>2. (\A i \in 1 .. Len(b) : b[i] = a[i]) /\ (\A i \in 1 .. Len(c) : c[i] = b[i])
  BY DEF Took
<1>3. MadeOfAll(z) = MadeOfAll(x)
  BY DEF Took
<1> HIDE DEF a, b, c
<1>4. k \in Nat /\ Len(c) = Len(a) - k /\ \A i \in 1 .. Len(c) : c[i] = a[i]
  BY <1>1, <1>2
<1> QED
  BY <1>1, <1>3, <1>4 DEF Took, a, c

LEMMA NoneTook ==
  ASSUME NEW x, Len(x.left) \in Nat
  PROVE  Took(x, x, 0)
BY DEF Took

\* What a letter takes; only a list takes what depends on the values.
TookAs(letter, x, y) ==
  y.defined => x.defined /\ Took(x, y, Weight(letter, ListLength(Last(x.left))))

LEMMA LetterTakes ==
  ASSUME NEW V, NEW W, NEW inst, Pool(V, W, inst), NEW x \in TakenOf(V, W), NEW letter \in Alphabet
  PROVE  Take(x, letter, inst) \in TakenOf(V, W) /\ TookAs(letter, x, Take(x, letter, inst))
<1>1. \A length : /\ Weight("p", length) = 1 /\ Weight("z", length) = 2
                  /\ Weight("l", length) = length + 1
                  /\ \A a \in {"s", "v", "w", "j", "i"} : Weight(a, length) = 0
  BY DEF Weight
<1>2. CASE letter = "p"
  BY <1>1, <1>2, PopTakes DEF Take, TookAs
<1>3. CASE letter = "l"
  BY <1>1, <1>3, ListTakes DEF Take, TookAs
<1>4. CASE letter = "z"
  <2> DEFINE y == PopArg(x)
             z == PopArg(y)
  <2>1. y \in TakenOf(V, W) /\ (y.defined => x.defined /\ Took(x, y, 1))
    BY PopTakes
  <2> HIDE DEF y
  <2>2. z \in TakenOf(V, W) /\ (z.defined => y.defined /\ Took(y, z, 1))
    BY <2>1, PopTakes
  <2> HIDE DEF z
  <2>3. 2 = 1 + 1
    OBVIOUS
  <2>4. z.defined => x.defined /\ Took(x, z, 2)
    BY <2>1, <2>2, <2>3, TookTwice
  <2>5. Take(x, letter, inst) = z
    BY <1>4 DEF Take, y, z
  <2> QED
    BY <1>1, <1>4, <2>2, <2>4, <2>5 DEF TookAs
<1>5. Param(inst) \in W /\ ParamVar \in W /\ Param(inst).from = <<>> /\ ParamVar.from = <<>>
  BY DEF Pool, Param, ParamVar, IntValue, VarValue, Atom
<1>6. CASE letter = "s"
  BY <1>1, <1>5, <1>6, NothingTaken DEF Take, TookAs
<1>7. CASE letter = "v"
  BY <1>1, <1>5, <1>7, NothingTaken DEF Take, TookAs
<1>8. CASE letter \in {"w", "j", "i"}
  <2> DEFINE y == AddArg(x, Param(inst))
             z == AddArg(y, ParamVar)
  <2>1. y \in TakenOf(V, W) /\ y.defined = x.defined /\ Took(x, y, 0)
    BY <1>5, NothingTaken
  <2> HIDE DEF y
  <2>2. z \in TakenOf(V, W) /\ z.defined = y.defined /\ Took(y, z, 0)
    BY <1>5, <2>1, NothingTaken
  <2> HIDE DEF z
  <2>3. 0 = 0 + 0
    OBVIOUS
  <2>4. Took(x, z, 0)
    BY <2>1, <2>2, <2>3, TookTwice
  <2>5. Take(x, letter, inst) = z
    BY <1>8 DEF Take, y, z
  <2> QED
    BY <1>1, <1>8, <2>1, <2>2, <2>4, <2>5 DEF TookAs
<1> QED
  BY <1>2, <1>3, <1>4, <1>6, <1>7, <1>8 DEF Alphabet

\* A pop and a list are one argument each.
LEMMA OneArgument ==
  ASSUME NEW V, NEW W, NEW inst, Pool(V, W, inst), NEW x \in TakenOf(V, W), NEW letter \in {"p", "l"},
         Take(x, letter, inst).defined
  PROVE  Len(Take(x, letter, inst).args) = Len(x.args) + 1
<1> DEFINE y == Take(x, letter, inst)
<1>1. x.args \in Seq(W) /\ x.left \in Seq(V)
  BY DEF TakenOf
<1>2. \A v : Len(<<v>> \o x.args) = Len(x.args) + 1
  <2> TAKE v
  <2> DEFINE o == <<v>>
             S == W \cup {v}
             a == x.args
  <2>1. o \in Seq(S) /\ Len(o) = 1
    OBVIOUS
  <2>2. a \in Seq(S)
    BY <1>1, SeqMonotonic
  <2> HIDE DEF o, S, a
  <2>3. Len(o \o a) = Len(o) + Len(a) /\ Len(a) \in Nat
    BY <2>1, <2>2, ConcatProperties
  <2> QED
    BY <2>1, <2>3 DEF o, a
<1>3. \E v, l : y = [AddArg(x, v) EXCEPT !.left = l]
  <2>1. CASE letter = "p"
    <3>1. y = PopArg(x)
      BY <2>1 DEF Take
    <3>2. x.left # <<>>
      BY <3>1 DEF PopArg, TakenOf
    <3> QED
      BY <3>1, <3>2 DEF PopArg
  <2>2. CASE letter = "l"
    <3>1. y = PopList(x)
      BY <2>2 DEF Take
    <3>2. PopList(x).defined
      BY <3>1
    <3>3. PopList(x) # [x EXCEPT !.defined = FALSE]
      BY <3>2 DEF TakenOf
    <3> QED
      BY <3>1, <3>3 DEF PopList
  <2> QED
    BY <2>1, <2>2
<1>4. PICK v, l : y = [AddArg(x, v) EXCEPT !.left = l]
  BY <1>3
<1>5. y.args = <<v>> \o x.args
  BY <1>4 DEF AddArg, TakenOf
<1> QED
  BY <1>2, <1>5

----------------------------------------------------------------------------
(***************************************************************************)
(* The operands of an instruction, letter by letter.                       *)
(***************************************************************************)
LetterByLetter(g, letters, inst) ==
  /\ g[0] = Taken(stack, <<>>)
  /\ \A k \in 1 .. Len(letters) :
       g[k] = IF g[k - 1].defined THEN Take(g[k - 1], letters[k], inst) ELSE g[k - 1]

AllTaken(g, n, V, W) == \A k \in 0 .. n : g[k] \in TakenOf(V, W)

\* The indices up to k, from which a fold takes k away first.
LEMMA UpToIndex ==
  ASSUME NEW n \in Nat, NEW k \in 1 .. n
  PROVE  1 .. k \in SUBSET (1 .. n) /\ 1 .. k # {} /\ Max(1 .. k) = k
         /\ (1 .. k) \ {k} = 1 .. k - 1
<1> DEFINE s == 1 .. k
           j == k - 1
<1>1. j \in Nat /\ k = j + 1 /\ s \in SUBSET (1 .. j + 1) /\ k \in s /\ s # {}
      /\ s \in SUBSET (1 .. n)
  OBVIOUS
<1>2. s \ {k} = 1 .. k - 1
  OBVIOUS
<1> HIDE DEF s, j
<1>3. Max(s) = k
  BY <1>1, GreatestOfPrefix
<1> QED
  BY <1>1, <1>2, <1>3 DEF s

LEMMA OperandsOneByOne ==
  ASSUME NEW inst, NEW letters \in Seq(Alphabet), letters = LettersOf(inst),
         NEW V, NEW W, Pool(V, W, inst), stack \in Seq(V)
  PROVE  \E g : /\ LetterByLetter(g, letters, inst) /\ AllTaken(g, Len(letters), V, W)
                /\ Operands(inst) = g[Len(letters)]
<1> DEFINE n == Len(letters)
           base == Taken(stack, <<>>)
           op(taken, letter) == IF taken.defined THEN Take(taken, letter, inst) ELSE taken
           S == TakenOf(V, W)
           G == [k \in 1 .. n |-> [x \in S |-> op(x, letters[k])]]
           Eqn(h) == h = [s \in SUBSET (DOMAIN letters) |->
                            IF s = {} THEN base ELSE op(h[s \ {Max(s)}], letters[Max(s)])]
           iter == CHOOSE h : Eqn(h)
<1>1. n \in Nat /\ DOMAIN letters = 1 .. n /\ \A k \in 1 .. n : letters[k] \in Alphabet
  OBVIOUS
<1>2. base \in S
  BY EmptySeq DEF TakenOf, Taken
<1>3. ASSUME NEW k \in 1 .. n, NEW x \in S
      PROVE  G[k][x] = op(x, letters[k]) /\ op(x, letters[k]) \in S
  BY <1>1, LetterTakes
<1> HIDE DEF n, S, G, op, base
<1>4. PICK f \in [SUBSET (1 .. n) -> S] : Folds(f, n, base, G)
  <2>1. \A i \in 1 .. n : \A x \in S : G[i][x] \in S
    BY <1>3
  <2>2. FoldSolvable(S, base, n, G)
    BY <1>1, <1>2, <2>1, FoldExists
  <2> QED
    BY <2>2 DEF FoldSolvable
<1>5. ASSUME NEW s \in SUBSET (1 .. n)
      PROVE  f[s] = IF s = {} THEN base ELSE op(f[s \ {Max(s)}], letters[Max(s)])
  <2>1. CASE s = {}
    BY <1>4, <2>1 DEF Folds
  <2>2. CASE s # {}
    <3> DEFINE r == s \ {Max(s)}
    <3>1. Max(s) \in 1 .. n /\ r \in SUBSET (1 .. n)
      BY <1>1, <2>2, GreatestExists
    <3>2. f[r] \in S
      BY <3>1, <1>4
    <3>3. f[s] = G[Max(s)][f[r]]
      BY <1>4, <2>2 DEF Folds
    <3> HIDE DEF r
    <3>4. f[s] = op(f[r], letters[Max(s)])
      BY <1>3, <3>1, <3>2, <3>3
    <3> QED
      BY <2>2, <3>4 DEF r
  <2> QED
    BY <2>1, <2>2
<1>6. Eqn(f)
  BY <1>1, <1>4, <1>5
<1>7. Eqn(iter)
  <2> HIDE DEF Eqn
  <2> QED
    BY <1>6
<1>8. Operands(inst) = iter[DOMAIN letters]
  BY DEF Operands, FoldLeft, MapThenFoldSet, base, op
<1> HIDE DEF iter
<1>9. /\ iter[1 .. 0] = base
      /\ \A k \in 1 .. n : iter[1 .. k] = op(iter[1 .. k - 1], letters[k])
      /\ \A k \in 0 .. n : iter[1 .. k] \in S
  <2>1. ASSUME NEW s \in SUBSET (1 .. n)
        PROVE  iter[s] = IF s = {} THEN base ELSE op(iter[s \ {Max(s)}], letters[Max(s)])
    BY <1>1, <1>7
  <2> HIDE DEF Eqn
  <2>2. iter[1 .. 0] = base
    <3>1. 1 .. 0 = {} /\ 1 .. 0 \in SUBSET (1 .. n)
      OBVIOUS
    <3> QED
      BY <2>1, <3>1
  <2>3. ASSUME NEW k \in 1 .. n
        PROVE  iter[1 .. k] = op(iter[1 .. k - 1], letters[k])
    <3> DEFINE s == 1 .. k
    <3>1. s \in SUBSET (1 .. n) /\ s # {} /\ Max(s) = k /\ s \ {k} = 1 .. k - 1
      BY <1>1, UpToIndex
    <3> HIDE DEF s
    <3>2. iter[s] = op(iter[s \ {k}], letters[k])
      BY <2>1, <3>1
    <3> QED
      BY <3>1, <3>2 DEF s
  <2> DEFINE t == [k \in 0 .. n |-> iter[1 .. k]]
  <2>4. t[0] \in S
    BY <1>1, <1>2, <2>2
  <2>5. ASSUME NEW k \in 0 + 1 .. n, t[k - 1] \in S
        PROVE  t[k] \in S
    <3>1. k \in 1 .. n /\ k - 1 \in 0 .. n /\ k \in 0 .. n
      BY <1>1
    <3>2. t[k] = iter[1 .. k] /\ t[k - 1] = iter[1 .. k - 1]
      BY <3>1
    <3> HIDE DEF t
    <3> QED
      BY <1>3, <2>3, <2>5, <3>1, <3>2
  <2>6. \A k \in 0 .. n : t[k] = iter[1 .. k]
    OBVIOUS
  <2> HIDE DEF t
  <2>7. \A k \in 0 .. n : t[k] \in S
    <3>1. 0 \in Int /\ n \in Int
      BY <1>1
    <3> QED
      BY <2>4, <2>5, <3>1, RecursionTyped
  <2> QED
    BY <2>2, <2>3, <2>6, <2>7
<1> HIDE DEF Eqn
<1> DEFINE g == [k \in 0 .. n |-> iter[1 .. k]]
<1>10. /\ g[0] = base /\ \A k \in 0 .. n : g[k] \in S
       /\ \A k \in 1 .. n : g[k] = op(g[k - 1], letters[k])
       /\ g[n] = iter[1 .. n]
  <2>1. \A k \in 0 .. n : g[k] = iter[1 .. k]
    OBVIOUS
  <2>2. 0 \in 0 .. n /\ n \in 0 .. n /\ \A k \in 1 .. n : k \in 0 .. n /\ k - 1 \in 0 .. n
    BY <1>1
  <2> HIDE DEF g
  <2> QED
    BY <1>9, <2>1, <2>2
<1> HIDE DEF g
<1> WITNESS g
<1>11. LetterByLetter(g, letters, inst)
  BY <1>10 DEF LetterByLetter, op, n, base
<1> QED
  BY <1>1, <1>8, <1>10, <1>11 DEF AllTaken, S, n

\* The length that a list of the letters has, where it is taken.
ListsMeasure(g, letters, w, length) ==
  \A k \in 1 .. Len(letters) :
    letters[k] = "l" /\ g[k - 1].defined /\ Took(g[0], g[k - 1], w[k - 1])
      => ListLength(Last(g[k - 1].left)) = length

LEMMA TakesAddUp ==
  ASSUME NEW inst, NEW letters \in Seq(Alphabet), NEW V, NEW W, Pool(V, W, inst),
         NEW g, LetterByLetter(g, letters, inst), NEW n, n = Len(letters), AllTaken(g, n, V, W),
         NEW length \in Nat, NEW w, Weighs(w, letters, length), ListsMeasure(g, letters, w, length)
  PROVE  \A k \in 0 .. n : g[k].defined => Took(g[0], g[k], w[k])
<1> DEFINE f == [k \in 0 .. n |-> g[k].defined => Took(g[0], g[k], w[k])]
<1>1. n \in Nat /\ \A k \in 1 .. n : letters[k] \in Alphabet
  OBVIOUS
<1>2. Took(g[0], g[0], w[0])
  <2>1. g[0] \in TakenOf(V, W)
    BY <1>1 DEF AllTaken
  <2>2. Len(g[0].left) \in Nat
    BY <2>1 DEF TakenOf
  <2> QED
    BY <2>2, NoneTook DEF Weighs
<1>3. ASSUME NEW k \in 1 .. n, g[k - 1].defined => Took(g[0], g[k - 1], w[k - 1]), g[k].defined
      PROVE  Took(g[0], g[k], w[k])
  <2> DEFINE x == g[k - 1]
             y == g[k]
             u == w[k - 1]
             measured == ListLength(Last(x.left))
  <2>1. x \in TakenOf(V, W)
    <3>1. k - 1 \in 0 .. n
      BY <1>1
    <3> QED
      BY <3>1 DEF AllTaken
  <2>2. y = IF x.defined THEN Take(x, letters[k], inst) ELSE x
    BY DEF LetterByLetter
  <2>3. x.defined /\ y = Take(x, letters[k], inst)
    BY <1>3, <2>2
  <2>4. Took(x, y, Weight(letters[k], measured))
    <3>1. TookAs(letters[k], x, Take(x, letters[k], inst))
      BY <1>1, <2>1, LetterTakes
    <3> QED
      BY <1>3, <2>3, <3>1 DEF TookAs
  <2>5. Took(g[0], x, u)
    BY <1>3, <2>3
  <2>6. Weight(letters[k], measured) = Weight(letters[k], length)
    <3>1. letters[k] = "l" => measured = length
      BY <2>3, <2>5 DEF ListsMeasure
    <3> HIDE DEF measured
    <3> QED
      BY <3>1 DEF Weight
  <2>7. w[k] = u + Weight(letters[k], length)
    BY DEF Weighs
  <2> HIDE DEF x, y, u, measured
  <2> QED
    BY <2>4, <2>5, <2>6, <2>7, TookTwice DEF y
<1>4. f[0] \in {TRUE} /\ \A k \in 0 + 1 .. n : f[k - 1] \in {TRUE} => f[k] \in {TRUE}
  <2>1. 0 \in 0 .. n /\ \A k \in 0 + 1 .. n : k \in 0 .. n /\ k - 1 \in 0 .. n /\ k \in 1 .. n
    BY <1>1
  <2>2. \A k \in 0 .. n : f[k] = (g[k].defined => Took(g[0], g[k], w[k]))
    OBVIOUS
  <2> HIDE DEF f
  <2> QED
    BY <1>2, <1>3, <2>1, <2>2
<1>5. \A k \in 0 .. n : f[k] \in {TRUE}
  <2> DEFINE S == {TRUE}
  <2>1. 0 \in Int /\ n \in Int
    BY <1>1
  <2>2. f[0] \in S /\ \A k \in 0 + 1 .. n : f[k - 1] \in S => f[k] \in S
    BY <1>4
  <2> HIDE DEF f, S
  <2>3. \A k \in 0 .. n : f[k] \in S
    BY <2>1, <2>2, RecursionTyped
  <2> QED
    BY <2>3 DEF S
<1> QED
  BY <1>5

LEMMA WeightsExist ==
  ASSUME NEW letters \in Seq(Alphabet), NEW length \in Nat
  PROVE  \E w \in [0 .. Len(letters) -> Int] : Weighs(w, letters, length)
<1> DEFINE n == Len(letters)
           G == [k \in 1 .. n |-> [x \in Int |-> x + Weight(letters[k], length)]]
<1>1. n \in Nat /\ 0 \in Int /\ n \in Int /\ 0 <= n
  OBVIOUS
<1>2. \A k \in 1 .. n : Weight(letters[k], length) \in Int
  BY DEF Weight
<1>3. \A k \in 0 + 1 .. n : \A x \in Int : G[k][x] = x + Weight(letters[k], length) /\ G[k][x] \in Int
  BY <1>2
<1> HIDE DEF G, n
<1>4. Solvable(Int, 0, 0, n, G)
  BY <1>1, <1>3, RecursionBetween
<1>5. PICK w \in [0 .. n -> Int] : w[0] = 0 /\ \A k \in 0 + 1 .. n : w[k] = G[k][w[k - 1]]
  BY <1>4 DEF Solvable
<1>6. ASSUME NEW k \in 1 .. n
      PROVE  w[k] = w[k - 1] + Weight(letters[k], length)
  <2>1. k \in 0 + 1 .. n /\ k - 1 \in 0 .. n
    BY <1>1
  <2>2. w[k - 1] \in Int
    BY <1>5, <2>1
  <2> QED
    BY <1>3, <1>5, <2>1, <2>2
<1> QED
  BY <1>5, <1>6 DEF Weighs, n

LEMMA LettersOfScumm ==
  ASSUME IsScumm, NEW inst, inst.op \in DOMAIN ScummOpcodeTable,
         NEW v, v = ScummOpcodeTable[inst.op]
  PROVE  /\ LettersOf(inst) = EntryLetters(v) /\ LettersOf(inst) \in Seq(Alphabet)
         /\ inst.op \notin WrongEffects => LettersAdd(LettersOf(inst), v.change, Pushed(v))
         /\ v.change \in Int /\ v.class \in ScummClasses
         /\ v.class = "Binary" => v.data[1] \in Operations
         /\ ClassOf(inst) = v.class /\ DataOf(inst) = v.data
<1>1. ScummEntry(v)
  BY ScummEntriesOfTable DEF ScummEntriesOf
<1>2. ClassOf(inst) = v.class /\ DataOf(inst) = v.data
  BY DEF ClassOf, DataOf, OpcodesOf, IsScumm
<1>3. LettersOf(inst) = EntryLetters(v)
  BY <1>1, <1>2 DEF LettersOf, EntryLetters, ScummEntry, ScummClasses
<1>4. EntryLetters(v) \in Seq(Alphabet) /\ (inst.op \notin WrongEffects => EffectAdds(v))
  BY EffectsOfScumm DEF EffectsAdd
<1> QED
  BY <1>1, <1>2, <1>3, <1>4 DEF ScummEntry, EffectAdds

LEMMA LettersOfWorld ==
  ASSUME ~IsScumm, NEW inst, inst.op \in DOMAIN WorldOpcodeTable
  PROVE  LettersOf(inst) \in Seq({"p"}) /\ LettersOf(inst) \in Seq(Alphabet)
         /\ ClassOf(inst) \in WorldClasses
<1>1. ClassOf(inst) \in WorldClasses
  BY WorldTable DEF ClassOf, OpcodesOf, IsScumm, Described
<1>2. <<>> \in Seq({"p"}) /\ <<"p">> \in Seq({"p"}) /\ <<"p", "p">> \in Seq({"p"})
  OBVIOUS
<1>3. ASSUME NEW n \in {0, 1, 2, 4}
      PROVE  [i \in 1 .. n |-> "p"] \in Seq({"p"})
  BY <1>3
<1>4. KernelPops(inst.op) \in {0, 1, 2, 4}
  BY DEF KernelPops
<1>5. LettersOf(inst) \in Seq({"p"})
  <2>1. CASE ClassOf(inst) = "Kernel"
    BY <1>3, <1>4, <2>1 DEF LettersOf
  <2>2. CASE ClassOf(inst) \in WorldClasses \ {"Kernel"}
    BY <1>2, <2>2 DEF LettersOf, WorldClasses
  <2> QED
    BY <1>1, <2>1, <2>2
<1>6. {"p"} \subseteq Alphabet
  BY DEF Alphabet
<1>7. LettersOf(inst) \in Seq(Alphabet)
  BY <1>5, <1>6, SeqMonotonic
<1> QED
  BY <1>1, <1>5, <1>7

----------------------------------------------------------------------------
\* The values that an instruction may have as its arguments.
ArgumentsOf(V, inst) ==
  V \cup {Param(inst), ParamVar} \cup {ListValue(items, length) : items \in Seq(V), length \in V}

LEMMA PoolOfArguments ==
  ASSUME NEW V, \A v \in V : Sound(v), NEW inst, inst.val \in Int
  PROVE  Pool(V, ArgumentsOf(V, inst), inst)
<1>1. /\ \A from \in Seq(Nat) : \A n \in Int : Len(from) <= 1 => Sound(IntValue(n, from))
      /\ \A from \in Seq(Nat) : \A name \in Names : Sound(VarValue(name, from))
  BY AtomsSound
<1>2. <<>> \in Seq(Nat) /\ Len(<<>>) <= 1 /\ "var" \in Names /\ "list" \in Names
  BY EmptySeq DEF Names
<1>3. Sound(Param(inst)) /\ Sound(ParamVar)
  BY <1>1, <1>2 DEF Param, ParamVar
<1>4. ASSUME NEW items \in Seq(V), NEW length \in V
      PROVE  Sound(ListValue(items, length))
  <2>1. Append(items, length) \in Seq(V)
    OBVIOUS
  <2>2. Made(V)
    BY DEF Made, Sound, Simple
  <2>3. FromAll(Append(items, length)) \in Seq(Nat)
    BY <2>1, <2>2, FromAllTyped
  <2> QED
    BY <1>1, <1>2, <2>3 DEF ListValue
<1>5. \A v \in ArgumentsOf(V, inst) : Sound(v)
  BY <1>3, <1>4 DEF ArgumentsOf
<1> QED
  BY <1>5 DEF Pool, ArgumentsOf

\* Operands of letters that are pops and lists, as many as there are letters.
LEMMA ArgumentsCounted ==
  ASSUME NEW inst, NEW letters \in Seq({"p", "l"}), letters = LettersOf(inst),
         NEW V, NEW W, Pool(V, W, inst), stack \in Seq(V), Operands(inst).defined
  PROVE  Operands(inst).args \in Seq(W) /\ Len(Operands(inst).args) = Len(letters)
<1> DEFINE n == Len(letters)
<1>1. n \in Nat /\ \A k \in 1 .. n : letters[k] \in {"p", "l"}
  OBVIOUS
<1>2. letters \in Seq(Alphabet)
  <2>1. {"p", "l"} \subseteq Alphabet
    BY DEF Alphabet
  <2> QED
    BY <2>1, SeqMonotonic
<1>3. PICK g : /\ LetterByLetter(g, letters, inst) /\ AllTaken(g, n, V, W)
               /\ Operands(inst) = g[n]
  BY <1>2, OperandsOneByOne
<1> HIDE DEF n
<1> DEFINE S == {x \in (TakenOf(V, W) \X Nat) : x[1].defined => Len(x[1].args) = x[2]}
           f == [k \in 0 .. n |-> <<g[k], k>>]
<1>4. \A k \in 0 .. n : f[k] \in S <=> (g[k].defined => Len(g[k].args) = k)
  BY <1>1, <1>3 DEF AllTaken
<1> HIDE DEF f, S
<1>5. f[0] \in S
  <2>1. g[0].args = <<>>
    BY <1>3 DEF LetterByLetter, Taken
  <2> QED
    BY <1>1, <1>4, <2>1
<1>6. ASSUME NEW k \in 0 + 1 .. n, f[k - 1] \in S
      PROVE  f[k] \in S
  <2> DEFINE x == g[k - 1]
  <2>1. k \in 1 .. n /\ k \in 0 .. n /\ k - 1 \in 0 .. n
    BY <1>1
  <2>2. x \in TakenOf(V, W)
    BY <1>3, <2>1 DEF AllTaken
  <2>3. g[k] = IF x.defined THEN Take(x, letters[k], inst) ELSE x
    BY <1>3, <2>1 DEF LetterByLetter, n
  <2>4. x.defined => Len(x.args) = k - 1
    BY <1>4, <1>6, <2>1
  <2> HIDE DEF x
  <2>5. g[k].defined => Len(g[k].args) = k
    <3> SUFFICES ASSUME g[k].defined PROVE Len(g[k].args) = k
      OBVIOUS
    <3>1. x.defined /\ g[k] = Take(x, letters[k], inst)
      BY <2>3
    <3>2. Len(g[k].args) = Len(x.args) + 1
      BY <1>1, <2>1, <2>2, <3>1, OneArgument
    <3> QED
      BY <2>1, <2>4, <3>1, <3>2
  <2> QED
    BY <1>4, <2>1, <2>5
<1>7. \A k \in 0 .. n : f[k] \in S
  <2>1. 0 \in Int /\ n \in Int
    BY <1>1
  <2> QED
    BY <1>5, <1>6, <2>1, RecursionTyped
<1>8. n \in 0 .. n /\ g[n] \in TakenOf(V, W)
  BY <1>1, <1>3 DEF AllTaken
<1>9. g[n].args \in Seq(W)
  BY <1>8 DEF TakenOf
<1> QED
  BY <1>3, <1>4, <1>7, <1>8, <1>9 DEF n

----------------------------------------------------------------------------
(***************************************************************************)
(* The stack effect of an instruction whose list has the length that its   *)
(* effect is taken to have.                                                *)
(***************************************************************************)
ListHas(change, length) ==
  change >= \h1000 =>
    /\ Nibble(change, \h100) < Len(stack)
    /\ ListLength(stack[Len(stack) - Nibble(change, \h100)]) = length

EffectWith(change, length) == IF change >= \h1000 THEN StackEffect(change, length) ELSE change

LEMMA OperandsTake ==
  ASSUME NEW inst, NEW letters, letters = LettersOf(inst), NEW change \in Int, NEW pushed \in Nat,
         LettersAdd(letters, change, pushed),
         NEW V, NEW W, Pool(V, W, inst), stack \in Seq(V), Operands(inst).defined,
         NEW length \in Nat, length <= LongestList, ListHas(change, length)
  PROVE  \E k \in Nat : /\ Took(Taken(stack, <<>>), Operands(inst), k)
                        /\ EffectWith(change, length) = pushed - k
<1> DEFINE n == Len(letters)
           above == Nibble(change, \h100)
<1>1. letters \in Seq(Alphabet) /\ n \in Nat
  BY DEF LettersAdd
<1>2. PICK w \in [0 .. n -> Int] : Weighs(w, letters, length)
  BY <1>1, WeightsExist
<1>3. PICK g : /\ LetterByLetter(g, letters, inst) /\ AllTaken(g, n, V, W)
               /\ Operands(inst) = g[n]
  BY <1>1, OperandsOneByOne
<1>4. g[0] = Taken(stack, <<>>)
  BY <1>3 DEF LetterByLetter
<1>5. /\ change < \h1000 =>
           /\ change = pushed - w[n]
           /\ \A k \in 1 .. n : letters[k] # "l"
      /\ change >= \h1000 =>
           /\ StackEffect(change, length) = pushed - w[n]
           /\ \E k \in 1 .. n : ListAt(letters, k) /\ w[k - 1] = above
  BY <1>2 DEF LettersAdd
<1>6. EffectWith(change, length) = pushed - w[n]
  BY <1>5 DEF EffectWith
<1>7. above \in Nat /\ Len(stack) \in Nat
  BY DEF Nibble
<1> HIDE DEF n, above
<1>8. ASSUME NEW k \in 1 .. n, letters[k] = "l", g[k - 1].defined, Took(g[0], g[k - 1], w[k - 1])
      PROVE  ListLength(Last(g[k - 1].left)) = length
  <2> DEFINE x == g[k - 1]
             l == x.left
  <2>1. change >= \h1000 /\ w[k - 1] = above
    <3>1. change >= \h1000
      BY <1>5, <1>8
    <3>2. PICK j \in 1 .. n : ListAt(letters, j) /\ w[j - 1] = above
      BY <1>5, <3>1
    <3>3. j = k
      BY <1>8, <3>2 DEF ListAt, n
    <3> QED
      BY <3>1, <3>2, <3>3
  <2>2. above < Len(stack) /\ ListLength(stack[Len(stack) - above]) = length
    BY <2>1 DEF ListHas, above
  <2>3. Took(g[0], x, above)
    BY <1>8, <2>1
  <2>4. g[0].left = stack
    BY <1>4 DEF Taken
  <2> HIDE DEF x
  <2>5. Len(l) = Len(stack) - above /\ \A i \in 1 .. Len(l) : l[i] = stack[i]
    BY <2>3, <2>4 DEF Took
  <2>6. Last(l) = l[Len(l)]
    BY DEF Last
  <2> HIDE DEF l
  <2>7. Len(l) \in 1 .. Len(l)
    BY <1>7, <2>2, <2>5
  <2>8. Last(l) = stack[Len(stack) - above]
    BY <2>5, <2>6, <2>7
  <2> QED
    BY <2>2, <2>8 DEF l, x
<1>9. ListsMeasure(g, letters, w, length)
  BY <1>8 DEF ListsMeasure, n
<1>10. \A k \in 0 .. n : g[k].defined => Took(g[0], g[k], w[k])
  BY <1>1, <1>2, <1>3, <1>9, TakesAddUp DEF n
<1>11. n \in 0 .. n
  BY <1>1 DEF n
<1>12. Took(g[0], g[n], w[n])
  BY <1>3, <1>10, <1>11
<1>13. w[n] \in Nat
  BY <1>12 DEF Took
<1> QED
  BY <1>3, <1>4, <1>6, <1>12, <1>13

----------------------------------------------------------------------------
(***************************************************************************)
(* The values that a result pushes: as many as the table says, and well    *)
(* formed.                                                                 *)
(***************************************************************************)
AllSound(s) == s \in Seq(ToSet(s)) /\ \A v \in ToSet(s) : Sound(v)

LEMMA SoundOnes ==
  /\ AllSound(<<>>)
  /\ \A v : Sound(v) => AllSound(<<v>>)
  /\ \A v, u : Sound(v) /\ Sound(u) => AllSound(<<v, u>>)
<1>1. AllSound(<<>>)
  <2>1. ToSet(<<>>) = {}
    BY EmptySeq DEF ToSet
  <2> QED
    BY <2>1, EmptySeq DEF AllSound
<1>2. ASSUME NEW v, Sound(v) PROVE AllSound(<<v>>)
  <2>1. ToSet(<<v>>) = {v}
    BY DEF ToSet
  <2> QED
    BY <1>2, <2>1 DEF AllSound
<1>3. ASSUME NEW v, NEW u, Sound(v), Sound(u) PROVE AllSound(<<v, u>>)
  <2>1. ToSet(<<v, u>>) = {v, u}
    BY DEF ToSet
  <2> QED
    BY <1>3, <2>1 DEF AllSound
<1> QED
  BY <1>1, <1>2, <1>3

LEMMA PushedValues ==
  /\ \A printed : Result(<<>>, printed).pushed = <<>>
  /\ \A v, printed : Len(Result(<<v>>, printed).pushed) = 1 /\ Result(<<v>>, printed).pushed[1] = v
                     /\ (Sound(v) => AllSound(Result(<<v>>, printed).pushed))
  /\ \A v, u, printed : Len(Result(<<v, u>>, printed).pushed) = 2
                     /\ (Sound(v) /\ Sound(u) => AllSound(Result(<<v, u>>, printed).pushed))
<1>1. \A p, printed : Result(p, printed).pushed = p
  BY DEF Result
<1>2. ASSUME NEW v
      PROVE  Len(<<v>>) = 1 /\ <<v>>[1] = v /\ (Sound(v) => AllSound(<<v>>))
  BY SoundOnes
<1>3. ASSUME NEW v, NEW u
      PROVE  Len(<<v, u>>) = 2 /\ (Sound(v) /\ Sound(u) => AllSound(<<v, u>>))
  BY SoundOnes
<1> QED
  BY <1>1, <1>2, <1>3

LEMMA ResultsOfScumm ==
  ASSUME IsScumm, NEW inst, inst.op \in DOMAIN ScummOpcodeTable, inst.val \in Int,
         NEW v, v = ScummOpcodeTable[inst.op],
         NEW W, \A x \in W : Sound(x), NEW args \in Seq(W),
         LettersOf(inst) \in Seq({"p", "l"}) => Len(args) = Len(LettersOf(inst)),
         NEW from \in Nat, NEW pushed, pushed = ScummResult(inst, args, from).pushed
  PROVE  Len(pushed) = Pushed(v) /\ AllSound(pushed)
<1>1. /\ v.class \in ScummClasses /\ (v.class = "Binary" => v.data[1] \in Operations)
      /\ ClassOf(inst) = v.class /\ DataOf(inst) = v.data /\ LettersOf(inst) = EntryLetters(v)
  BY LettersOfScumm
<1>2. Made(W)
  BY DEF Made, Sound, Simple
<1>3. FromAll(args) \in Seq(Nat)
  BY <1>2, FromAllTyped
<1>4. <<from>> \in Seq(Nat) /\ Len(<<from>>) <= 1
  OBVIOUS
<1>5. /\ \A f \in Seq(Nat) : \A n \in Int : Len(f) <= 1 => Sound(IntValue(n, f))
      /\ \A f \in Seq(Nat) : \A name \in Names : Sound(VarValue(name, f))
      /\ \A f \in Seq(Nat) : Len(f) <= 1 => Sound(DupValue(f))
  BY AtomsSound
<1>6. "var" \in Names /\ "array" \in Names /\ "call" \in Names
  BY DEF Names
<1>7. CASE v.class = "Push"
  <2>1. ScummResult(inst, args, from) = Result(<<IntValue(inst.val, <<from>>)>>, <<>>)
    BY <1>1, <1>7 DEF ScummResult
  <2>2. Sound(IntValue(inst.val, <<from>>))
    BY <1>4, <1>5
  <2> QED
    BY <1>7, <2>1, <2>2, PushedValues DEF Pushed
<1>8. CASE v.class = "PushVar"
  <2>1. ScummResult(inst, args, from) = Result(<<VarValue("var", <<from>>)>>, <<>>)
    BY <1>1, <1>8 DEF ScummResult
  <2>2. Sound(VarValue("var", <<from>>))
    BY <1>4, <1>5, <1>6
  <2> QED
    BY <1>8, <2>1, <2>2, PushedValues DEF Pushed
<1>9. CASE v.class \in {"ArrayRead", "IndexedRead"}
  <2>1. ScummResult(inst, args, from) = Result(<<ArrayValue(args)>>, <<>>)
    BY <1>1, <1>9 DEF ScummResult
  <2>2. Sound(ArrayValue(args))
    BY <1>3, <1>5, <1>6 DEF ArrayValue
  <2>3. Pushed(v) = 1
    BY <1>9 DEF Pushed
  <2>4. pushed = Result(<<ArrayValue(args)>>, <<>>).pushed
    BY <2>1
  <2> QED
    BY <2>2, <2>3, <2>4, PushedValues
<1>10. {"p"} \subseteq {"p", "l"} /\ <<"p">> \in Seq({"p", "l"}) /\ <<"p", "p">> \in Seq({"p", "l"})
       /\ Len(<<"p">>) = 1 /\ Len(<<"p", "p">>) = 2
  OBVIOUS
<1>11. EntryLetters(v) = <<"p">> => args[1] \in W
  <2> SUFFICES ASSUME EntryLetters(v) = <<"p">> PROVE args[1] \in W
    OBVIOUS
  <2>1. Len(args) = 1
    BY <1>1, <1>10
  <2>2. 1 \in 1 .. Len(args)
    BY <2>1
  <2> QED
    BY <2>2
<1>12. EntryLetters(v) = <<"p", "p">> => args[1] \in W /\ args[2] \in W
  <2> SUFFICES ASSUME EntryLetters(v) = <<"p", "p">> PROVE args[1] \in W /\ args[2] \in W
    OBVIOUS
  <2>1. Len(args) = 2
    BY <1>1, <1>10
  <2> QED
    BY <2>1
<1>13. CASE v.class = "Dup"
  <2>1. ScummResult(inst, args, from) = Dup(args[1], from)
    BY <1>1, <1>13 DEF ScummResult
  <2>2. Sound(args[1])
    BY <1>11, <1>13 DEF EntryLetters
  <2>3. Sound(DupValue(<<from>>))
    BY <1>4, <1>5
  <2>4. \/ ScummResult(inst, args, from) = Result(<<args[1], args[1]>>, <<>>)
        \/ ScummResult(inst, args, from)
             = Result(<<DupValue(<<from>>), DupValue(<<from>>)>>, << <<args[1]>> >>)
    BY <2>1 DEF Dup
  <2> QED
    BY <1>13, <2>2, <2>3, <2>4, PushedValues DEF Pushed
<1>14. CASE v.class = "Not"
  <2>1. ScummResult(inst, args, from) = Result(<<Negate(args[1])>>, <<>>)
    BY <1>1, <1>14 DEF ScummResult
  <2>2. Sound(args[1])
    BY <1>11, <1>14 DEF EntryLetters
  <2>3. Sound(Negate(args[1]))
    BY <2>2, NegationsSound
  <2> QED
    BY <1>14, <2>1, <2>3, PushedValues DEF Pushed
<1>15. CASE v.class = "Binary"
  <2>1. ScummResult(inst, args, from) = Result(<<BinaryFIFO(v.data[1], args)>>, <<>>)
    BY <1>1, <1>15 DEF ScummResult
  <2>2. Sound(args[1]) /\ Sound(args[2])
    BY <1>12, <1>15 DEF EntryLetters
  <2>3. Sound(BinaryFIFO(v.data[1], args))
    BY <1>1, <1>15, <2>2, OperationsSound DEF BinaryFIFO
  <2> QED
    BY <1>15, <2>1, <2>3, PushedValues DEF Pushed
<1>16. CASE v.class = "Call"
  <2> DEFINE u == [CallValue(args) EXCEPT !.from = Append(@, from)]
  <2>1. ScummResult(inst, args, from) = CallResult(v.data, args, from)
    BY <1>1, <1>16 DEF ScummResult
  <2>2. Append(FromAll(args), from) \in Seq(Nat)
    BY <1>3
  <2> DEFINE h == Append(FromAll(args), from)
             w == VarValue("call", h)
  <2>3. /\ u.text = w.text /\ u.prec = w.prec /\ u.lead = w.lead
        /\ u.op = "" /\ w.op = "" /\ u.from = h /\ w.from = h
    BY DEF CallValue, VarValue, Atom
  <2>4. Sound(u)
    <3>1. Sound(w)
      BY <1>5, <1>6, <2>2
    <3>2. "" \notin Comparisons /\ "" # "!"
      BY DEF Comparisons
    <3> HIDE DEF u, w, h
    <3> QED
      BY <2>3, <3>1, <3>2 DEF Sound, Simple, IsNumber, IsDup
  <2>5. ScummResult(inst, args, from)
          = IF ReturnsValue(v.data) THEN Result(<<u>>, <<>>) ELSE Result(<<>>, <<args>>)
    BY <2>1 DEF CallResult
  <2> HIDE DEF u
  <2>6. CASE ReturnsValue(v.data)
    BY <1>16, <2>4, <2>5, <2>6, PushedValues DEF Pushed
  <2>7. CASE ~ReturnsValue(v.data)
    BY <1>16, <2>5, <2>7, PushedValues, SoundOnes, EmptySeq DEF Pushed
  <2> QED
    BY <2>6, <2>7
<1>17. CASE v.class \in {"Pop", "Jump", "AssignList", "AssignLists", "Write", "ArrayWrite",
                         "IndexedWrite", "VarInc", "ArrayInc", "CondJump", "AssignString"}
  <2>1. \E printed : ScummResult(inst, args, from) = Result(<<>>, printed)
    BY <1>1, <1>17 DEF ScummResult
  <2>2. pushed = <<>>
    BY <2>1, PushedValues
  <2> QED
    BY <1>17, <2>2, SoundOnes, EmptySeq DEF Pushed
<1> QED
  BY <1>1, <1>7, <1>8, <1>9, <1>13, <1>14, <1>15, <1>16, <1>17 DEF ScummClasses

----------------------------------------------------------------------------
(***************************************************************************)
(* The level: the sum of the stack effects of the instructions gone        *)
(* through.                                                                *)
(***************************************************************************)
ChangesOf(s) == FoldLeft(LAMBDA n, inst : n + inst.change, 0, s)
Totals(t, s) == t[0] = 0 /\ \A k \in 1 .. Len(s) : t[k] = t[k - 1] + s[k].change

LEMMA ChangesOneByOne ==
  ASSUME NEW V, NEW s \in Seq(V), \A k \in 1 .. Len(s) : s[k].change \in Int
  PROVE  \E t : /\ Totals(t, s) /\ ChangesOf(s) = t[Len(s)]
                /\ \A k \in 0 .. Len(s) : t[k] \in Int
<1> DEFINE n == Len(s)
           e(k) == s[k].change
           op(x, inst) == x + inst.change
           G == [k \in 1 .. n |-> [x \in Int |-> x + e(k)]]
           Eqn(h) == h = [r \in SUBSET (DOMAIN s) |->
                            IF r = {} THEN 0 ELSE op(h[r \ {Max(r)}], s[Max(r)])]
           iter == CHOOSE h : Eqn(h)
<1>1. n \in Nat /\ DOMAIN s = 1 .. n /\ \A k \in 1 .. n : e(k) \in Int
  OBVIOUS
<1>2. \A k \in 1 .. n : \A x \in Int : G[k][x] = op(x, s[k]) /\ G[k][x] \in Int
  BY <1>1
<1>3. \A k : \A x : op(x, s[k]) = x + e(k)
  OBVIOUS
<1> HIDE DEF n, G, op, e
<1>4. PICK f \in [SUBSET (1 .. n) -> Int] : Folds(f, n, 0, G)
  <2>1. \A i \in 1 .. n : \A x \in Int : G[i][x] \in Int
    BY <1>2
  <2>2. 0 \in Int
    OBVIOUS
  <2>3. FoldSolvable(Int, 0, n, G)
    BY <1>1, <2>1, <2>2, FoldExists
  <2> QED
    BY <2>3 DEF FoldSolvable
<1>5. ASSUME NEW r \in SUBSET (1 .. n)
      PROVE  f[r] = IF r = {} THEN 0 ELSE op(f[r \ {Max(r)}], s[Max(r)])
  <2>1. CASE r = {}
    BY <1>4, <2>1 DEF Folds
  <2>2. CASE r # {}
    <3> DEFINE q == r \ {Max(r)}
    <3>1. Max(r) \in 1 .. n /\ q \in SUBSET (1 .. n)
      BY <1>1, <2>2, GreatestExists
    <3>2. f[q] \in Int
      BY <3>1, <1>4
    <3>3. f[r] = G[Max(r)][f[q]]
      BY <1>4, <2>2 DEF Folds
    <3> HIDE DEF q
    <3>4. f[r] = op(f[q], s[Max(r)])
      BY <1>2, <3>1, <3>2, <3>3
    <3> QED
      BY <2>2, <3>4 DEF q
  <2> QED
    BY <2>1, <2>2
<1>6. Eqn(f)
  BY <1>1, <1>4, <1>5
<1>7. Eqn(iter)
  <2> HIDE DEF Eqn
  <2> QED
    BY <1>6
<1>8. ChangesOf(s) = iter[DOMAIN s]
  BY DEF ChangesOf, FoldLeft, MapThenFoldSet, op
<1> HIDE DEF iter
<1>9. iter[1 .. 0] = 0 /\ \A k \in 1 .. n : iter[1 .. k] = iter[1 .. k - 1] + e(k)
  <2>1. ASSUME NEW r \in SUBSET (1 .. n)
        PROVE  iter[r] = IF r = {} THEN 0 ELSE op(iter[r \ {Max(r)}], s[Max(r)])
    BY <1>1, <1>7
  <2> HIDE DEF Eqn
  <2>2. iter[1 .. 0] = 0
    <3>1. 1 .. 0 = {} /\ 1 .. 0 \in SUBSET (1 .. n)
      OBVIOUS
    <3> QED
      BY <2>1, <3>1
  <2>3. ASSUME NEW k \in 1 .. n
        PROVE  iter[1 .. k] = iter[1 .. k - 1] + e(k)
    <3> DEFINE r == 1 .. k
    <3>1. r \in SUBSET (1 .. n) /\ r # {} /\ Max(r) = k /\ r \ {k} = 1 .. k - 1
      BY <1>1, UpToIndex
    <3> HIDE DEF r
    <3>2. iter[r] = op(iter[r \ {k}], s[k])
      BY <2>1, <3>1
    <3> QED
      BY <1>3, <3>1, <3>2 DEF r
  <2> QED
    BY <2>2, <2>3
<1> HIDE DEF Eqn
<1> DEFINE t == [k \in 0 .. n |-> iter[1 .. k]]
<1>10. t[0] = 0 /\ t[n] = iter[1 .. n] /\ \A k \in 1 .. n : t[k] = t[k - 1] + e(k)
  <2>1. \A k \in 0 .. n : t[k] = iter[1 .. k]
    OBVIOUS
  <2>2. 0 \in 0 .. n /\ n \in 0 .. n /\ \A k \in 1 .. n : k \in 0 .. n /\ k - 1 \in 0 .. n
    BY <1>1
  <2> HIDE DEF t
  <2> QED
    BY <1>9, <2>1, <2>2
<1> HIDE DEF t
<1>11. \A k \in 0 .. n : t[k] \in Int
  <2>1. 0 \in Int /\ n \in Int /\ t[0] \in Int
    BY <1>1, <1>10
  <2>2. \A k \in 0 + 1 .. n : t[k - 1] \in Int => t[k] \in Int
    BY <1>1, <1>10
  <2> QED
    BY <2>1, <2>2, RecursionTyped
<1> WITNESS t
<1> QED
  BY <1>1, <1>8, <1>10, <1>11 DEF Totals, n, e

LEMMA NoChanges == ChangesOf(<<>>) = 0
<1>1. <<>> \in Seq(Int) /\ Len(<<>>) = 0 /\ \A k \in 1 .. Len(<<>>) : <<>>[k].change \in Int
  BY EmptySeq
<1> DEFINE s == <<>>
<1> HIDE DEF s
<1>2. PICK t : Totals(t, s) /\ ChangesOf(s) = t[Len(s)]
  BY <1>1, ChangesOneByOne DEF s
<1> QED
  BY <1>1, <1>2 DEF Totals, s

LEMMA LevelGrows ==
  ASSUME NEW V, NEW s \in Seq(V), \A k \in 1 .. Len(s) : s[k].change \in Int,
         NEW m \in Nat, NEW n, n = m + 1, n <= Len(s)
  PROVE  ChangesOf(SubSeq(s, 1, n)) = ChangesOf(SubSeq(s, 1, m)) + s[n].change
<1> DEFINE a == SubSeq(s, 1, m)
           b == SubSeq(s, 1, n)
<1>1. m \in 0 .. Len(s) /\ n \in 0 .. Len(s) /\ n \in Nat /\ Len(s) \in Nat
  OBVIOUS
<1>2. a \in Seq(V) /\ Len(a) = m /\ \A i \in 1 .. m : a[i] = s[i]
  BY <1>1, PrefixIs
<1>3. b \in Seq(V) /\ Len(b) = n /\ \A i \in 1 .. n : b[i] = s[i]
  BY <1>1, PrefixIs
<1> HIDE DEF a, b
<1>4. PICK t : /\ Totals(t, a) /\ ChangesOf(a) = t[m] /\ \A k \in 0 .. m : t[k] \in Int
  <2>1. \A k \in 1 .. Len(a) : a[k].change \in Int
    BY <1>1, <1>2
  <2> QED
    BY <1>2, <2>1, ChangesOneByOne
<1>5. PICK u : /\ Totals(u, b) /\ ChangesOf(b) = u[n] /\ \A k \in 0 .. n : u[k] \in Int
  <2>1. \A k \in 1 .. Len(b) : b[k].change \in Int
    BY <1>1, <1>3
  <2> QED
    BY <1>3, <2>1, ChangesOneByOne
<1> DEFINE f == [k \in 0 .. m |-> u[k] = t[k]]
           S == {TRUE}
<1>6. \A k \in 0 .. m : f[k] \in S <=> u[k] = t[k]
  OBVIOUS
<1> HIDE DEF f, S
<1>7. f[0] \in S
  BY <1>4, <1>5, <1>6, <1>1 DEF Totals
<1>8. ASSUME NEW k \in 0 + 1 .. m, f[k - 1] \in S
      PROVE  f[k] \in S
  <2>1. k \in 0 .. m /\ k - 1 \in 0 .. m /\ k \in 1 .. m /\ k \in 1 .. n
    BY <1>1
  <2>2. t[k] = t[k - 1] + a[k].change /\ u[k] = u[k - 1] + b[k].change /\ a[k] = b[k]
    BY <1>2, <1>3, <1>4, <1>5, <2>1 DEF Totals
  <2> QED
    BY <1>6, <1>8, <2>1, <2>2
<1>9. \A k \in 0 .. m : f[k] \in S
  <2>1. 0 \in Int /\ m \in Int
    OBVIOUS
  <2> QED
    BY <1>7, <1>8, <2>1, RecursionTyped
<1>10. u[m] = t[m]
  BY <1>6, <1>9, <1>1
<1>11. u[n] = u[m] + b[n].change /\ b[n] = s[n]
  <2>1. n \in 1 .. n /\ n - 1 = m
    BY <1>1
  <2> QED
    BY <1>3, <1>5, <2>1 DEF Totals
<1> QED
  BY <1>4, <1>5, <1>10, <1>11 DEF a, b

----------------------------------------------------------------------------
(***************************************************************************)
(* The walk back over loads.  Where the instructions before a call are     *)
(* loads, as many as the walk is to find, it ends in front of them.        *)
(***************************************************************************)
LEMMA InstBeforeLoads ==
  ASSUME NEW k \in Nat, NEW above \in Nat, k > above + 1, \A j \in k - above .. k - 1 : IsLoad(j)
  PROVE  InstBefore(k, above) = k - above - 1
<1> DEFINE before == {j \in 1 .. k - 1 : IsLoad(j)}
           Behind(j) == {i \in before : i >= j}
           recent == k - above .. k - 1
<1>1. CASE above = 0
  BY <1>1 DEF InstBefore
<1>2. CASE above > 0
  <2>1. IsFiniteSet(1 .. k - 1) /\ before \in SUBSET (1 .. k - 1)
    BY FS_Interval
  <2>2. IsFiniteSet(before)
    BY <2>1, FS_Subset
  <2>3. IsFiniteSet(recent) /\ Cardinality(recent) = above /\ recent \in SUBSET before
    <3>1. k - above \in Int /\ k - 1 \in Int /\ ~(k - above > k - 1)
          /\ (k - 1) - (k - above) + 1 = above
      BY <1>2
    <3>2. IsFiniteSet(recent) /\ Cardinality(recent) = above
      BY <3>1, FS_Interval
    <3>3. \A j \in recent : j \in 1 .. k - 1
      OBVIOUS
    <3> QED
      BY <3>2, <3>3
  <2>4. Cardinality(before) >= above /\ Cardinality(before) \in Nat
    BY <2>2, <2>3, FS_Subset, FS_CardinalityType
  <2>5. k - above \in before /\ Behind(k - above) = recent
    <3>1. k - above \in recent
      BY <1>2
    <3>2. \A i \in before : i >= k - above => i \in recent
      OBVIOUS
    <3>3. \A i \in recent : i >= k - above
      OBVIOUS
    <3> QED
      BY <2>3, <3>1, <3>2, <3>3
  <2>6. ASSUME NEW j \in before, Cardinality(Behind(j)) = above
        PROVE  j = k - above
    <3>1. Behind(j) \in SUBSET before /\ IsFiniteSet(Behind(j))
      BY <2>2, FS_Subset
    <3>2. CASE j < k - above
      <4>1. recent \in SUBSET Behind(j) /\ j \in Behind(j) /\ j \notin recent
        BY <2>1, <2>3, <3>2
      <4> HIDE DEF recent, Behind
      <4>2. recent = Behind(j)
        BY <2>3, <2>6, <3>1, <4>1, FS_Subset
      <4> QED
        BY <4>1, <4>2
    <3>3. CASE j > k - above
      <4>1. Behind(j) \in SUBSET recent /\ k - above \in recent /\ k - above \notin Behind(j)
        BY <1>2, <2>1, <3>3
      <4> HIDE DEF recent, Behind
      <4>2. recent = Behind(j)
        BY <2>3, <2>6, <3>1, <4>1, FS_Subset
      <4> QED
        BY <4>1, <4>2
    <3> QED
      BY <2>1, <3>2, <3>3
  <2>7. (CHOOSE j \in before : Cardinality(Behind(j)) = above) = k - above
    <3> HIDE DEF before, Behind, recent
    <3> QED
      BY <2>3, <2>5, <2>6
  <2>8. above # 0 /\ ~(above > 0 /\ Cardinality(before) < above)
    BY <1>2, <2>4
  <2>9. InstBefore(k, above) = (CHOOSE j \in before : Cardinality(Behind(j)) = above) - 1
    BY <2>8 DEF InstBefore
  <2> QED
    BY <2>7, <2>9
<1> QED
  BY <1>1, <1>2

----------------------------------------------------------------------------
(***************************************************************************)
(* The stack effects.  They are those of the table until the walk over the *)
(* instructions has come to them, and then, where every length is pushed   *)
(* just before, those of lists of that length.                             *)
(***************************************************************************)
TableChange(k) == ScummOpcodeTable[insts[k].op].change
Above(k) == Nibble(TableChange(k), \h100)
LengthAt(k) == insts[k - Above(k) - 1].val
EffectOf(k) ==
  IF TableChange(k) >= \h1000 THEN EffectWith(TableChange(k), LengthAt(k)) ELSE TableChange(k)

EffectsInv ==
  IsScumm =>
    /\ phase \in {"header", "read", "string"} => it = 0
    /\ phase \in {"read", "string"} => \A k \in 1 .. Len(insts) : insts[k].change = TableChange(k)
    /\ phase = "fix" /\ LengthsPushed =>
         /\ it <= Len(insts)
         /\ \A k \in 1 .. Len(insts) :
              insts[k].change = IF k <= it THEN EffectOf(k) ELSE TableChange(k)
    /\ Disassembled /\ LengthsPushed =>
         /\ it <= Len(insts)
         /\ \A k \in 1 .. Len(insts) : insts[k].change = EffectOf(k)

\* What is known of a list whose length is pushed just before.
LEMMA LengthsAre ==
  ASSUME IsScumm, Len(insts) \in Nat, DOMAIN insts = 1 .. Len(insts),
         \A j \in 1 .. Len(insts) : insts[j].op \in DOMAIN ScummOpcodeTable,
         LengthsPushed, NEW k \in 1 .. Len(insts), TableChange(k) >= \h1000,
         NEW above, above = Above(k)
  PROVE  /\ above \in Nat /\ k > above + 1 /\ k - above - 1 \in 1 .. Len(insts)
         /\ ClassOf(insts[k - above - 1]) = "Push"
         /\ insts[k - above - 1].val \in 0 .. LongestList
         /\ \A j \in k - above .. k - 1 : ClassOf(insts[j]) \in PlainLoads /\ IsLoad(j)
         /\ InstBefore(k, above) = k - above - 1
<1>1. TableChange(k) \in Int
  BY ScummEntriesOfTable DEF ScummEntriesOf, ScummEntry, TableChange
<1>2. above \in Nat
  BY <1>1 DEF Nibble, Above
<1>3. /\ k > above + 1 /\ ClassOf(insts[k - above - 1]) = "Push"
         /\ insts[k - above - 1].val \in 0 .. LongestList
      /\ \A j \in k - above .. k - 1 : ClassOf(insts[j]) \in PlainLoads
  BY DEF LengthsPushed, TableChange, Above
<1>4. \A j : ClassOf(insts[j]) \in PlainLoads => IsLoad(j)
  BY DEF ClassOf, OpcodesOf, IsScumm, IsLoad, LoadClasses, PlainLoads
<1>5. \A j \in k - above .. k - 1 : IsLoad(j)
  BY <1>3, <1>4
<1>6. InstBefore(k, above) = k - above - 1
  BY <1>2, <1>3, <1>5, InstBeforeLoads
<1> QED
  BY <1>2, <1>3, <1>5, <1>6

\* The opcodes and numbers of the instructions stay as they are.
SameInstructions ==
  /\ script' = script /\ DOMAIN insts' = DOMAIN insts /\ Len(insts') = Len(insts)
  /\ \A j \in DOMAIN insts : insts'[j].op = insts[j].op /\ insts'[j].val = insts[j].val

KnownInstructions ==
  /\ IsScumm /\ Len(insts) \in Nat /\ DOMAIN insts = 1 .. Len(insts)
  /\ \A j \in 1 .. Len(insts) :
       insts[j].op \in DOMAIN ScummOpcodeTable /\ insts[j].val \in Int
       /\ DOMAIN insts[j] = Entry

LEMMA ScummInstructions ==
  ASSUME ReadInv, IsScumm, phase = "fix" \/ Disassembled
  PROVE  KnownInstructions
<1>1. Len(insts) \in Nat /\ DOMAIN insts = 1 .. Len(insts) /\ ReadSoFar /\ IsScript(script)
  BY DEF ReadInv
<1>2. OpcodesOf(script.engine) = ScummOpcodeTable
  BY DEF OpcodesOf, IsScumm
<1> QED
  BY <1>1, <1>2 DEF KnownInstructions, ReadSoFar, ReadAs

LEMMA EffectsKept ==
  ASSUME KnownInstructions, SameInstructions
  PROVE  /\ LengthsPushed' <=> LengthsPushed
         /\ \A k \in 1 .. Len(insts) :
              TableChange(k)' = TableChange(k) /\ (LengthsPushed => EffectOf(k)' = EffectOf(k))
<1> DEFINE n == Len(insts)
<1>1. /\ IsScumm /\ IsScumm' /\ n \in Nat /\ DOMAIN insts = 1 .. n /\ DOMAIN insts' = 1 .. n
      /\ Len(insts') = n /\ script' = script
      /\ \A j \in 1 .. n : insts'[j].op = insts[j].op /\ insts'[j].val = insts[j].val
      /\ \A j \in 1 .. n : insts[j].op \in DOMAIN ScummOpcodeTable
  BY DEF KnownInstructions, SameInstructions, IsScumm
<1>2. \A k \in 1 .. n : TableChange(k)' = TableChange(k)
  BY <1>1 DEF TableChange
<1>3. \A j \in 1 .. n : ClassOf(insts[j])' = ClassOf(insts[j])
  BY <1>1 DEF ClassOf
<1>5. \A k \in 1 .. n : Above(k) \in Nat /\ Above(k)' = Above(k)
  BY <1>1, <1>2, ScummEntriesOfTable DEF ScummEntriesOf, ScummEntry, TableChange, Nibble, Above
<1> HIDE DEF n
<1>4. ASSUME NEW k \in 1 .. n, NEW above \in Nat, k > above + 1
      PROVE  k - above - 1 \in 1 .. n /\ \A j \in k - above .. k - 1 : j \in 1 .. n
  <2>1. n \in Nat
    BY <1>1
  <2> QED
    BY <1>4, <2>1
<1> DEFINE Before(k) ==
             /\ insts[k].op \notin WrongEffects
             /\ TableChange(k) >= \h1000 =>
                  /\ k > Above(k) + 1 /\ ClassOf(insts[k - Above(k) - 1]) = "Push"
                  /\ insts[k - Above(k) - 1].val \in 0 .. LongestList
                  /\ \A j \in k - Above(k) .. k - 1 : ClassOf(insts[j]) \in PlainLoads
           After(k) ==
             /\ insts'[k].op \notin WrongEffects
             /\ TableChange(k)' >= \h1000 =>
                  /\ k > Above(k)' + 1 /\ ClassOf(insts[k - Above(k) - 1])' = "Push"
                  /\ insts'[k - Above(k)' - 1].val \in 0 .. LongestList
                  /\ \A j \in k - Above(k)' .. k - 1 : ClassOf(insts[j])' \in PlainLoads
<1>6. LengthsPushed <=> \A k \in 1 .. n : Before(k)
  BY <1>1 DEF LengthsPushed, TableChange, Above
<1>7. LengthsPushed' <=> \A k \in 1 .. n : After(k)
  BY <1>1 DEF LengthsPushed, TableChange, Above
<1>8. LengthsPushed' <=> LengthsPushed
  <2>1. ASSUME NEW k \in 1 .. n
        PROVE  Before(k) <=> After(k)
    <3>1. /\ Above(k) \in Nat /\ Above(k)' = Above(k) /\ TableChange(k)' = TableChange(k)
          /\ insts'[k].op = insts[k].op
      BY <1>1, <1>2, <1>5
    <3>2. CASE k > Above(k) + 1
      <4>1. /\ ClassOf(insts[k - Above(k) - 1])' = ClassOf(insts[k - Above(k) - 1])
            /\ insts'[k - Above(k) - 1].val = insts[k - Above(k) - 1].val
            /\ \A j \in k - Above(k) .. k - 1 : ClassOf(insts[j])' = ClassOf(insts[j])
        BY <1>1, <1>3, <1>4, <3>1, <3>2
      <4> QED
        BY <3>1, <4>1
    <3>3. CASE ~(k > Above(k) + 1)
      BY <3>1, <3>3
    <3> QED
      BY <3>2, <3>3
  <2> QED
    BY <1>6, <1>7, <2>1
<1>9. ASSUME LengthsPushed, NEW k \in 1 .. n
      PROVE  EffectOf(k)' = EffectOf(k)
  <2>1. CASE TableChange(k) >= \h1000
    <3> DEFINE at == k - Above(k) - 1
    <3>1. at \in 1 .. n
      <4>1. Above(k) \in Nat /\ k > Above(k) + 1
        BY <1>5, <1>6, <1>9, <2>1
      <4> QED
        BY <1>4, <4>1
    <3>2. LengthAt(k) = insts[at].val /\ LengthAt(k)' = insts'[at].val
      BY <1>5 DEF LengthAt
    <3> HIDE DEF at
    <3>3. LengthAt(k)' = LengthAt(k)
      BY <1>1, <3>1, <3>2
    <3> QED
      BY <1>2, <3>3 DEF EffectOf, EffectWith, StackEffect, Int16
  <2>2. CASE ~(TableChange(k) >= \h1000)
    BY <1>2, <2>2 DEF EffectOf
  <2> QED
    BY <2>1, <2>2
<1> QED
  BY <1>2, <1>8, <1>9 DEF n

LEMMA EffectsInit == StackCodeInit => EffectsInv
BY DEF StackCodeInit, StackInit, EffectsInv, Disassembled

LEMMA EffectsWhileReading ==
  ASSUME ReadInv, EffectsInv, ReadHeader \/ ReadScumm \/ ReadString \/ ReadWorld \/ EndScumm \/ EndWorld
  PROVE  EffectsInv'
<1> DEFINE n == Len(insts)
<1>1. IsScumm' <=> IsScumm
  BY DEF IsScumm, ReadHeader, ReadScumm, ReadString, ReadWorld, EndScumm, EndWorld
<1> SUFFICES ASSUME IsScumm PROVE EffectsInv'
  BY <1>1 DEF EffectsInv
<1>2. /\ it = 0 /\ n \in Nat /\ insts \in Seq(ToSet(insts)) /\ (phase = "header" => insts = <<>>)
      /\ phase \in {"read", "string"} => \A k \in 1 .. n : insts[k].change = TableChange(k)
  BY DEF ReadInv, EffectsInv, ReadHeader, ReadScumm, ReadString, ReadWorld, EndScumm, EndWorld
<1>3. CASE ReadHeader
  <2>1. /\ phase' \in {"read", "failed"} /\ it' = 0 /\ insts' = <<>> /\ Len(<<>>) = 0
    BY <1>2, <1>3, EmptySeq DEF ReadHeader, Fail
  <2>2. \A k \in 1 .. Len(insts') : insts'[k].change = TableChange(k)'
    BY <2>1
  <2> QED
    BY <1>1, <2>1, <2>2 DEF EffectsInv, Disassembled
<1>4. CASE ReadScumm
  <2> DEFINE stored == stream[position]
             known == ScummOpcodeTable[stored.op]
             entry == [op |-> stored.op, address |-> address, change |-> known.change,
                       val |-> FirstNumber(stored, known.params),
                       dest |-> IF known.class \in {"CondJump", "Jump"} THEN DestOf(address, stored)
                                ELSE NoDest]
  <2>1. phase = "read" /\ ReadOpcode
    BY <1>4 DEF ReadScumm
  <2>2. it' = it /\ (phase' = "failed" \/ (phase' \in {"read", "string"} /\ insts' = Append(insts, entry)))
    BY <2>1 DEF ReadOpcode, Fail, OpcodesOf, IsScumm
  <2>3. entry.change = ScummOpcodeTable[entry.op].change
    OBVIOUS
  <2> HIDE DEF entry
  <2>4. ASSUME phase' \in {"read", "string"}
        PROVE  \A k \in 1 .. Len(insts') : insts'[k].change = TableChange(k)'
    <3>1. insts' = Append(insts, entry)
      BY <2>2, <2>4
    <3>2. /\ Len(insts') = n + 1 /\ insts'[n + 1] = entry
          /\ \A k \in 1 .. n : insts'[k] = insts[k]
      BY <1>2, <3>1, Appended
    <3>3. ASSUME NEW k \in 1 .. Len(insts')
          PROVE  insts'[k].change = TableChange(k)'
      <4>1. CASE k \in 1 .. n
        BY <1>2, <2>1, <3>2, <4>1 DEF TableChange
      <4>2. CASE k = n + 1
        BY <2>3, <3>2, <4>2 DEF TableChange
      <4> QED
        BY <1>2, <3>2, <4>1, <4>2
    <3> QED
      BY <3>3
  <2> QED
    BY <1>1, <1>2, <2>2, <2>4 DEF EffectsInv, Disassembled
<1>5. CASE EndScumm
  <2>1. phase = "read" /\ phase' = "fix" /\ it' = 0 /\ insts' = insts
    BY <1>2, <1>5 DEF EndScumm
  <2>2. \A k \in 1 .. n : insts'[k].change = TableChange(k)'
    BY <1>2, <2>1 DEF TableChange
  <2>3. 0 <= n /\ \A k \in 1 .. n : ~(k <= 0)
    BY <1>2
  <2> QED
    BY <1>1, <1>2, <2>1, <2>2, <2>3 DEF EffectsInv, Disassembled
<1>6. CASE ReadString
  <2>1. phase = "string" /\ phase' \in {"read", "failed"} /\ it' = 0 /\ insts' = insts
    BY <1>2, <1>6 DEF ReadString, Fail
  <2>2. \A k \in 1 .. n : insts'[k].change = TableChange(k)'
    BY <1>2, <2>1 DEF TableChange
  <2> QED
    BY <1>1, <1>2, <2>1, <2>2 DEF EffectsInv, Disassembled
<1> QED
  BY <1>3, <1>4, <1>5, <1>6 DEF ReadWorld, EndWorld

LEMMA EffectsWhileFixing ==
  ASSUME ReadInv, EffectsInv, FixStackEffect
  PROVE  EffectsInv'
<1> DEFINE n == Len(insts)
           k == it + 1
           change == insts[k].change
           found == InstBefore(k, Nibble(change, \h100))
           fixed == StackEffect(change, insts[found].val)
<1>1. /\ IsScumm /\ IsScumm' /\ phase = "fix" /\ it \in Nat /\ it < n /\ n \in Nat
      /\ DOMAIN insts = 1 .. n /\ insts \in Seq(ToSet(insts)) /\ script' = script
  BY DEF ReadInv, FixStackEffect, IsScumm
<1>2. KnownInstructions
  BY <1>1, ScummInstructions
<1>3. \/ phase' = "fix" /\ it' = k /\ insts' = insts /\ ~Marked(change)
      \/ phase' = "fix" /\ it' = k /\ insts' = [insts EXCEPT ![k].change = fixed] /\ Marked(change)
      \/ phase' \in {"undefined", "failed"}
  BY <1>1 DEF FixStackEffect
<1> HIDE DEF fixed
<1>4. CASE phase' \in {"undefined", "failed"}
  BY <1>4 DEF EffectsInv, Disassembled
<1>5. ASSUME phase' = "fix", LengthsPushed'
      PROVE  /\ it' <= Len(insts')
             /\ \A j \in 1 .. Len(insts') :
                  insts'[j].change = IF j <= it' THEN EffectOf(j)' ELSE TableChange(j)'
  <2>1. it' = k /\ (insts' = insts \/ insts' = [insts EXCEPT ![k].change = fixed])
    BY <1>3, <1>5
  <2>2. DOMAIN insts' = DOMAIN insts /\ Len(insts') = n
    <3>1. insts = [j \in DOMAIN insts |-> insts[j]]
      BY <1>1
    <3>2. insts' = [j \in DOMAIN insts |-> insts'[j]]
      <4>1. CASE insts' = insts
        BY <3>1, <4>1
      <4>2. CASE insts' = [insts EXCEPT ![k].change = fixed]
        BY <4>2
      <4> QED
        BY <2>1, <4>1, <4>2
    <3> QED
      BY <1>1, <3>2, Rewritten
  <2>3. SameInstructions
    <3>1. ASSUME NEW j \in DOMAIN insts
          PROVE  insts'[j].op = insts[j].op /\ insts'[j].val = insts[j].val
      <4>1. insts'[j] = insts[j] \/ insts'[j] = [insts[j] EXCEPT !.change = fixed]
        BY <2>1
      <4>2. DOMAIN insts[j] = Entry
        BY <1>1, <1>2 DEF KnownInstructions
      <4> QED
        BY <4>1, <4>2 DEF Entry
    <3> QED
      BY <1>1, <2>2, <3>1 DEF SameInstructions
  <2>4. LengthsPushed
        /\ \A j \in 1 .. n : TableChange(j)' = TableChange(j) /\ EffectOf(j)' = EffectOf(j)
    BY <1>2, <1>5, <2>3, EffectsKept
  <2>5. \A j \in 1 .. n : insts[j].change = IF j <= it THEN EffectOf(j) ELSE TableChange(j)
    BY <1>1, <2>4 DEF EffectsInv
  <2>6. k \in 1 .. n /\ k \in Nat /\ change = TableChange(k)
    BY <1>1, <2>5
  <2>7. insts'[k].change = EffectOf(k)
    <3>1. CASE ~Marked(change)
      <4>1. insts' = insts
        BY <1>3, <1>5, <3>1
      <4>2. ~(TableChange(k) >= \h1000)
        BY <2>6, <3>1 DEF Marked
      <4> HIDE DEF k
      <4> QED
        BY <2>6, <4>1, <4>2 DEF EffectOf
    <3>2. CASE Marked(change)
      <4>1. TableChange(k) >= \h1000
        BY <2>6, <3>2 DEF Marked
      <4>2. insts' = [insts EXCEPT ![k].change = fixed]
        BY <1>3, <1>5, <3>2
      <4>3. found = k - Above(k) - 1
        <5>1. found = InstBefore(k, Above(k))
          BY <2>6 DEF Above
        <5>2. \A j \in 1 .. n : insts[j].op \in DOMAIN ScummOpcodeTable
          BY <1>2 DEF KnownInstructions
        <5> HIDE DEF k, found
        <5> QED
          BY <1>1, <2>4, <2>6, <4>1, <5>1, <5>2, LengthsAre
      <4>4. fixed = EffectOf(k)
        <5>1. fixed = StackEffect(TableChange(k), LengthAt(k))
          BY <2>6, <4>3 DEF fixed, LengthAt
        <5> HIDE DEF k
        <5> QED
          BY <4>1, <5>1 DEF EffectOf, EffectWith
      <4>5. "change" \in DOMAIN insts[k]
        BY <1>1, <1>2, <2>6 DEF KnownInstructions, Entry
      <4> HIDE DEF k
      <4> QED
        BY <1>1, <2>6, <4>2, <4>4, <4>5
    <3> QED
      BY <3>1, <3>2
  <2>8. \A j \in 1 .. n : j # k => insts'[j] = insts[j]
    BY <1>1, <2>1
  <2> HIDE DEF k, change
  <2>9. k = it + 1
    BY DEF k
  <2>10. ASSUME NEW j \in 1 .. n
         PROVE  insts'[j].change = IF j <= k THEN EffectOf(j) ELSE TableChange(j)
    <3>1. CASE j = k
      BY <2>6, <2>7, <3>1
    <3>2. CASE j # k
      <4>1. j <= k <=> j <= it
        BY <1>1, <2>9, <3>2
      <4> QED
        BY <2>5, <2>8, <3>2, <4>1
    <3> QED
      BY <3>1, <3>2
  <2>11. k <= n
    BY <2>6
  <2> QED
    BY <2>1, <2>2, <2>4, <2>10, <2>11
<1>6. CASE phase' = "fix"
  BY <1>5, <1>6 DEF EffectsInv, Disassembled
<1> QED
  BY <1>3, <1>4, <1>6

LEMMA EffectsWhileProcessing ==
  ASSUME ReadInv, EffectsInv, EndFix \/ ProcessInst \/ EndProcess \/ UNCHANGED stackVars
  PROVE  EffectsInv'
<1> DEFINE n == Len(insts)
<1>1. script' = script /\ insts' = insts /\ (IsScumm' <=> IsScumm)
  BY DEF EndFix, ProcessInst, EndProcess, stackVars, IsScumm
<1> SUFFICES ASSUME IsScumm PROVE EffectsInv'
  BY <1>1 DEF EffectsInv
<1>2. CASE UNCHANGED stackVars
  BY <1>2 DEF stackVars, EffectsInv, Disassembled, LengthsPushed, ClassOf, TableChange, EffectOf,
     LengthAt, Above, IsScumm
<1>3. CASE EndFix \/ ProcessInst \/ EndProcess
  <2>1. phase = "fix" \/ Disassembled
    BY <1>3 DEF EndFix, ProcessInst, EndProcess, Disassembled
  <2>2. KnownInstructions /\ SameInstructions
    BY <1>1, <2>1, ScummInstructions DEF SameInstructions
  <2>3. /\ phase' \in {"process", "done", "failed", "undefined"}
        /\ it \in Nat /\ n \in Nat
        /\ phase = "fix" => it = n /\ it' = 0
        /\ phase = "process" => it' = it \/ (it < n /\ it' = it + 1)
        /\ phase \in {"fix", "process"}
    <3>1. it \in Nat /\ n \in Nat
      BY DEF ReadInv
    <3>2. CASE EndFix
      BY <3>1, <3>2 DEF EndFix
    <3>3. CASE ProcessInst
      <4>1. phase = "process" /\ it < n
        BY <3>3 DEF ProcessInst
      <4>2. (phase' \in {"undefined", "failed"} /\ it' = it) \/ (it' = it + 1 /\ phase' = phase)
        BY <3>3 DEF ProcessInst
      <4> QED
        BY <3>1, <4>1, <4>2
    <3>4. CASE EndProcess
      BY <3>1, <3>4 DEF EndProcess
    <3> QED
      BY <1>3, <3>2, <3>3, <3>4
  <2>4. ASSUME LengthsPushed'
        PROVE  it' <= n /\ \A k \in 1 .. n : insts'[k].change = EffectOf(k)'
    <3>1. LengthsPushed /\ \A k \in 1 .. n : EffectOf(k)' = EffectOf(k)
      BY <2>2, <2>4, EffectsKept
    <3>2. it <= n
      BY <2>1, <2>3, <3>1 DEF EffectsInv, Disassembled
    <3>3. \A k \in 1 .. n : insts[k].change = EffectOf(k)
      <4>1. CASE phase = "fix"
        <5>1. \A k \in 1 .. n : k <= it
          BY <2>3, <4>1
        <5> QED
          BY <3>1, <4>1, <5>1 DEF EffectsInv
      <4>2. CASE phase = "process"
        BY <3>1, <4>2 DEF EffectsInv, Disassembled
      <4> QED
        BY <2>3, <4>1, <4>2
    <3>4. it' <= n
      BY <2>3, <3>2
    <3> QED
      BY <1>1, <3>1, <3>3, <3>4
  <2> QED
    BY <1>1, <2>3, <2>4 DEF EffectsInv, Disassembled
<1> QED
  BY <1>2, <1>3

LEMMA EffectsInvStep == ReadInv /\ EffectsInv /\ [StackCodeNext]_stackVars => EffectsInv'
BY EffectsWhileReading, EffectsWhileFixing, EffectsWhileProcessing DEF StackCodeNext, Disassemble

----------------------------------------------------------------------------
(***************************************************************************)
(* An instruction of a SCUMM script that is processed.                     *)
(***************************************************************************)
PushedBy(inst) == ScummResult(inst, Operands(inst).args, it + 1).pushed
LeftBy(inst) == Operands(inst).left

LEMMA OwnElements ==
  ASSUME NEW U, NEW c \in Seq(U)
  PROVE  c \in Seq(ToSet(c)) /\ ToSet(c) \subseteq U
BY DEF ToSet

LEMMA SoundJoined ==
  ASSUME NEW V, \A v \in V : Sound(v), NEW a \in Seq(V), NEW b, AllSound(b), NEW c, c = a \o b
  PROVE  /\ AllSound(c) /\ Len(c) = Len(a) + Len(b) /\ Len(a) \in Nat /\ Len(b) \in Nat
         /\ \A i \in 1 .. Len(a) : c[i] = a[i]
         /\ \A i \in 1 .. Len(b) : c[Len(a) + i] = b[i]
<1> DEFINE U == V \cup ToSet(b)
<1>1. a \in Seq(U) /\ b \in Seq(U) /\ \A v \in U : Sound(v)
  BY SeqMonotonic DEF AllSound
<1> HIDE DEF U
<1>2. /\ c \in Seq(U) /\ Len(c) = Len(a) + Len(b) /\ Len(a) \in Nat /\ Len(b) \in Nat
      /\ \A i \in 1 .. Len(a) : c[i] = a[i]
      /\ \A i \in 1 .. Len(c) : i > Len(a) => c[i] = b[i - Len(a)]
  BY <1>1, ConcatProperties, LenProperties
<1>3. AllSound(c)
  <2>1. c \in Seq(ToSet(c)) /\ ToSet(c) \subseteq U
    BY <1>2, OwnElements
  <2> QED
    BY <1>1, <2>1 DEF AllSound
<1>4. \A i \in 1 .. Len(b) : c[Len(a) + i] = b[i]
  <2>1. \A i \in 1 .. Len(b) : /\ Len(a) + i \in 1 .. Len(c) /\ Len(a) + i > Len(a)
                               /\ (Len(a) + i) - Len(a) = i
    BY <1>2
  <2> QED
    BY <1>2, <2>1
<1> QED
  BY <1>2, <1>3, <1>4

LEMMA ScummStep ==
  ASSUME ReadInv, IsScumm, ProcessInst, phase' = "process", AllSound(stack),
         NEW inst, inst = insts[it + 1], NEW v, v = ScummOpcodeTable[inst.op]
  PROVE  /\ it \in Nat /\ it + 1 \in 1 .. Len(insts) /\ it' = it + 1
         /\ script' = script /\ insts' = insts /\ phase = "process"
         /\ inst.op \in DOMAIN ScummOpcodeTable /\ inst.val \in Int
         /\ Operands(inst).defined
         /\ Operands(inst) \in TakenOf(ToSet(stack), ArgumentsOf(ToSet(stack), inst))
         /\ Pool(ToSet(stack), ArgumentsOf(ToSet(stack), inst), inst)
         /\ stack' = LeftBy(inst) \o PushedBy(inst)
         /\ AllSound(stack') /\ AllSound(PushedBy(inst)) /\ Len(PushedBy(inst)) = Pushed(v)
<1> DEFINE taken == Operands(inst)
           V == ToSet(stack)
           W == ArgumentsOf(V, inst)
           letters == LettersOf(inst)
<1>1. /\ phase = "process" /\ it \in Nat /\ it < Len(insts) /\ Len(insts) \in Nat
      /\ script' = script /\ insts' = insts
  BY DEF ReadInv, ProcessInst
<1>2. it + 1 \in 1 .. Len(insts) /\ KnownInstructions
  BY <1>1, ScummInstructions DEF Disassembled
<1>3. inst.op \in DOMAIN ScummOpcodeTable /\ inst.val \in Int
  BY <1>2 DEF KnownInstructions
<1>4. taken.defined /\ it' = it + 1 /\ stack' = taken.left \o PushedBy(inst)
  <2>1. taken.defined /\ \E result \in Results(inst, taken.args, it + 1) :
                           it' = it + 1 /\ stack' = taken.left \o result.pushed
    BY <1>1 DEF ProcessInst
  <2>2. Results(inst, taken.args, it + 1) = {ScummResult(inst, taken.args, it + 1)}
    BY DEF Results
  <2> QED
    BY <2>1, <2>2 DEF PushedBy
<1>5. stack \in Seq(V) /\ \A x \in V : Sound(x)
  BY DEF AllSound
<1>6. Pool(V, W, inst)
  BY <1>3, <1>5, PoolOfArguments
<1>7. letters \in Seq(Alphabet)
  BY <1>3, LettersOfScumm
<1>8. taken \in TakenOf(V, W)
  <2>1. PICK g : AllTaken(g, Len(letters), V, W) /\ taken = g[Len(letters)]
    BY <1>5, <1>6, <1>7, OperandsOneByOne
  <2>2. Len(letters) \in 0 .. Len(letters)
    BY <1>7
  <2> QED
    BY <2>1, <2>2 DEF AllTaken
<1>9. taken.args \in Seq(W) /\ taken.left \in Seq(V)
  BY <1>8 DEF TakenOf
<1>10. letters \in Seq({"p", "l"}) => Len(taken.args) = Len(letters)
  BY <1>4, <1>5, <1>6, ArgumentsCounted
<1>11. \A x \in W : Sound(x)
  BY <1>6 DEF Pool
<1> DEFINE from == it + 1
<1>12. from \in Nat
  BY <1>1
<1>13. Len(PushedBy(inst)) = Pushed(v) /\ AllSound(PushedBy(inst))
  <2>1. PushedBy(inst) = ScummResult(inst, taken.args, from).pushed
    BY DEF PushedBy
  <2> HIDE DEF taken, W, V, letters, from
  <2>2. LettersOf(inst) \in Seq({"p", "l"}) => Len(taken.args) = Len(LettersOf(inst))
    BY <1>10 DEF letters
  <2> QED
    BY <1>3, <1>9, <1>11, <1>12, <2>1, <2>2, ResultsOfScumm
<1>14. AllSound(stack')
  BY <1>4, <1>5, <1>9, <1>13, SoundJoined
<1> QED
  BY <1>1, <1>2, <1>3, <1>4, <1>6, <1>8, <1>13, <1>14 DEF LeftBy

----------------------------------------------------------------------------
(***************************************************************************)
(* The loads processed last: their values are on the top of the stack.     *)
(***************************************************************************)
LoadsFrom(m) == \A i \in m .. it : ClassOf(insts[i]) \in PlainLoads

LoadsInv ==
  \A m \in 1 .. it : LoadsFrom(m) =>
    /\ Len(stack) > it - m
    /\ ClassOf(insts[m]) = "Push" => stack[Len(stack) - (it - m)].lead = <<insts[m].val>>

StackInv ==
  IsScumm /\ Disassembled => AllSound(stack) /\ LoadsInv

LEMMA LoadPushes ==
  ASSUME ReadInv, IsScumm, ProcessInst, phase' = "process", AllSound(stack),
         NEW inst, inst = insts[it + 1], ClassOf(inst) \in PlainLoads
  PROVE  /\ Len(stack) \in Nat /\ Len(stack') = Len(stack) + 1
         /\ \A i \in 1 .. Len(stack) : stack'[i] = stack[i]
         /\ ClassOf(inst) = "Push" => stack'[Len(stack) + 1].lead = <<inst.val>>
<1> DEFINE V == ToSet(stack)
           W == ArgumentsOf(V, inst)
           v == ScummOpcodeTable[inst.op]
           pushed == PushedBy(inst)
<1>1. /\ inst.op \in DOMAIN ScummOpcodeTable /\ inst.val \in Int /\ Pool(V, W, inst)
      /\ stack' = LeftBy(inst) \o pushed /\ AllSound(pushed) /\ Len(pushed) = Pushed(v)
  BY ScummStep
<1>2. stack \in Seq(V) /\ \A x \in V : Sound(x)
  BY DEF AllSound
<1>3. v.class = ClassOf(inst) /\ LettersOf(inst) = EntryLetters(v)
  BY <1>1, LettersOfScumm
<1>4. LettersOf(inst) = <<>> /\ Pushed(v) = 1
  BY <1>3 DEF EntryLetters, Pushed, PlainLoads
<1>5. LeftBy(inst) = stack
  <2>1. <<>> \in Seq(Alphabet) /\ Len(<<>>) = 0
    BY EmptySeq
  <2> DEFINE letters == <<>>
  <2> HIDE DEF letters, W, V
  <2>2. PICK g : LetterByLetter(g, letters, inst) /\ Operands(inst) = g[Len(letters)]
    BY <1>1, <1>2, <1>4, <2>1, OperandsOneByOne DEF letters
  <2>3. Operands(inst) = Taken(stack, <<>>)
    BY <2>1, <2>2 DEF LetterByLetter, letters
  <2> QED
    BY <2>3 DEF LeftBy, Taken
<1> HIDE DEF V, W, v, pushed
<1>6. /\ Len(stack') = Len(stack) + Len(pushed) /\ Len(stack) \in Nat
      /\ \A i \in 1 .. Len(stack) : stack'[i] = stack[i]
      /\ \A i \in 1 .. Len(pushed) : stack'[Len(stack) + i] = pushed[i]
  BY <1>1, <1>2, <1>5, SoundJoined
<1>7. Len(pushed) = 1
  BY <1>1, <1>4
<1>8. stack'[Len(stack) + 1] = pushed[1]
  BY <1>6, <1>7
<1>9. ASSUME ClassOf(inst) = "Push" PROVE pushed[1].lead = <<inst.val>>
  <2>1. pushed = <<IntValue(inst.val, <<it + 1>>)>>
    BY <1>9 DEF pushed, PushedBy, ScummResult, Result
  <2>2. pushed[1] = IntValue(inst.val, <<it + 1>>)
    BY <2>1
  <2>3. \A word, lead, from : Atom(word, lead, from).lead = lead
    BY DEF Atom
  <2> QED
    BY <2>2, <2>3 DEF IntValue
<1> QED
  BY <1>6, <1>7, <1>8, <1>9

LEMMA StackInvWhileProcessing ==
  ASSUME ReadInv, StackInv, ProcessInst
  PROVE  StackInv'
<1> SUFFICES ASSUME IsScumm', Disassembled' PROVE AllSound(stack') /\ LoadsInv'
  BY DEF StackInv
<1>1. IsScumm /\ Disassembled /\ phase' = "process"
  <2>1. phase = "process" /\ script' = script /\ phase' \in {"undefined", "failed", phase}
    BY DEF ProcessInst
  <2> QED
    BY <2>1 DEF IsScumm, Disassembled
<1>2. AllSound(stack) /\ LoadsInv
  BY <1>1 DEF StackInv
<1> DEFINE inst == insts[it + 1]
<1>3. it \in Nat /\ it' = it + 1 /\ script' = script /\ insts' = insts /\ AllSound(stack')
  BY <1>1, <1>2, ScummStep
<1>4. \A j : ClassOf(insts[j])' = ClassOf(insts[j])
  BY <1>3 DEF ClassOf
<1>5. ASSUME NEW m \in 1 .. it + 1, \A i \in m .. it + 1 : ClassOf(insts[i]) \in PlainLoads
      PROVE  /\ Len(stack') > (it + 1) - m
             /\ ClassOf(insts[m]) = "Push" =>
                  stack'[Len(stack') - ((it + 1) - m)].lead = <<insts[m].val>>
  <2>1. ClassOf(inst) \in PlainLoads
    BY <1>3, <1>5
  <2>2. /\ Len(stack) \in Nat /\ Len(stack') = Len(stack) + 1
        /\ \A i \in 1 .. Len(stack) : stack'[i] = stack[i]
        /\ ClassOf(inst) = "Push" => stack'[Len(stack) + 1].lead = <<inst.val>>
    BY <1>1, <1>2, <2>1, LoadPushes
  <2>3. CASE m = it + 1
    <3>1. (it + 1) - m = 0 /\ Len(stack') - 0 = Len(stack) + 1
      BY <1>3, <2>2, <2>3
    <3> QED
      BY <2>2, <2>3, <3>1
  <2>4. CASE m # it + 1
    <3>1. m \in 1 .. it /\ LoadsFrom(m)
      BY <1>3, <1>5, <2>4 DEF LoadsFrom
    <3>2. /\ Len(stack) > it - m
          /\ ClassOf(insts[m]) = "Push" => stack[Len(stack) - (it - m)].lead = <<insts[m].val>>
      BY <1>2, <3>1 DEF LoadsInv
    <3> DEFINE at == Len(stack) - (it - m)
    <3>3. at \in 1 .. Len(stack) /\ Len(stack') - ((it + 1) - m) = at /\ Len(stack') > (it + 1) - m
      BY <1>3, <2>2, <3>1, <3>2
    <3> HIDE DEF at
    <3>4. stack'[at] = stack[at]
      BY <2>2, <3>3
    <3> QED
      BY <3>2, <3>3, <3>4 DEF at
  <2> QED
    BY <2>3, <2>4
<1>6. LoadsInv'
  BY <1>3, <1>4, <1>5 DEF LoadsInv, LoadsFrom
<1> QED
  BY <1>3, <1>6

LEMMA StackInvStep == ReadInv /\ StackInv /\ [StackCodeNext]_stackVars => StackInv'
<1> SUFFICES ASSUME ReadInv, StackInv, [StackCodeNext]_stackVars PROVE StackInv'
  OBVIOUS
<1>1. CASE ProcessInst
  BY <1>1, StackInvWhileProcessing
<1>2. CASE Disassemble /\ UNCHANGED <<stack, lines>>
  <2>1. ASSUME IsScumm', Disassembled' PROVE stack' = <<>> /\ it' = 0
    <3>1. EndFix
      BY <1>2, <2>1 DEF Disassemble, ReadHeader, ReadScumm, ReadString, ReadWorld, ReadOpcode, EndScumm, EndWorld,
         FixStackEffect, Fail, Disassembled, IsScumm
    <3>2. phase = "fix" /\ it' = 0
      BY <3>1 DEF EndFix
    <3> QED
      BY <1>2, <3>2 DEF ReadInv
  <2>2. ASSUME stack' = <<>>, it' = 0 PROVE AllSound(stack') /\ LoadsInv'
    <3>1. AllSound(stack')
      BY <2>2, SoundOnes
    <3>2. \A m \in 1 .. it' : FALSE
      BY <2>2
    <3> QED
      BY <3>1, <3>2 DEF LoadsInv
  <2> QED
    BY <2>1, <2>2 DEF StackInv
<1>3. CASE EndProcess \/ UNCHANGED stackVars
  <2>1. script' = script /\ insts' = insts /\ it' = it /\ stack' = stack
        /\ (Disassembled' => Disassembled)
    BY <1>3 DEF EndProcess, stackVars, Disassembled
  <2>2. (IsScumm' <=> IsScumm) /\ (LoadsInv' <=> LoadsInv)
    BY <2>1 DEF IsScumm, LoadsInv, LoadsFrom, ClassOf
  <2> QED
    BY <2>1, <2>2 DEF StackInv
<1> QED
  BY <1>1, <1>2, <1>3 DEF StackCodeNext

----------------------------------------------------------------------------
(***************************************************************************)
(* The stack level is the number of values on the stack.                   *)
(***************************************************************************)
LEMMA EmptyPrefix ==
  ASSUME NEW V, NEW s \in Seq(V)
  PROVE  SubSeq(s, 1, 0) = <<>>
OBVIOUS

LEMMA LevelIs == Level = ChangesOf(SubSeq(insts, 1, it))
BY DEF Level, ChangesOf

LEMMA LevelIsNext == Level' = ChangesOf(SubSeq(insts', 1, it'))
<1>1. (Level = ChangesOf(SubSeq(insts, 1, it)))'
  BY LevelIs, PTL
<1> QED
  BY <1>1

\* The list that the instruction processed next takes, if it takes one, has the length
\* that its effect has been fixed with.
LEMMA NextList ==
  ASSUME KnownInstructions, LengthsPushed, LoadsInv, Len(stack) \in Nat,
         it \in Nat, NEW k, k = it + 1, k \in 1 .. Len(insts),
         TableChange(k) >= \h1000
  PROVE  LengthAt(k) \in 0 .. LongestList /\ ListHas(TableChange(k), LengthAt(k))
<1> DEFINE above == Above(k)
           m == k - above - 1
<1>1. /\ IsScumm /\ Len(insts) \in Nat /\ DOMAIN insts = 1 .. Len(insts)
      /\ \A j \in 1 .. Len(insts) : insts[j].op \in DOMAIN ScummOpcodeTable /\ insts[j].val \in Int
  BY DEF KnownInstructions
<1>h. above = Above(k)
  OBVIOUS
<1>3. LengthAt(k) = insts[m].val
  BY DEF LengthAt
<1> HIDE DEF above
<1>2. /\ above \in Nat /\ k > above + 1 /\ m \in 1 .. Len(insts)
      /\ ClassOf(insts[m]) = "Push" /\ insts[m].val \in 0 .. LongestList
      /\ \A j \in k - above .. k - 1 : ClassOf(insts[j]) \in PlainLoads
  <2>1. LET n == k - above - 1
        IN /\ above \in Nat /\ k > above + 1 /\ n \in 1 .. Len(insts)
           /\ ClassOf(insts[n]) = "Push" /\ insts[n].val \in 0 .. LongestList
           /\ \A j \in k - above .. k - 1 : ClassOf(insts[j]) \in PlainLoads
    BY <1>1, <1>h, LengthsAre
  <2> QED
    BY <2>1
<1>4. m \in 1 .. it /\ it - m = above
  BY <1>2
<1>5. LoadsFrom(m)
  <2>1. \A i \in m .. it : i = m \/ i \in k - above .. k - 1
    BY <1>2
  <2>2. "Push" \in PlainLoads
    BY DEF PlainLoads
  <2> HIDE DEF m
  <2>3. ASSUME NEW i \in m .. it PROVE ClassOf(insts[i]) \in PlainLoads
    BY <1>2, <2>1, <2>2
  <2> QED
    BY <2>3 DEF LoadsFrom
<1> HIDE DEF m
<1>6. above < Len(stack) /\ stack[Len(stack) - above].lead = <<insts[m].val>>
  BY <1>2, <1>4, <1>5 DEF LoadsInv
<1>7. insts[m].val \in Nat
  <2>1. \A n \in 0 .. LongestList : n \in Nat
    OBVIOUS
  <2> QED
    BY <1>2, <2>1
<1>8. ASSUME NEW value, NEW n \in Nat, value.lead = <<n>> PROVE ListLength(value) = n
  BY <1>8 DEF ListLength, NoNumber
<1>9. ListLength(stack[Len(stack) - above]) = insts[m].val
  BY <1>6, <1>7, <1>8
<1>10. LengthAt(k) \in 0 .. LongestList
  BY <1>2, <1>3
<1>11. ListHas(TableChange(k), LengthAt(k))
  <2> DEFINE change == TableChange(k)
  <2>1. Nibble(change, \h100) = above
    BY <1>h DEF Above
  <2> HIDE DEF change
  <2>2. ListHas(change, LengthAt(k))
    BY <1>3, <1>6, <1>9, <2>1 DEF ListHas
  <2> QED
    BY <2>2 DEF change
<1> QED
  BY <1>10, <1>11

LEMMA OneLevel ==
  ASSUME ReadInv, EffectsInv, StackInv, IsScumm, LengthsPushed, ProcessInst, phase' = "process"
  PROVE  Len(stack) \in Nat /\ Len(stack') = Len(stack) + insts[it + 1].change
         /\ insts[it + 1].change \in Int
<1> DEFINE k == it + 1
           inst == insts[k]
           v == ScummOpcodeTable[inst.op]
           change == v.change
           V == ToSet(stack)
           W == ArgumentsOf(V, inst)
           length == IF change >= \h1000 THEN LengthAt(k) ELSE 0
           pushed == PushedBy(inst)
<1>1. phase = "process" /\ Disassembled
  BY DEF ProcessInst, Disassembled
<1>2. AllSound(stack) /\ LoadsInv
  BY <1>1 DEF StackInv
<1>3. /\ it \in Nat /\ k \in 1 .. Len(insts)
      /\ inst.op \in DOMAIN ScummOpcodeTable /\ Operands(inst).defined
      /\ Operands(inst) \in TakenOf(V, W) /\ Pool(V, W, inst)
      /\ stack' = LeftBy(inst) \o pushed /\ AllSound(pushed) /\ Len(pushed) = Pushed(v)
  BY <1>2, ScummStep
<1>4. stack \in Seq(V) /\ Len(stack) \in Nat /\ \A x \in V : Sound(x)
  BY <1>2 DEF AllSound
<1>5. KnownInstructions
  BY <1>1, ScummInstructions
<1>6. inst.op \notin WrongEffects /\ change = TableChange(k)
  <2>1. DOMAIN insts = 1 .. Len(insts)
    BY <1>5 DEF KnownInstructions
  <2> QED
    BY <1>3, <2>1 DEF LengthsPushed, TableChange
<1>7. LettersAdd(LettersOf(inst), change, Pushed(v)) /\ change \in Int
  BY <1>3, <1>6, LettersOfScumm
<1>8. length \in Nat /\ length <= LongestList /\ ListHas(change, length)
  <2>a. \A n \in 0 .. LongestList : n \in Nat /\ n <= LongestList
    BY DEF LongestList
  <2>1. CASE change >= \h1000
    <3> HIDE DEF k, change
    <3>1. LengthAt(k) \in 0 .. LongestList /\ ListHas(TableChange(k), LengthAt(k))
      BY <1>2, <1>3, <1>4, <1>5, <1>6, <2>1, NextList DEF k
    <3> QED
      BY <1>6, <2>a, <2>1, <3>1
  <2>2. CASE ~(change >= \h1000)
    BY <2>2 DEF ListHas, LongestList
  <2> QED
    BY <2>1, <2>2
<1>9. inst.change = EffectWith(change, length)
  <2>1. inst.change = EffectOf(k)
    BY <1>1, <1>3 DEF EffectsInv
  <2> HIDE DEF k, inst, change
  <2> QED
    BY <1>6, <2>1 DEF EffectOf, EffectWith
<1>10. Pushed(v) \in Nat /\ Len(LeftBy(inst)) \in Nat /\ LeftBy(inst) \in Seq(V)
  <2>1. LeftBy(inst) \in Seq(V)
    BY <1>3 DEF TakenOf, LeftBy
  <2>2. Len(pushed) \in Nat
    <3> HIDE DEF pushed
    <3> QED
      BY <1>3 DEF AllSound
  <2> QED
    BY <1>3, <2>1, <2>2
<1> HIDE DEF k, v, change, V, W, length, pushed
<1>11. PICK n \in Nat : /\ Took(Taken(stack, <<>>), Operands(inst), n)
                        /\ EffectWith(change, length) = Pushed(v) - n
  <2> DEFINE letters == LettersOf(inst)
             more == Pushed(v)
  <2>1. LettersAdd(letters, change, more) /\ more \in Nat /\ letters = LettersOf(inst)
    BY <1>7, <1>10
  <2> HIDE DEF letters, more, inst
  <2>2. \E n \in Nat : Took(Taken(stack, <<>>), Operands(inst), n)
                       /\ EffectWith(change, length) = more - n
    BY <1>3, <1>4, <1>7, <1>8, <2>1, OperandsTake
  <2> QED
    BY <2>2 DEF more
<1>12. Len(LeftBy(inst)) = Len(stack) - n
  <2>1. Taken(stack, <<>>).left = stack
    BY DEF Taken
  <2> QED
    BY <1>11, <2>1 DEF Took, LeftBy
<1>13. Len(stack') = Len(LeftBy(inst)) + Len(pushed)
  <2> HIDE DEF inst
  <2> QED
    BY <1>3, <1>4, <1>10, SoundJoined
<1> HIDE DEF inst
<1>14. Len(stack') = Len(stack) + inst.change /\ inst.change \in Int
  BY <1>3, <1>4, <1>9, <1>10, <1>11, <1>12, <1>13
<1> QED
  BY <1>4, <1>14 DEF inst, k

\* Effects that are fixed are numbers.
LEMMA ChangesAreIntegers ==
  ASSUME ReadInv, EffectsInv, IsScumm, Disassembled, LengthsPushed
  PROVE  \A k \in 1 .. Len(insts) : insts[k].change \in Int
<1>1. KnownInstructions
  BY ScummInstructions
<1> SUFFICES ASSUME NEW k \in 1 .. Len(insts) PROVE insts[k].change \in Int
  OBVIOUS
<1>2. insts[k].change = EffectOf(k)
  BY DEF EffectsInv
<1>3. TableChange(k) \in Int
  BY <1>1, ScummEntriesOfTable DEF KnownInstructions, ScummEntriesOf, ScummEntry, TableChange
<1>4. ASSUME TableChange(k) >= \h1000 PROVE LengthAt(k) \in Int
  <2> DEFINE above == Above(k)
             m == k - above - 1
  <2>1. m \in 1 .. Len(insts)
    BY <1>1, <1>4, LengthsAre DEF KnownInstructions
  <2>2. LengthAt(k) = insts[m].val
    BY DEF LengthAt
  <2> HIDE DEF m
  <2> QED
    BY <1>1, <2>1, <2>2 DEF KnownInstructions
<1>5. ASSUME NEW change \in Int, NEW length \in Int PROVE EffectWith(change, length) \in Int
  <2> DEFINE n == Nibble(change, 1) - Nibble(change, \h10) - Nibble(change, \h100) - (length + 1)
  <2>0. Nibble(change, 1) \in Nat /\ Nibble(change, \h10) \in Nat /\ Nibble(change, \h100) \in Nat
    BY NibblesOf
  <2>1. n \in Int
    BY <2>0
  <2>2. StackEffect(change, length) = Int16(n)
    BY DEF StackEffect
  <2> HIDE DEF n
  <2>3. StackEffect(change, length) \in Int
    BY <2>1, <2>2, OfSixteenBits
  <2> QED
    BY <2>3 DEF EffectWith
<1> QED
  BY <1>2, <1>3, <1>4, <1>5 DEF EffectOf

LEMMA LevelStep ==
  ASSUME ReadInv, EffectsInv, StackInv, LevelsTracked, ProcessInst
  PROVE  LevelsTracked'
<1> SUFFICES ASSUME IsScumm', Disassembled', LengthsPushed' PROVE Level' = Len(stack')
  BY DEF LevelsTracked
<1>1. IsScumm /\ Disassembled /\ phase' = "process" /\ phase = "process"
  <2>1. phase = "process" /\ script' = script /\ phase' \in {"undefined", "failed", phase}
    BY DEF ProcessInst
  <2> QED
    BY <2>1 DEF IsScumm, Disassembled
<1>2. script' = script /\ insts' = insts
  BY DEF ProcessInst
<1>3. LengthsPushed
  <2>1. KnownInstructions /\ SameInstructions
    BY <1>1, <1>2, ScummInstructions DEF SameInstructions
  <2> QED
    BY <2>1, EffectsKept
<1>4. Level = Len(stack)
  BY <1>1, <1>3 DEF LevelsTracked
<1>5. Len(stack) \in Nat /\ Len(stack') = Len(stack) + insts[it + 1].change
  BY <1>1, <1>3, OneLevel
<1> DEFINE n == it + 1
           V == ToSet(insts)
<1>6. it \in Nat /\ n <= Len(insts) /\ it' = n /\ insts \in Seq(V) /\ Len(insts) \in Nat
  <2>1. it < Len(insts) /\ it' = it + 1
    BY <1>1 DEF ProcessInst
  <2> QED
    BY <2>1 DEF ReadInv
<1>7. \A k \in 1 .. Len(insts) : insts[k].change \in Int
  BY <1>1, <1>2, <1>3, ChangesAreIntegers
<1>8. ChangesOf(SubSeq(insts, 1, n)) = ChangesOf(SubSeq(insts, 1, it)) + insts[n].change
  <2> HIDE DEF V, n
  <2>1. n = it + 1
    BY DEF n
  <2> QED
    BY <1>6, <1>7, <2>1, LevelGrows
<1>9. Level' = ChangesOf(SubSeq(insts, 1, n))
  <2>1. Level' = ChangesOf(SubSeq(insts', 1, it'))
    BY LevelIsNext
  <2> QED
    BY <1>2, <1>6, <2>1
<1> QED
  BY <1>4, <1>5, <1>8, <1>9, LevelIs

LEMMA LevelsTrackedStep ==
  ReadInv /\ EffectsInv /\ StackInv /\ LevelsTracked /\ [StackCodeNext]_stackVars => LevelsTracked'
<1> SUFFICES ASSUME ReadInv, EffectsInv, StackInv, LevelsTracked, [StackCodeNext]_stackVars
             PROVE  LevelsTracked'
  OBVIOUS
<1>1. CASE ProcessInst
  BY <1>1, LevelStep
<1>2. CASE Disassemble /\ UNCHANGED <<stack, lines>>
  <2> SUFFICES ASSUME IsScumm', Disassembled' PROVE Level' = Len(stack')
    BY DEF LevelsTracked
  <2>1. EndFix
    BY <1>2 DEF Disassemble, ReadHeader, ReadScumm, ReadString, ReadWorld, ReadOpcode, EndScumm, EndWorld,
       FixStackEffect, Fail, Disassembled, IsScumm
  <2>2. stack' = <<>> /\ it' = 0 /\ insts' = insts
    BY <1>2, <2>1 DEF ReadInv, EndFix
  <2>3. Level' = ChangesOf(SubSeq(insts', 1, it'))
    BY LevelIsNext
  <2>4. SubSeq(insts, 1, 0) = <<>>
    <3>1. insts \in Seq(ToSet(insts)) /\ Len(insts) \in Nat
      BY DEF ReadInv
    <3> QED
      BY <3>1, EmptyPrefix
  <2> QED
    BY <2>2, <2>3, <2>4, NoChanges, EmptySeq
<1>3. CASE EndProcess \/ UNCHANGED stackVars
  <2>1. script' = script /\ insts' = insts /\ it' = it /\ stack' = stack
        /\ (Disassembled' => Disassembled)
    BY <1>3 DEF EndProcess, stackVars, Disassembled
  <2>2. (IsScumm' <=> IsScumm) /\ (LengthsPushed' <=> LengthsPushed) /\ Level' = Level
    <3>1. Level' = Level
      BY <2>1, LevelIs, LevelIsNext
    <3> QED
      BY <2>1, <3>1 DEF IsScumm, LengthsPushed, ClassOf
  <2> QED
    BY <2>1, <2>2 DEF LevelsTracked
<1> QED
  BY <1>1, <1>2, <1>3 DEF StackCodeNext

\* The stack effects by which stack levels are counted add up to the number of values on
\* the stack, for every SCUMM script and at every instruction of it, as long as the length
\* of every list is pushed just before it and fits the effect (fixStackEffects and the table of
\* scummv6/disassembler.cpp, against the processInst of each instruction).
THEOREM LevelsAreTracked == StackCodeSpec => []LevelsTracked
<1> DEFINE Inv == ReadInv /\ EffectsInv /\ StackInv /\ LevelsTracked
<1>1. StackCodeInit => Inv
  <2> SUFFICES ASSUME StackCodeInit PROVE EffectsInv /\ StackInv /\ LevelsTracked
    BY ReadInvInit
  <2>1. phase = "header"
    BY DEF StackCodeInit, StackInit
  <2> QED
    BY <2>1, EffectsInit DEF StackInv, LevelsTracked, Disassembled
<1>2. Inv /\ [StackCodeNext]_stackVars => Inv'
  BY ReadInvStep, EffectsInvStep, StackInvStep, LevelsTrackedStep
<1>3. Inv => LevelsTracked
  OBVIOUS
<1> QED
  BY <1>1, <1>2, <1>3, PTL DEF StackCodeSpec

----------------------------------------------------------------------------
(***************************************************************************)
(* Sequences of numbers that ascend, or in which no number occurs twice.   *)
(***************************************************************************)
LEMMA JoinedPlaces ==
  ASSUME NEW S, NEW a \in Seq(S), NEW b \in Seq(S), NEW c, c = a \o b
  PROVE  /\ c \in Seq(S) /\ Len(c) = Len(a) + Len(b) /\ Len(a) \in Nat /\ Len(b) \in Nat
         /\ \A i \in 1 .. Len(a) : i \in 1 .. Len(c) /\ c[i] = a[i]
         /\ \A i \in 1 .. Len(b) : Len(a) + i \in 1 .. Len(c) /\ c[Len(a) + i] = b[i]
         /\ \A i \in 1 .. Len(c) : \/ i \in 1 .. Len(a)
                                   \/ i > Len(a) /\ i - Len(a) \in 1 .. Len(b) /\ c[i] = b[i - Len(a)]
<1>1. /\ c \in Seq(S) /\ Len(c) = Len(a) + Len(b) /\ Len(a) \in Nat /\ Len(b) \in Nat
      /\ \A i \in 1 .. Len(a) + Len(b) : c[i] = IF i <= Len(a) THEN a[i] ELSE b[i - Len(a)]
  BY ConcatProperties, LenProperties
<1>2. \A i \in 1 .. Len(a) : i \in 1 .. Len(c) /\ c[i] = a[i]
  BY <1>1
<1>3. \A i \in 1 .. Len(b) : Len(a) + i \in 1 .. Len(c) /\ c[Len(a) + i] = b[i]
  <2> TAKE i \in 1 .. Len(b)
  <2>1. Len(a) + i \in 1 .. Len(a) + Len(b) /\ ~(Len(a) + i <= Len(a)) /\ (Len(a) + i) - Len(a) = i
    BY <1>1
  <2> QED
    BY <1>1, <2>1
<1>4. \A i \in 1 .. Len(c) : \/ i \in 1 .. Len(a)
                             \/ i > Len(a) /\ i - Len(a) \in 1 .. Len(b) /\ c[i] = b[i - Len(a)]
  BY <1>1
<1> QED
  BY <1>1, <1>2, <1>3, <1>4

LEMMA SetJoined ==
  ASSUME NEW S, NEW a \in Seq(S), NEW b \in Seq(S)
  PROVE  ToSet(a \o b) = ToSet(a) \cup ToSet(b)
<1> DEFINE c == a \o b
<1>1. /\ c \in Seq(S) /\ Len(a) \in Nat
      /\ \A i \in 1 .. Len(a) : i \in 1 .. Len(c) /\ c[i] = a[i]
      /\ \A i \in 1 .. Len(b) : Len(a) + i \in 1 .. Len(c) /\ c[Len(a) + i] = b[i]
      /\ \A i \in 1 .. Len(c) : \/ i \in 1 .. Len(a)
                                \/ i > Len(a) /\ i - Len(a) \in 1 .. Len(b) /\ c[i] = b[i - Len(a)]
  BY JoinedPlaces
<1> HIDE DEF c
<1>2. /\ ToSet(c) = {c[i] : i \in 1 .. Len(c)} /\ ToSet(a) = {a[i] : i \in 1 .. Len(a)}
      /\ ToSet(b) = {b[i] : i \in 1 .. Len(b)}
  BY <1>1, LenProperties DEF ToSet
<1>3. ASSUME NEW i \in 1 .. Len(c) PROVE c[i] \in ToSet(a) \cup ToSet(b)
  BY <1>1, <1>2
<1>4. ASSUME NEW i \in 1 .. Len(a) PROVE a[i] \in ToSet(c)
  BY <1>1, <1>2
<1>5. ASSUME NEW i \in 1 .. Len(b) PROVE b[i] \in ToSet(c)
  <2>1. Len(a) + i \in 1 .. Len(c) /\ c[Len(a) + i] = b[i]
    BY <1>1
  <2> QED
    BY <2>1, <1>2
<1>6. ToSet(c) \subseteq ToSet(a) \cup ToSet(b)
  BY <1>2, <1>3
<1>7. ToSet(a) \subseteq ToSet(c)
  BY <1>2, <1>4
<1>8. ToSet(b) \subseteq ToSet(c)
  BY <1>2, <1>5
<1>9. ToSet(c) = ToSet(a) \cup ToSet(b)
  BY <1>6, <1>7, <1>8
<1> QED
  BY <1>9 DEF c

LEMMA FewNumbers ==
  /\ ToSet(<<>>) = {} /\ IsInjective(<<>>) /\ Ascending(<<>>) /\ <<>> \in Seq(Nat)
  /\ \A n \in Nat : /\ ToSet(<<n>>) = {n} /\ IsInjective(<<n>>) /\ Ascending(<<n>>)
                    /\ <<n>> \in Seq(Nat)
<1>1. ToSet(<<>>) = {} /\ IsInjective(<<>>) /\ Ascending(<<>>) /\ <<>> \in Seq(Nat)
  BY EmptySeq DEF ToSet, IsInjective, Ascending
<1>2. ASSUME NEW n \in Nat
      PROVE  ToSet(<<n>>) = {n} /\ IsInjective(<<n>>) /\ Ascending(<<n>>) /\ <<n>> \in Seq(Nat)
  BY DEF ToSet, IsInjective, Ascending
<1> QED
  BY <1>1, <1>2

LEMMA AscendingParts ==
  ASSUME NEW a \in Seq(Nat), NEW b \in Seq(Nat), Ascending(a \o b)
  PROVE  Ascending(a) /\ Ascending(b)
<1> DEFINE c == a \o b
<1>1. /\ c \in Seq(Nat) /\ Len(c) = Len(a) + Len(b) /\ Len(a) \in Nat /\ Len(b) \in Nat
      /\ \A i \in 1 .. Len(a) : i \in 1 .. Len(c) /\ c[i] = a[i]
      /\ \A i \in 1 .. Len(b) : Len(a) + i \in 1 .. Len(c) /\ c[Len(a) + i] = b[i]
  BY JoinedPlaces
<1>2. \A i \in 1 .. Len(c) - 1 : c[i] <= c[i + 1]
  BY DEF Ascending
<1> HIDE DEF c
<1>3. ASSUME NEW i \in 1 .. Len(a) - 1 PROVE a[i] <= a[i + 1]
  <2>1. i \in 1 .. Len(c) - 1 /\ i \in 1 .. Len(a) /\ i + 1 \in 1 .. Len(a)
    BY <1>1
  <2> QED
    BY <1>1, <1>2, <2>1
<1>4. ASSUME NEW i \in 1 .. Len(b) - 1 PROVE b[i] <= b[i + 1]
  <2> DEFINE k == Len(a) + i
  <2>1. k \in 1 .. Len(c) - 1 /\ i \in 1 .. Len(b) /\ i + 1 \in 1 .. Len(b) /\ k + 1 = Len(a) + (i + 1)
    BY <1>1
  <2>2. c[k] = b[i]
    BY <1>1, <2>1
  <2>3. c[k + 1] = b[i + 1]
    BY <1>1, <2>1
  <2> HIDE DEF k
  <2> QED
    BY <1>2, <2>1, <2>2, <2>3
<1> QED
  BY <1>3, <1>4 DEF Ascending

Single(b, n) == Len(b) = 1 /\ b[1] = n
NoneAbove(a, n) == \A k \in ToSet(a) : k <= n

LEMMA AscendingNext ==
  ASSUME NEW a \in Seq(Nat), Ascending(a), NEW n \in Nat, NoneAbove(a, n),
         NEW b \in Seq(Nat), Single(b, n)
  PROVE  Ascending(a \o b)
<1> DEFINE c == a \o b
<1>2. /\ c \in Seq(Nat) /\ Len(c) = Len(a) + Len(b) /\ Len(a) \in Nat /\ Len(b) \in Nat
      /\ \A i \in 1 .. Len(a) : i \in 1 .. Len(c) /\ c[i] = a[i]
      /\ \A i \in 1 .. Len(b) : Len(a) + i \in 1 .. Len(c) /\ c[Len(a) + i] = b[i]
  BY JoinedPlaces
<1>1. b \in Seq(Nat) /\ Len(b) = 1 /\ b[1] = n
  BY DEF Single
<1>3. \A i \in 1 .. Len(a) - 1 : a[i] <= a[i + 1]
  BY DEF Ascending
<1>4. \A i \in 1 .. Len(a) : a[i] <= n
  <2>1. \A i \in 1 .. Len(a) : a[i] \in ToSet(a)
    BY DEF ToSet
  <2> QED
    BY <2>1 DEF NoneAbove
<1>5. ASSUME NEW i \in 1 .. Len(c) - 1 PROVE c[i] <= c[i + 1]
  <2>1. CASE i < Len(a)
    <3>1. i \in 1 .. Len(a) - 1 /\ i \in 1 .. Len(a) /\ i + 1 \in 1 .. Len(a)
      BY <1>2, <2>1
    <3> QED
      BY <1>2, <1>3, <3>1
  <2>2. CASE ~(i < Len(a))
    <3>1. i = Len(a) /\ i \in 1 .. Len(a) /\ 1 \in 1 .. Len(b)
      BY <1>1, <1>2, <2>2
    <3>2. c[i + 1] = n
      BY <1>1, <1>2, <3>1
    <3> QED
      BY <1>2, <1>4, <3>1, <3>2
  <2> QED
    BY <2>1, <2>2
<1> QED
  BY <1>5 DEF Ascending, c

\* A sequence of one number or none may be there twice.
LEMMA AscendingTwice ==
  ASSUME NEW a \in Seq(Nat), NEW b \in Seq(Nat), Len(b) <= 1, Ascending(a \o b)
  PROVE  Ascending((a \o b) \o b)
<1> DEFINE c == a \o b
           d == c \o b
<1>1. /\ c \in Seq(Nat) /\ Len(c) = Len(a) + Len(b) /\ Len(a) \in Nat /\ Len(b) \in Nat
      /\ \A i \in 1 .. Len(b) : Len(a) + i \in 1 .. Len(c) /\ c[Len(a) + i] = b[i]
  BY JoinedPlaces
<1>2. \A i \in 1 .. Len(c) - 1 : c[i] <= c[i + 1]
  BY DEF Ascending
<1> HIDE DEF c
<1>3. /\ d \in Seq(Nat) /\ Len(d) = Len(c) + Len(b) /\ Len(c) \in Nat
      /\ \A i \in 1 .. Len(c) : i \in 1 .. Len(d) /\ d[i] = c[i]
      /\ \A i \in 1 .. Len(b) : Len(c) + i \in 1 .. Len(d) /\ d[Len(c) + i] = b[i]
  <2>1. c \in Seq(Nat) /\ d = c \o b
    BY <1>1
  <2> HIDE DEF d
  <2> QED
    BY <2>1, JoinedPlaces
<1> HIDE DEF d
<1>4. ASSUME NEW i \in 1 .. Len(d) - 1 PROVE d[i] <= d[i + 1]
  <2>1. CASE i < Len(c)
    <3>1. i \in 1 .. Len(c) - 1 /\ i \in 1 .. Len(c) /\ i + 1 \in 1 .. Len(c)
      BY <1>3, <2>1
    <3> QED
      BY <1>2, <1>3, <3>1
  <2>2. CASE ~(i < Len(c))
    <3> DEFINE m == Len(b)
               n == Len(c)
    <3>a. m \in Nat /\ n \in Nat /\ i \in 1 .. (n + m) - 1 /\ ~(i < n) /\ m <= 1
      BY <1>1, <1>3, <2>2
    <3> HIDE DEF m, n
    <3>b. m = 1
      BY <3>a
    <3>1. Len(b) = 1
      BY <3>b DEF m
    <3>2. i = Len(c) /\ i = Len(a) + 1 /\ i \in 1 .. Len(c) /\ 1 \in 1 .. Len(b)
      BY <1>1, <1>3, <2>2, <3>1
    <3>3. d[i] = c[i] /\ c[i] = b[1]
      BY <1>1, <1>3, <3>2
    <3>4. d[i + 1] = b[1]
      BY <1>3, <3>2
    <3>5. b[1] \in Nat
      BY <3>2
    <3> QED
      BY <3>3, <3>4, <3>5
  <2> QED
    BY <2>1, <2>2
<1> QED
  BY <1>4 DEF Ascending, d, c

LEMMA InjectiveParts ==
  ASSUME NEW a \in Seq(Nat), NEW b \in Seq(Nat)
  PROVE  IsInjective(a \o b)
           <=> IsInjective(a) /\ IsInjective(b) /\ ToSet(a) \cap ToSet(b) = {}
<1> DEFINE c == a \o b
<1>1. /\ c \in Seq(Nat) /\ Len(c) = Len(a) + Len(b) /\ Len(a) \in Nat /\ Len(b) \in Nat
      /\ \A i \in 1 .. Len(a) : i \in 1 .. Len(c) /\ c[i] = a[i]
      /\ \A i \in 1 .. Len(b) : Len(a) + i \in 1 .. Len(c) /\ c[Len(a) + i] = b[i]
      /\ \A i \in 1 .. Len(c) : \/ i \in 1 .. Len(a)
                                \/ i > Len(a) /\ i - Len(a) \in 1 .. Len(b) /\ c[i] = b[i - Len(a)]
  BY JoinedPlaces
<1>2. /\ DOMAIN c = 1 .. Len(c) /\ DOMAIN a = 1 .. Len(a) /\ DOMAIN b = 1 .. Len(b)
      /\ ToSet(a) = {a[i] : i \in 1 .. Len(a)} /\ ToSet(b) = {b[i] : i \in 1 .. Len(b)}
  BY <1>1, LenProperties DEF ToSet
<1> HIDE DEF c
<1>3. ASSUME IsInjective(c)
      PROVE  IsInjective(a) /\ IsInjective(b) /\ ToSet(a) \cap ToSet(b) = {}
  <2>1. \A i, j \in 1 .. Len(c) : c[i] = c[j] => i = j
    BY <1>2, <1>3 DEF IsInjective
  <2>2. ASSUME NEW i \in 1 .. Len(a), NEW j \in 1 .. Len(a), a[i] = a[j] PROVE i = j
    BY <1>1, <2>1, <2>2
  <2>3. ASSUME NEW i \in 1 .. Len(b), NEW j \in 1 .. Len(b), b[i] = b[j] PROVE i = j
    <3>1. Len(a) + i = Len(a) + j
      BY <1>1, <2>1, <2>3
    <3> QED
      BY <1>1, <3>1
  <2>4. ASSUME NEW i \in 1 .. Len(a), NEW j \in 1 .. Len(b), a[i] = b[j] PROVE FALSE
    <3>1. i = Len(a) + j
      BY <1>1, <2>1, <2>4
    <3> QED
      BY <1>1, <3>1
  <2> QED
    BY <1>2, <2>2, <2>3, <2>4 DEF IsInjective
<1>4. ASSUME IsInjective(a), IsInjective(b), ToSet(a) \cap ToSet(b) = {}
      PROVE  IsInjective(c)
  <2>1. /\ \A i, j \in 1 .. Len(a) : a[i] = a[j] => i = j
        /\ \A i, j \in 1 .. Len(b) : b[i] = b[j] => i = j
    BY <1>2, <1>4 DEF IsInjective
  <2>2. \A i \in 1 .. Len(a), j \in 1 .. Len(b) : a[i] # b[j]
    BY <1>2, <1>4
  <2>3. ASSUME NEW i \in 1 .. Len(c), NEW j \in 1 .. Len(c), c[i] = c[j] PROVE i = j
    <3>1. CASE i \in 1 .. Len(a) /\ j \in 1 .. Len(a)
      BY <1>1, <2>1, <2>3, <3>1
    <3>2. CASE i \in 1 .. Len(a) /\ j \notin 1 .. Len(a)
      BY <1>1, <2>2, <2>3, <3>2
    <3>3. CASE i \notin 1 .. Len(a) /\ j \in 1 .. Len(a)
      BY <1>1, <2>2, <2>3, <3>3
    <3>4. CASE i \notin 1 .. Len(a) /\ j \notin 1 .. Len(a)
      <4> DEFINE k == i - Len(a)
                 l == j - Len(a)
      <4>1. k \in 1 .. Len(b) /\ c[i] = b[k] /\ l \in 1 .. Len(b) /\ c[j] = b[l]
        BY <1>1, <3>4
      <4>2. k = l => i = j
        BY <1>1
      <4> HIDE DEF k, l
      <4>3. b[k] = b[l]
        BY <2>3, <4>1
      <4> QED
        BY <2>1, <4>1, <4>2, <4>3
    <3> QED
      BY <3>1, <3>2, <3>3, <3>4
  <2> QED
    BY <1>2, <2>3 DEF IsInjective
<1> QED
  BY <1>3, <1>4 DEF c

----------------------------------------------------------------------------
(***************************************************************************)
(* The pushed values that several values are made of, in another order.    *)
(***************************************************************************)
SameFroms(s, t) ==
  /\ ToSet(FromAll(t)) = ToSet(FromAll(s))
  /\ IsInjective(FromAll(s)) => IsInjective(FromAll(t))

LEMMA OneOf ==
  ASSUME NEW V, NEW x \in V
  PROVE  <<x>> \in Seq(V) /\ Len(<<x>>) = 1 /\ <<x>>[1] = x
OBVIOUS

LEMMA OneBehind ==
  ASSUME NEW S, NEW a \in Seq(S), NEW b \in Seq(S), NEW n, n = Len(a), NEW x, Single(b, x),
         NEW c \in Seq(S), Len(c) = n + 1, \A i \in 1 .. n : c[i] = a[i], c[n + 1] = x
  PROVE  a \o b = c
<1> DEFINE d == a \o b
<1>1. /\ d \in Seq(S) /\ Len(d) = Len(a) + Len(b) /\ Len(a) \in Nat /\ Len(b) \in Nat
      /\ \A i \in 1 .. Len(a) : i \in 1 .. Len(d) /\ d[i] = a[i]
      /\ \A i \in 1 .. Len(b) : Len(a) + i \in 1 .. Len(d) /\ d[Len(a) + i] = b[i]
  BY JoinedPlaces
<1> HIDE DEF d
<1>2. Len(b) = 1 /\ b[1] = x
  BY DEF Single
<1>3. n \in Nat /\ Len(d) = n + 1 /\ d[n + 1] = x /\ \A i \in 1 .. n : d[i] = a[i]
  BY <1>1, <1>2
<1>4. \A i \in 1 .. n + 1 : d[i] = c[i]
  <2>1. \A i \in 1 .. n + 1 : i \in 1 .. n \/ i = n + 1
    BY <1>3
  <2> QED
    BY <1>3, <2>1
<1> QED
  BY <1>1, <1>3, <1>4, SeqEqual DEF d

LEMMA TwoOf ==
  ASSUME NEW V, NEW x \in V, NEW y \in V
  PROVE  <<x>> \o <<y>> = <<x, y>> /\ <<x, y>> \in Seq(V)
<1> DEFINE a == <<x>>
           b == <<y>>
           c == <<x, y>>
           n == 1
<1>1. a \in Seq(V) /\ Len(a) = n /\ b \in Seq(V) /\ Single(b, y)
  BY OneOf DEF Single
<1>2. c \in Seq(V) /\ Len(c) = n + 1 /\ c[1] = a[1] /\ c[n + 1] = y
  OBVIOUS
<1>3. \A i \in 1 .. n : c[i] = a[i]
  BY <1>2
<1> HIDE DEF a, b, c, n
<1>4. a \o b = c
  BY <1>1, <1>2, <1>3, OneBehind
<1> QED
  BY <1>2, <1>4 DEF a, b, c

LEMMA ThreeOf ==
  ASSUME NEW V, NEW x \in V, NEW y \in V, NEW z \in V
  PROVE  <<x, y>> \o <<z>> = <<x, y, z>> /\ <<x, y, z>> \in Seq(V)
<1> DEFINE a == <<x, y>>
           b == <<z>>
           c == <<x, y, z>>
           n == 2
<1>1. a \in Seq(V) /\ Len(a) = n /\ b \in Seq(V) /\ Single(b, z)
  BY OneOf DEF Single
<1>2. c \in Seq(V) /\ Len(c) = n + 1 /\ c[1] = a[1] /\ c[2] = a[2] /\ c[n + 1] = z
  OBVIOUS
<1>3. \A i \in 1 .. n : c[i] = a[i]
  BY <1>2
<1> HIDE DEF a, b, c, n
<1>4. a \o b = c
  BY <1>1, <1>2, <1>3, OneBehind
<1> QED
  BY <1>2, <1>4 DEF a, b, c

LEMMA FromOne ==
  ASSUME NEW V, Made(V), NEW x \in V
  PROVE  FromAll(<<x>>) = x.from /\ x.from \in Seq(Nat)
BY FromAllOne DEF Made

LEMMA FromTwo ==
  ASSUME NEW V, Made(V), NEW x \in V, NEW y \in V
  PROVE  FromAll(<<x, y>>) = x.from \o y.from
<1> DEFINE a == <<x>>
           b == <<y>>
<1>1. a \in Seq(V) /\ b \in Seq(V) /\ a \o b = <<x, y>>
  BY OneOf, TwoOf
<1>2. FromAll(a) = x.from /\ FromAll(b) = y.from
  BY FromOne
<1> HIDE DEF a, b
<1>3. FromAll(a \o b) = FromAll(a) \o FromAll(b)
  BY <1>1, FromAllJoined DEF FromBoth
<1> QED
  BY <1>1, <1>2, <1>3

LEMMA SetOfTwo ==
  ASSUME NEW V, Made(V), NEW x \in V, NEW y \in V
  PROVE  ToSet(FromAll(<<x, y>>)) = ToSet(x.from) \cup ToSet(y.from)
<1>1. x.from \in Seq(Nat) /\ y.from \in Seq(Nat)
  BY DEF Made
<1>2. FromAll(<<x, y>>) = x.from \o y.from
  BY FromTwo
<1> QED
  BY <1>1, <1>2, SetJoined

LEMMA SetOfThree ==
  ASSUME NEW V, Made(V), NEW x \in V, NEW y \in V, NEW z \in V
  PROVE  ToSet(FromAll(<<x, y, z>>)) = ToSet(x.from) \cup ToSet(y.from) \cup ToSet(z.from)
<1> DEFINE a == <<x, y>>
           b == <<z>>
<1>1. a \in Seq(V) /\ b \in Seq(V) /\ a \o b = <<x, y, z>>
  BY OneOf, TwoOf, ThreeOf
<1>2. ToSet(FromAll(a)) = ToSet(x.from) \cup ToSet(y.from) /\ FromAll(b) = z.from
  BY FromOne, SetOfTwo
<1> HIDE DEF a, b
<1>3. FromAll(a \o b) = FromAll(a) \o FromAll(b) /\ FromAll(a) \in Seq(Nat) /\ FromAll(b) \in Seq(Nat)
  BY <1>1, FromAllJoined, FromAllTyped DEF FromBoth
<1>4. ToSet(FromAll(a \o b)) = ToSet(FromAll(a)) \cup ToSet(FromAll(b))
  BY <1>3, SetJoined
<1> QED
  BY <1>1, <1>2, <1>4

LEMMA Pair ==
  ASSUME NEW V, NEW s \in Seq(V), Len(s) = 2
  PROVE  /\ s[1] \in V /\ s[2] \in V /\ s = <<s[1], s[2]>>
         /\ Reverse(s) = <<s[2], s[1]>>
<1>1. s[1] \in V /\ s[2] \in V
  BY 1 \in 1 .. Len(s), 2 \in 1 .. Len(s), ElementOfSeq
<1>2. s = <<s[1], s[2]>>
  OBVIOUS
<1>3. Reverse(s) = [j \in 1 .. 2 |-> s[(2 - j) + 1]]
  BY DEF Reverse
<1>4. [j \in 1 .. 2 |-> s[(2 - j) + 1]] = <<s[2], s[1]>>
  OBVIOUS
<1> QED
  BY <1>1, <1>2, <1>3, <1>4

LEMMA Triple ==
  ASSUME NEW V, NEW s \in Seq(V), Len(s) = 3
  PROVE  s[1] \in V /\ s[2] \in V /\ s[3] \in V /\ s = <<s[1], s[2], s[3]>>
OBVIOUS

LEMMA ReverseIs ==
  ASSUME NEW V, NEW s \in Seq(V), NEW n, n = Len(s)
  PROVE  /\ n \in Nat /\ Reverse(s) \in Seq(V) /\ Len(Reverse(s)) = n
         /\ \A j \in 1 .. n : Reverse(s)[j] = s[(n - j) + 1]
<1>1. n \in Nat
  OBVIOUS
<1>2. Reverse(s) = [j \in 1 .. n |-> s[(n - j) + 1]]
  BY DEF Reverse
<1>3. \A j \in 1 .. n : s[(n - j) + 1] \in V
  BY <1>1
<1> QED
  BY <1>1, <1>2, <1>3

LEMMA ReverseAppended ==
  ASSUME NEW V, NEW t \in Seq(V), NEW x \in V, NEW b \in Seq(V), Single(b, x)
  PROVE  Reverse(t \o b) = b \o Reverse(t)
<1> DEFINE s == t \o b
           r == Reverse(t)
           u == Reverse(s)
           w == b \o r
           n == Len(t)
           one == Len(b)
           m == n + 1
<1>0. one = 1 /\ b[1] = x
  BY DEF Single
<1>a. /\ s \in Seq(V) /\ n \in Nat /\ Len(s) = n + one
      /\ \A i \in 1 .. n : i \in 1 .. Len(s) /\ s[i] = t[i]
      /\ \A i \in 1 .. one : n + i \in 1 .. Len(s) /\ s[n + i] = b[i]
  BY JoinedPlaces
<1>1. /\ s \in Seq(V) /\ n \in Nat /\ Len(s) = m /\ m \in Nat
      /\ \A i \in 1 .. n : s[i] = t[i]
      /\ s[m] = x
  <2> HIDE DEF s, n, one
  <2> QED
    BY <1>0, <1>a
<1>2. r \in Seq(V) /\ Len(r) = n /\ \A j \in 1 .. n : r[j] = t[(n - j) + 1]
  BY ReverseIs
<1> HIDE DEF s, r, n, m
<1>3. u \in Seq(V) /\ Len(u) = m /\ \A j \in 1 .. m : u[j] = s[(m - j) + 1]
  BY <1>1, ReverseIs
<1> HIDE DEF u
<1>b. /\ w \in Seq(V) /\ Len(w) = one + Len(r)
      /\ \A i \in 1 .. one : i \in 1 .. Len(w) /\ w[i] = b[i]
      /\ \A i \in 1 .. Len(r) : one + i \in 1 .. Len(w) /\ w[one + i] = r[i]
  <2>1. r \in Seq(V) /\ w = b \o r
    BY <1>2
  <2> HIDE DEF w
  <2> QED
    BY <2>1, JoinedPlaces
<1> HIDE DEF w, one
<1>4. w \in Seq(V) /\ Len(w) = 1 + n /\ w[1] = x /\ \A i \in 1 .. n : w[1 + i] = r[i]
  BY <1>0, <1>2, <1>b
<1>5. m = n + 1
  BY DEF m
<1>6. ASSUME NEW j \in 1 .. m PROVE u[j] = w[j]
  <2>1. CASE j = 1
    <3>1. (m - j) + 1 = m
      BY <1>1, <2>1
    <3> QED
      BY <1>1, <1>3, <1>4, <2>1, <3>1
  <2>2. CASE j # 1
    <3> DEFINE i == j - 1
               k == (n - i) + 1
    <3>1. i \in 1 .. n /\ k \in 1 .. n /\ (m - j) + 1 = k /\ 1 + i = j
      BY <1>1, <1>5, <2>2
    <3>2. r[i] = t[k]
      BY <1>2, <3>1
    <3> HIDE DEF i, k
    <3>3. u[j] = s[k] /\ s[k] = t[k]
      BY <1>1, <1>3, <3>1
    <3>4. w[j] = r[i]
      BY <1>4, <3>1
    <3> QED
      BY <3>2, <3>3, <3>4
  <2> QED
    BY <2>1, <2>2
<1>7. Len(u) = Len(w)
  BY <1>1, <1>3, <1>4, <1>5
<1>8. u = w
  BY <1>3, <1>4, <1>6, <1>7, SeqEqual
<1> QED
  BY <1>8 DEF u, w, s, r

LEMMA ReversedOneMore ==
  ASSUME NEW V, Made(V), NEW t \in Seq(V), NEW x \in V, NEW b \in Seq(V), Single(b, x),
         SameFroms(t, Reverse(t)), NEW s, s = t \o b
  PROVE  SameFroms(s, Reverse(s))
<1> DEFINE r == Reverse(t)
           f == FromAll(t)
           g == FromAll(b)
           h == FromAll(r)
<1>1. r \in Seq(V)
  BY ReverseIs
<1>2. Reverse(s) = b \o r
  BY ReverseAppended
<1> HIDE DEF r
<1>3. f \in Seq(Nat) /\ g \in Seq(Nat) /\ h \in Seq(Nat)
  BY <1>1, FromAllTyped
<1>4. FromAll(t \o b) = f \o g
  BY FromAllJoined DEF FromBoth
<1>5. FromAll(b \o r) = g \o h
  BY <1>1, FromAllJoined DEF FromBoth
<1>6. ToSet(h) = ToSet(f) /\ (IsInjective(f) => IsInjective(h))
  BY DEF SameFroms, r
<1> HIDE DEF f, g, h
<1>7. ToSet(f \o g) = ToSet(f) \cup ToSet(g) /\ ToSet(g \o h) = ToSet(g) \cup ToSet(h)
  BY <1>3, SetJoined
<1>8. /\ IsInjective(f \o g) <=> IsInjective(f) /\ IsInjective(g) /\ ToSet(f) \cap ToSet(g) = {}
      /\ IsInjective(g \o h) <=> IsInjective(g) /\ IsInjective(h) /\ ToSet(g) \cap ToSet(h) = {}
  BY <1>3, InjectiveParts
<1>9. ToSet(g \o h) = ToSet(f \o g) /\ (IsInjective(f \o g) => IsInjective(g \o h))
  BY <1>6, <1>7, <1>8
<1> QED
  BY <1>2, <1>4, <1>5, <1>9 DEF SameFroms

LEMMA ReversedFroms ==
  ASSUME NEW V, Made(V), NEW s \in Seq(V)
  PROVE  Reverse(s) \in Seq(V) /\ SameFroms(s, Reverse(s))
<1> DEFINE T == {n \in Nat : \A t \in Seq(V) : Len(t) = n => SameFroms(t, Reverse(t))}
<1>1. 0 \in T
  <2>1. ASSUME NEW t \in Seq(V), Len(t) = 0 PROVE SameFroms(t, Reverse(t))
    <3>1. Reverse(t) \in Seq(V) /\ Len(Reverse(t)) = 0
      BY <2>1, ReverseIs
    <3>2. t = <<>> /\ Reverse(t) = <<>>
      BY <2>1, <3>1, EmptySeq
    <3> QED
      BY <3>2 DEF SameFroms
  <2> QED
    BY <2>1
<1>2. ASSUME NEW n \in T PROVE n + 1 \in T
  <2>1. n \in Nat /\ \A t \in Seq(V) : Len(t) = n => SameFroms(t, Reverse(t))
    OBVIOUS
  <2>2. ASSUME NEW u \in Seq(V), Len(u) = n + 1 PROVE SameFroms(u, Reverse(u))
    <3> DEFINE t == SubSeq(u, 1, n)
               b == SubSeq(u, n + 1, n + 1)
    <3>1. n \in 0 .. Len(u) /\ n + 1 \in 1 .. Len(u)
      BY <2>1, <2>2
    <3>2. t \in Seq(V) /\ Len(t) = n
      BY <3>1, PrefixIs
    <3>3. b = <<u[n + 1]>>
      <4> DEFINE k == n + 1
      <4>1. k = Len(u) /\ k > 0
        BY <2>1, <2>2
      <4> HIDE DEF k
      <4>2. SubSeq(u, k, k) = <<u[k]>>
        BY <4>1, LastIs
      <4> QED
        BY <4>2 DEF k
    <3>4. u[n + 1] \in V
      BY <3>1
    <3>5. b \in Seq(V) /\ Single(b, u[n + 1])
      BY <3>3, <3>4, OneOf DEF Single
    <3>6. u = t \o b
      <4>1. n + 1 = Len(u)
        BY <2>2
      <4> QED
        BY <3>1, <4>1, SplitAt
    <3>7. SameFroms(t, Reverse(t))
      BY <2>1, <3>2
    <3> HIDE DEF t, b
    <3> QED
      BY <3>2, <3>4, <3>5, <3>6, <3>7, ReversedOneMore
  <2> QED
    BY <2>1, <2>2
<1>3. T \subseteq Nat
  OBVIOUS
<1> HIDE DEF T
<1>4. T = Nat
  BY <1>1, <1>2, <1>3, InductionOnNat
<1>5. Len(s) \in Nat
  OBVIOUS
<1>6. SameFroms(s, Reverse(s))
  BY <1>4, <1>5 DEF T
<1>7. Reverse(s) \in Seq(V)
  BY ReverseIs
<1> QED
  BY <1>6, <1>7

----------------------------------------------------------------------------
(***************************************************************************)
(* Where an instruction puts the values that its operands are made of: P   *)
(* are those of its operands, R those of what it pushes, Q those of what   *)
(* it prints, and from is its own number.                                  *)
(***************************************************************************)
Loads == {"Push", "PushVar", "PushBank"}
Assigns == {"AssignList", "AssignLists"}

OrderedBy(P, R, from) ==
  \/ R \in {<<>>, P, P \o <<from>>, <<from>> \o <<from>>}
  \/ Len(P) <= 1 /\ R = P \o P

Spread(P, R, Q, from) ==
  IsInjective(P) /\ from \notin ToSet(P) =>
    IsInjective(R) /\ IsInjective(Q) /\ ToSet(R) \cap ToSet(Q) = {}

Placed(class, P, R, Q, from) ==
  /\ ToSet(R) \cup ToSet(Q) \subseteq ToSet(P) \cup {from}
  /\ class # "Pop" => ToSet(P) \subseteq ToSet(R) \cup ToSet(Q)
  /\ class \in Loads => from \in ToSet(R)
  /\ IsScumm => OrderedBy(P, R, from) /\ (class \notin Assigns => Q \in {<<>>, P})
  /\ ~IsScumm => Spread(P, R, Q, from)

LEMMA NothingBehind ==
  ASSUME NEW P \in Seq(Nat)
  PROVE  P \o <<>> = P /\ <<>> \o P = P
BY ConcatEmptySeq

LEMMA PlacedLoad ==
  ASSUME NEW from \in Nat, NEW class, class # "Pop"
  PROVE  Placed(class, <<>>, <<from>>, <<>>, from)
<1> DEFINE n == <<from>>
           e == <<>>
<1>1. e \in Seq(Nat) /\ ToSet(e) = {} /\ IsInjective(e)
      /\ n \in Seq(Nat) /\ ToSet(n) = {from} /\ IsInjective(n)
  BY FewNumbers
<1>2. e \o n = n
  BY <1>1, NothingBehind
<1>3. OrderedBy(e, n, from)
  BY <1>2 DEF OrderedBy
<1>4. Spread(e, n, e, from)
  <2> HIDE DEF n, e
  <2> QED
    BY <1>1 DEF Spread
<1> HIDE DEF n
<1>5. Placed(class, e, n, e, from)
  <2> HIDE DEF e
  <2> QED
    BY <1>1, <1>3, <1>4 DEF Placed, e
<1> QED
  BY <1>5 DEF n

LEMMA PlacedOnStack ==
  ASSUME NEW from \in Nat, NEW class, class \notin Loads, NEW P \in Seq(Nat)
  PROVE  Placed(class, P, P, <<>>, from)
<1> DEFINE e == <<>>
<1>1. ToSet(e) = {} /\ IsInjective(e)
  BY FewNumbers
<1>2. Spread(P, P, e, from) /\ OrderedBy(P, P, from)
  BY <1>1 DEF Spread, OrderedBy
<1>3. ToSet(P) \cup ToSet(e) = ToSet(P)
  BY <1>1
<1> QED
  BY <1>2, <1>3 DEF Placed

LEMMA PlacedInLine ==
  ASSUME NEW from \in Nat, NEW class, class \notin Loads, NEW P \in Seq(Nat)
  PROVE  Placed(class, P, <<>>, P, from)
<1> DEFINE e == <<>>
<1>1. ToSet(e) = {} /\ IsInjective(e)
  BY FewNumbers
<1>2. Spread(P, e, P, from) /\ OrderedBy(P, e, from)
  BY <1>1 DEF Spread, OrderedBy
<1>3. ToSet(e) \cup ToSet(P) = ToSet(P)
  BY <1>1
<1> QED
  BY <1>2, <1>3 DEF Placed

LEMMA PlacedInCall ==
  ASSUME IsScumm, NEW from \in Nat, NEW class, NEW P \in Seq(Nat)
  PROVE  Placed(class, P, P \o <<from>>, <<>>, from)
<1> DEFINE e == <<>>
           n == <<from>>
           R == P \o n
<1>1. ToSet(e) = {} /\ n \in Seq(Nat) /\ ToSet(n) = {from}
  BY FewNumbers
<1>2. OrderedBy(P, R, from)
  BY DEF OrderedBy
<1> HIDE DEF n
<1>3. ToSet(R) = ToSet(P) \cup ToSet(n)
  BY <1>1, SetJoined
<1> HIDE DEF R
<1>4. ToSet(R) = ToSet(P) \cup {from} /\ ToSet(R) \cup ToSet(e) = ToSet(R)
  BY <1>1, <1>3
<1>5. Placed(class, P, R, e, from)
  BY <1>2, <1>4 DEF Placed
<1> QED
  BY <1>5 DEF R, n

LEMMA PlacedTwice ==
  ASSUME IsScumm, NEW from \in Nat, NEW class, class \notin Loads, NEW P \in Seq(Nat), Len(P) <= 1
  PROVE  Placed(class, P, P \o P, <<>>, from)
<1> DEFINE e == <<>>
           R == P \o P
<1>1. ToSet(e) = {}
  BY FewNumbers
<1>2. OrderedBy(P, R, from)
  BY DEF OrderedBy
<1>3. ToSet(R) = ToSet(P)
  <2>1. ToSet(P \o P) = ToSet(P) \cup ToSet(P)
    BY SetJoined
  <2> QED
    BY <2>1
<1> HIDE DEF R
<1>4. ToSet(R) \cup ToSet(e) = ToSet(P)
  BY <1>1, <1>3
<1>5. Placed(class, P, R, e, from)
  BY <1>2, <1>4 DEF Placed
<1> QED
  BY <1>5 DEF R

LEMMA PlacedUnderName ==
  ASSUME IsScumm, NEW from \in Nat, NEW class, NEW P \in Seq(Nat)
  PROVE  Placed(class, P, <<from>> \o <<from>>, P, from)
<1> DEFINE n == <<from>>
           R == n \o n
<1>1. n \in Seq(Nat) /\ ToSet(n) = {from}
  BY FewNumbers
<1>2. OrderedBy(P, R, from)
  BY DEF OrderedBy
<1> HIDE DEF n
<1>3. ToSet(R) = {from}
  BY <1>1, SetJoined
<1> HIDE DEF R
<1>4. Placed(class, P, R, P, from)
  BY <1>2, <1>3 DEF Placed
<1> QED
  BY <1>4 DEF R, n

LEMMA PlacedNowhere ==
  ASSUME IsScumm, NEW from \in Nat, NEW P \in Seq(Nat)
  PROVE  Placed("Pop", P, <<>>, <<>>, from)
<1> DEFINE e == <<>>
<1>1. ToSet(e) = {}
  BY FewNumbers
<1>2. OrderedBy(P, e, from) /\ "Pop" \notin Loads
  BY DEF OrderedBy, Loads
<1> QED
  BY <1>1, <1>2 DEF Placed

LEMMA PlacedReversed ==
  ASSUME ~IsScumm, NEW from \in Nat, NEW class, class \notin Loads,
         NEW s, NEW t, SameFroms(s, t)
  PROVE  /\ Placed(class, FromAll(s), <<>>, FromAll(t), from)
         /\ Placed(class, FromAll(s), FromAll(t), <<>>, from)
<1> DEFINE e == <<>>
           P == FromAll(s)
           Q == FromAll(t)
<1>1. ToSet(e) = {} /\ IsInjective(e)
  BY FewNumbers
<1>2. ToSet(Q) = ToSet(P) /\ (IsInjective(P) => IsInjective(Q))
  BY DEF SameFroms
<1> HIDE DEF P, Q
<1>3. Spread(P, e, Q, from) /\ Spread(P, Q, e, from)
  BY <1>1, <1>2 DEF Spread
<1>4. ToSet(e) \cup ToSet(Q) = ToSet(P) /\ ToSet(Q) \cup ToSet(e) = ToSet(P)
  BY <1>1, <1>2
<1>5. Placed(class, P, e, Q, from) /\ Placed(class, P, Q, e, from)
  BY <1>2, <1>3, <1>4 DEF Placed
<1> QED
  BY <1>5 DEF P, Q

\* SCUMM only asks of lists that are assigned that they are printed.
LEMMA PlacedAssigned ==
  ASSUME IsScumm, NEW from \in Nat, NEW P, NEW Q, ToSet(Q) = ToSet(P), NEW class \in Assigns
  PROVE  Placed(class, P, <<>>, Q, from)
<1> DEFINE e == <<>>
<1>1. ToSet(e) = {}
  BY FewNumbers
<1>2. OrderedBy(P, e, from) /\ class \notin Loads
  BY DEF OrderedBy, Assigns, Loads
<1> QED
  BY <1>1, <1>2 DEF Placed

----------------------------------------------------------------------------
\* The line that a result prints, or none.
Prints(result, line) ==
  \/ result.printed = <<>> /\ line = <<>>
  \/ result.printed = <<line>>

Outcome(class, args, result, line, from) ==
  /\ Prints(result, line) /\ AllSound(line)
  /\ Placed(class, FromAll(args), FromAll(result.pushed), FromAll(line), from)

LEMMA ResultIs ==
  \A pushed, printed :
    /\ Result(pushed, printed).pushed = pushed /\ Result(pushed, printed).printed = printed
    /\ ~Result(pushed, printed).throws
BY DEF Result

LEMMA PrintsNothing ==
  \A pushed : Prints(Result(pushed, <<>>), <<>>) /\ AllSound(<<>>)
BY ResultIs, SoundOnes DEF Prints

LEMMA PrintsLine ==
  \A pushed, line : Prints(Result(pushed, <<line>>), line)
BY ResultIs DEF Prints

LEMMA AtomsFrom ==
  \A from : /\ \A n : IntValue(n, from).from = from
            /\ \A name : VarValue(name, from).from = from
            /\ DupValue(from).from = from
BY DEF IntValue, VarValue, DupValue, Atom

LEMMA SingleArgument ==
  ASSUME NEW W, \A x \in W : Sound(x), NEW args \in Seq(W), Len(args) = 1
  PROVE  /\ args[1] \in W /\ Sound(args[1]) /\ FromAll(args) = args[1].from
         /\ args[1].from \in Seq(Nat)
<1>1. args[1] \in W /\ args = <<args[1]>>
  OBVIOUS
<1>2. Made(W)
  BY DEF Made, Sound, Simple
<1>3. FromAll(<<args[1]>>) = args[1].from /\ args[1].from \in Seq(Nat)
  BY <1>1, <1>2, FromOne
<1> QED
  BY <1>1, <1>3

LEMMA PairOfArguments ==
  ASSUME NEW W, \A x \in W : Sound(x), NEW args \in Seq(W), Len(args) = 2
  PROVE  /\ args[1] \in W /\ Sound(args[1]) /\ args[2] \in W /\ Sound(args[2])
         /\ FromAll(args) = args[1].from \o args[2].from
         /\ args[1].from \in Seq(Nat) /\ args[2].from \in Seq(Nat)
<1>1. args[1] \in W /\ args[2] \in W /\ args = <<args[1], args[2]>>
  BY Pair
<1>2. Made(W)
  BY DEF Made, Sound, Simple
<1>3. FromAll(<<args[1], args[2]>>) = args[1].from \o args[2].from
  BY <1>1, <1>2, FromTwo
<1>4. args[1].from \in Seq(Nat) /\ args[2].from \in Seq(Nat)
  BY <1>1, <1>2 DEF Made
<1> QED
  BY <1>1, <1>3, <1>4

LEMMA ArgumentsSound ==
  ASSUME NEW W, \A x \in W : Sound(x), NEW args \in Seq(W)
  PROVE  AllSound(args) /\ FromAll(args) \in Seq(Nat) /\ Made(W)
<1>1. Made(W)
  BY DEF Made, Sound, Simple
<1>2. args \in Seq(ToSet(args)) /\ ToSet(args) \subseteq W
  BY OwnElements
<1> QED
  BY <1>1, <1>2, FromAllTyped DEF AllSound

LEMMA OutcomeIs ==
  ASSUME NEW class, NEW args, NEW pushed, NEW line, NEW P, NEW R, NEW Q, NEW from,
         FromAll(args) = P, FromAll(pushed) = R, FromAll(line) = Q, AllSound(line),
         Placed(class, P, R, Q, from)
  PROVE  /\ line = <<>> => Outcome(class, args, Result(pushed, <<>>), line, from)
         /\ Outcome(class, args, Result(pushed, <<line>>), line, from)
BY PrintsNothing, PrintsLine, ResultIs DEF Outcome

\* One value that is made of all the operands is pushed.
LEMMA OnePushed ==
  ASSUME NEW from \in Nat, NEW class, class \notin Loads, NEW args, NEW v,
         v.from \in Seq(Nat), FromAll(args) = v.from
  PROVE  Outcome(class, args, Result(<<v>>, <<>>), <<>>, from)
<1>1. FromAll(<<v>>) = v.from /\ FromAll(<<>>) = <<>>
  BY FromAllOne
<1>2. Placed(class, v.from, v.from, <<>>, from)
  BY PlacedOnStack
<1> QED
  BY <1>1, <1>2, PrintsNothing, ResultIs DEF Outcome

\* All the operands are printed, and nothing is pushed.
LEMMA AllPrinted ==
  ASSUME NEW from \in Nat, NEW class, class \notin Loads, NEW args, NEW line, AllSound(line),
         FromAll(args) \in Seq(Nat), FromAll(line) = FromAll(args)
  PROVE  Outcome(class, args, Result(<<>>, <<line>>), line, from)
<1>1. FromAll(<<>>) = <<>>
  BY FromAllOne
<1> DEFINE P == FromAll(args)
<1>2. Placed(class, P, <<>>, P, from)
  BY PlacedInLine
<1> QED
  BY <1>1, <1>2, PrintsLine, ResultIs DEF Outcome

LEMMA LoadOutcome ==
  ASSUME NEW from \in Nat, NEW class, class # "Pop", NEW args, args = <<>>, NEW v, v.from = <<from>>
  PROVE  Outcome(class, args, Result(<<v>>, <<>>), <<>>, from)
<1>1. <<from>> \in Seq(Nat)
  BY FewNumbers
<1>2. FromAll(<<v>>) = <<from>> /\ FromAll(<<>>) = <<>>
  BY <1>1, FromAllOne
<1>3. Placed(class, <<>>, <<from>>, <<>>, from)
  BY PlacedLoad
<1> QED
  BY <1>2, <1>3, PrintsNothing, ResultIs DEF Outcome

LEMMA NoOutcome ==
  ASSUME NEW from \in Nat, NEW class, class \notin Loads, NEW args, args = <<>>
  PROVE  Outcome(class, args, Result(<<>>, <<>>), <<>>, from)
<1>1. FromAll(<<>>) = <<>> /\ <<>> \in Seq(Nat)
  BY FewNumbers, FromAllOne
<1> DEFINE e == <<>>
<1>2. Placed(class, e, e, e, from)
  BY <1>1, PlacedOnStack
<1> QED
  BY <1>1, <1>2, PrintsNothing, ResultIs DEF Outcome

----------------------------------------------------------------------------
ArgumentsFit(inst, args) ==
  LettersOf(inst) \in Seq({"p", "l"}) => Len(args) = Len(LettersOf(inst))

LEMMA ShortLetters ==
  /\ <<>> \in Seq({"p", "l"}) /\ Len(<<>>) = 0
  /\ <<"p">> \in Seq({"p", "l"}) /\ Len(<<"p">>) = 1
  /\ <<"p", "p">> \in Seq({"p", "l"}) /\ Len(<<"p", "p">>) = 2
  /\ <<"p", "l">> \in Seq({"p", "l"}) /\ Len(<<"p", "l">>) = 2
  /\ <<"p", "l", "p">> \in Seq({"p", "l"}) /\ Len(<<"p", "l", "p">>) = 3
OBVIOUS

LEMMA DupOutcome ==
  ASSUME IsScumm, NEW W, \A x \in W : Sound(x), NEW args \in Seq(W), Len(args) = 1,
         NEW from \in Nat, NEW class, class \notin Loads
  PROVE  \E line : Outcome(class, args, Dup(args[1], from), line, from)
<1> DEFINE v == args[1]
           u == DupValue(<<from>>)
           P == v.from
<1>1. Sound(v) /\ FromAll(args) = P /\ P \in Seq(Nat)
  BY SingleArgument
<1>2. AllSound(args)
  BY ArgumentsSound
<1>3. args = <<v>>
  OBVIOUS
<1> HIDE DEF v
<1>4. CASE IsNumber(v) \/ IsDup(v)
  <2>1. Dup(v, from) = Result(<<v, v>>, <<>>)
    BY <1>4 DEF Dup
  <2>2. Len(P) <= 1
    BY <1>1, <1>4 DEF Sound, Simple
  <2>3. FromAll(<<v, v>>) = P \o P
    <3>1. Made({v}) /\ v \in {v}
      BY <1>1 DEF Made
    <3> QED
      BY <3>1, FromTwo
  <2>4. Placed(class, P, P \o P, <<>>, from)
    BY <1>1, <2>2, PlacedTwice
  <2>5. FromAll(<<>>) = <<>>
    BY FromAllOne
  <2> DEFINE pushed == <<v, v>>
             line == <<>>
             R == P \o P
  <2>6. FromAll(pushed) = R /\ FromAll(line) = <<>> /\ AllSound(line) /\ FromAll(args) = P
        /\ Placed(class, P, R, <<>>, from)
    BY <1>1, <2>3, <2>4, <2>5, SoundOnes
  <2> HIDE DEF P, R, pushed
  <2>7. line = <<>>
    OBVIOUS
  <2> HIDE DEF line
  <2>8. Outcome(class, args, Result(pushed, <<>>), line, from)
    BY <2>6, <2>7, OutcomeIs
  <2> QED
    BY <2>1, <2>8 DEF v, pushed
<1>5. CASE ~(IsNumber(v) \/ IsDup(v))
  <2>1. Dup(v, from) = Result(<<u, u>>, <<args>>)
    BY <1>3, <1>5 DEF Dup
  <2>2. u.from = <<from>> /\ <<from>> \in Seq(Nat)
    BY AtomsFrom, FewNumbers
  <2> HIDE DEF u
  <2>3. FromAll(<<u, u>>) = <<from>> \o <<from>>
    <3>1. Made({u}) /\ u \in {u}
      BY <2>2 DEF Made
    <3> QED
      BY <2>2, <3>1, FromTwo
  <2>4. Placed(class, P, <<from>> \o <<from>>, P, from)
    BY <1>1, PlacedUnderName
  <2> DEFINE pushed == <<u, u>>
             R == <<from>> \o <<from>>
  <2>5. FromAll(pushed) = R /\ FromAll(args) = P /\ Placed(class, P, R, P, from)
    BY <1>1, <2>3, <2>4
  <2> HIDE DEF P, R, pushed
  <2>6. Outcome(class, args, Result(pushed, <<args>>), args, from)
    BY <1>2, <2>5, OutcomeIs
  <2> QED
    BY <2>1, <2>6 DEF v, pushed
<1> QED
  BY <1>4, <1>5

LEMMA CallOutcome ==
  ASSUME IsScumm, NEW W, \A x \in W : Sound(x), NEW args \in Seq(W),
         NEW from \in Nat, NEW class, class \notin Loads, NEW data
  PROVE  \E line : Outcome(class, args, CallResult(data, args, from), line, from)
<1> DEFINE P == FromAll(args)
           u == [CallValue(args) EXCEPT !.from = Append(@, from)]
<1>1. AllSound(args) /\ P \in Seq(Nat)
  BY ArgumentsSound
<1>2. CASE ReturnsValue(data)
  <2>1. CallResult(data, args, from) = Result(<<u>>, <<>>)
    BY <1>2 DEF CallResult
  <2>2. u.from = Append(P, from)
    BY DEF CallValue, VarValue, Atom
  <2>3. Append(P, from) = P \o <<from>> /\ Append(P, from) \in Seq(Nat)
    BY <1>1, AppendIsConcat
  <2> HIDE DEF u
  <2>4. FromAll(<<u>>) = P \o <<from>> /\ FromAll(<<>>) = <<>>
    BY <2>2, <2>3, FromAllOne
  <2>5. Placed(class, P, P \o <<from>>, <<>>, from)
    BY <1>1, PlacedInCall
  <2> DEFINE pushed == <<u>>
             line == <<>>
             R == P \o <<from>>
  <2>6. FromAll(pushed) = R /\ FromAll(line) = <<>> /\ AllSound(line)
        /\ Placed(class, P, R, <<>>, from)
    BY <2>4, <2>5, SoundOnes
  <2> HIDE DEF P, R, pushed
  <2>7. line = <<>>
    OBVIOUS
  <2>8. FromAll(args) = P
    BY DEF P
  <2> HIDE DEF line
  <2>9. Outcome(class, args, Result(pushed, <<>>), line, from)
    BY <2>6, <2>7, <2>8, OutcomeIs
  <2> QED
    BY <2>1, <2>9 DEF pushed
<1>3. CASE ~ReturnsValue(data)
  <2>1. CallResult(data, args, from) = Result(<<>>, <<args>>)
    BY <1>3 DEF CallResult
  <2>2. Outcome(class, args, Result(<<>>, <<args>>), args, from)
    BY <1>1, AllPrinted
  <2> QED
    BY <2>1, <2>2
<1> QED
  BY <1>2, <1>3

LEMMA AssignOutcome ==
  ASSUME IsScumm, NEW W, \A x \in W : Sound(x), NEW args \in Seq(W), Len(args) \in {2, 3},
         NEW from \in Nat, NEW class \in Assigns
  PROVE  \E line : Outcome(class, args, Result(<<>>, <<AssignArgs(args)>>), line, from)
<1> DEFINE line == AssignArgs(args)
<1>1. Made(W) /\ FromAll(args) \in Seq(Nat)
  BY ArgumentsSound
<1>2. line \in Seq(W) /\ ToSet(FromAll(line)) = ToSet(FromAll(args))
  <2>1. CASE Len(args) = 2
    <3>1. line = Reverse(args)
      BY <2>1 DEF AssignArgs
    <3>2. Reverse(args) \in Seq(W) /\ SameFroms(args, Reverse(args))
      BY <1>1, ReversedFroms
    <3> QED
      BY <3>1, <3>2 DEF SameFroms
  <2>2. CASE Len(args) = 3
    <3>1. args[1] \in W /\ args[2] \in W /\ args[3] \in W /\ args = <<args[1], args[2], args[3]>>
      BY <2>2, Triple
    <3>2. line = <<args[1], args[3], args[2]>>
      BY <2>2 DEF AssignArgs
    <3>3. <<args[1], args[3], args[2]>> \in Seq(W)
      BY <3>1, ThreeOf
    <3>4. ToSet(FromAll(<<args[1], args[3], args[2]>>))
            = ToSet(FromAll(<<args[1], args[2], args[3]>>))
      <4> DEFINE x == args[1]
                 y == args[2]
                 z == args[3]
      <4>1. x \in W /\ y \in W /\ z \in W
        BY <3>1
      <4> HIDE DEF x, y, z
      <4>2. /\ ToSet(FromAll(<<x, y, z>>)) = ToSet(x.from) \cup ToSet(y.from) \cup ToSet(z.from)
            /\ ToSet(FromAll(<<x, z, y>>)) = ToSet(x.from) \cup ToSet(z.from) \cup ToSet(y.from)
        BY <1>1, <4>1, SetOfThree
      <4>3. ToSet(FromAll(<<x, z, y>>)) = ToSet(FromAll(<<x, y, z>>))
        BY <4>2
      <4> QED
        BY <4>3 DEF x, y, z
    <3> QED
      BY <3>1, <3>2, <3>3, <3>4
  <2> QED
    BY <2>1, <2>2
<1> HIDE DEF line
<1>3. AllSound(line)
  BY <1>2, ArgumentsSound
<1>4. Placed(class, FromAll(args), <<>>, FromAll(line), from)
  BY <1>2, PlacedAssigned
<1>5. FromAll(<<>>) = <<>>
  BY FromAllOne
<1>6. Outcome(class, args, Result(<<>>, <<line>>), line, from)
  BY <1>3, <1>4, <1>5, PrintsLine, ResultIs DEF Outcome
<1> QED
  BY <1>6 DEF line

LEMMA ScummPlaces ==
  ASSUME IsScumm, NEW inst, inst.op \in DOMAIN ScummOpcodeTable,
         NEW W, \A x \in W : Sound(x), NEW args \in Seq(W), ArgumentsFit(inst, args),
         NEW from \in Nat, NEW class, class = ClassOf(inst)
  PROVE  \E line : Outcome(class, args, ScummResult(inst, args, from), line, from)
<1> DEFINE v == ScummOpcodeTable[inst.op]
<1>1. /\ v.class \in ScummClasses /\ (v.class = "Binary" => v.data[1] \in Operations)
      /\ class = v.class /\ DataOf(inst) = v.data /\ LettersOf(inst) = EntryLetters(v)
  BY LettersOfScumm
<1>2. AllSound(args) /\ FromAll(args) \in Seq(Nat)
  BY ArgumentsSound
<1> HIDE DEF v
<1>3. /\ EntryLetters(v) = <<>> => args = <<>>
      /\ EntryLetters(v) = <<"p">> => Len(args) = 1
      /\ EntryLetters(v) \in {<<"p", "p">>, <<"p", "l">>} => Len(args) = 2
      /\ EntryLetters(v) = <<"p", "l", "p">> => Len(args) = 3
  <2>1. Len(args) = 0 => args = <<>>
    BY EmptySeq
  <2> QED
    BY <1>1, <2>1, ShortLetters DEF ArgumentsFit
<1>4. CASE v.class = "Push"
  <2>1. ScummResult(inst, args, from) = Result(<<IntValue(inst.val, <<from>>)>>, <<>>)
    BY <1>1, <1>4 DEF ScummResult
  <2>2. args = <<>> /\ class # "Pop"
    BY <1>1, <1>3, <1>4 DEF EntryLetters
  <2> DEFINE u == IntValue(inst.val, <<from>>)
  <2>3. u.from = <<from>>
    BY AtomsFrom
  <2> HIDE DEF u
  <2>4. Outcome(class, args, Result(<<u>>, <<>>), <<>>, from)
    BY <2>2, <2>3, LoadOutcome
  <2> QED
    BY <2>1, <2>4 DEF u
<1>5. CASE v.class = "PushVar"
  <2>1. ScummResult(inst, args, from) = Result(<<VarValue("var", <<from>>)>>, <<>>)
    BY <1>1, <1>5 DEF ScummResult
  <2>2. args = <<>> /\ class # "Pop"
    BY <1>1, <1>3, <1>5 DEF EntryLetters
  <2> DEFINE u == VarValue("var", <<from>>)
  <2>3. u.from = <<from>>
    BY AtomsFrom
  <2> HIDE DEF u
  <2>4. Outcome(class, args, Result(<<u>>, <<>>), <<>>, from)
    BY <2>2, <2>3, LoadOutcome
  <2> QED
    BY <2>1, <2>4 DEF u
<1>6. CASE v.class \in {"ArrayRead", "IndexedRead"}
  <2>1. ScummResult(inst, args, from) = Result(<<ArrayValue(args)>>, <<>>)
    BY <1>1, <1>6 DEF ScummResult
  <2>2. class \notin Loads
    BY <1>1, <1>6 DEF Loads
  <2> DEFINE u == ArrayValue(args)
  <2>3. u.from = FromAll(args)
    BY AtomsFrom DEF ArrayValue
  <2> HIDE DEF u
  <2>4. Outcome(class, args, Result(<<u>>, <<>>), <<>>, from)
    BY <1>2, <2>2, <2>3, OnePushed
  <2> QED
    BY <2>1, <2>4 DEF u
<1>7. CASE v.class = "Dup"
  <2>1. ScummResult(inst, args, from) = Dup(args[1], from)
    BY <1>1, <1>7 DEF ScummResult
  <2>2. class \notin Loads /\ Len(args) = 1
    BY <1>1, <1>3, <1>7 DEF Loads, EntryLetters
  <2> QED
    BY <2>1, <2>2, DupOutcome
<1>8. CASE v.class = "Not"
  <2>1. ScummResult(inst, args, from) = Result(<<Negate(args[1])>>, <<>>)
    BY <1>1, <1>8 DEF ScummResult
  <2>2. class \notin Loads /\ Len(args) = 1
    BY <1>1, <1>3, <1>8 DEF Loads, EntryLetters
  <2> DEFINE u == Negate(args[1])
  <2>3. u.from = FromAll(args)
    BY <2>2, SingleArgument, NegationsSound
  <2> HIDE DEF u
  <2>4. Outcome(class, args, Result(<<u>>, <<>>), <<>>, from)
    BY <1>2, <2>2, <2>3, OnePushed
  <2> QED
    BY <2>1, <2>4 DEF u
<1>9. CASE v.class = "Binary"
  <2> DEFINE u == BinaryFIFO(v.data[1], args)
  <2>1. ScummResult(inst, args, from) = Result(<<u>>, <<>>)
    BY <1>1, <1>9 DEF ScummResult
  <2>2. class \notin Loads /\ Len(args) = 2
    BY <1>1, <1>3, <1>9 DEF Loads, EntryLetters
  <2>3. u.from = FromAll(args)
    <3>1. /\ Sound(args[1]) /\ Sound(args[2])
          /\ FromAll(args) = args[1].from \o args[2].from
      BY <2>2, PairOfArguments
    <3>2. MadeOf(BinaryOpValue(v.data[1], args[1], args[2]), args[1], args[2])
      BY <1>1, <1>9, <3>1, OperationsSound
    <3> QED
      BY <3>1, <3>2 DEF MadeOf, BinaryFIFO
  <2> HIDE DEF u
  <2>4. Outcome(class, args, Result(<<u>>, <<>>), <<>>, from)
    BY <1>2, <2>2, <2>3, OnePushed
  <2> QED
    BY <2>1, <2>4
<1>10. CASE v.class = "CondJump"
  <2> DEFINE u == Condition(inst.op, args[1])
  <2>1. ScummResult(inst, args, from) = Result(<<>>, << <<u>> >>)
    BY <1>1, <1>10 DEF ScummResult
  <2>2. class \notin Loads /\ Len(args) = 1
    BY <1>1, <1>3, <1>10 DEF Loads, EntryLetters
  <2>3. Sound(args[1]) /\ FromAll(args) = args[1].from
    BY <2>2, SingleArgument
  <2>4. Sound(u) /\ u.from = FromAll(args)
    <3> DEFINE x == args[1]
    <3> HIDE DEF x
    <3>1. Sound(Negate(x)) /\ Negate(x).from = FromAll(args)
      BY <2>3, NegationsSound DEF x
    <3>2. Sound(Negate(Negate(x))) /\ Negate(Negate(x)).from = FromAll(args)
      BY <3>1, NegationsSound
    <3>3. u = Negate(Negate(x)) \/ u = Negate(x)
      BY DEF Condition, x
    <3> HIDE DEF u
    <3> QED
      BY <3>1, <3>2, <3>3
  <2> HIDE DEF u
  <2>5. AllSound(<<u>>) /\ FromAll(<<u>>) = FromAll(args)
    BY <1>2, <2>4, SoundOnes, FromAllOne
  <2> DEFINE line == <<u>>
  <2>6. Outcome(class, args, Result(<<>>, <<line>>), line, from)
    BY <1>2, <2>2, <2>5, AllPrinted
  <2> QED
    BY <2>1, <2>6
<1>11. CASE v.class = "Call"
  <2>1. ScummResult(inst, args, from) = CallResult(v.data, args, from)
    BY <1>1, <1>11 DEF ScummResult
  <2>2. class \notin Loads
    BY <1>1, <1>11 DEF Loads
  <2> QED
    BY <2>1, <2>2, CallOutcome
<1>12. CASE v.class = "Pop"
  <2>1. ScummResult(inst, args, from) = Result(<<>>, <<>>)
    BY <1>1, <1>12 DEF ScummResult
  <2>2. Placed(class, FromAll(args), <<>>, <<>>, from)
    BY <1>1, <1>2, <1>12, PlacedNowhere
  <2>3. FromAll(<<>>) = <<>>
    BY FromAllOne
  <2>4. Outcome(class, args, Result(<<>>, <<>>), <<>>, from)
    BY <2>2, <2>3, PrintsNothing, ResultIs DEF Outcome
  <2> QED
    BY <2>1, <2>4
<1>13. CASE v.class = "Jump"
  <2>1. ScummResult(inst, args, from) = Result(<<>>, <<>>)
    BY <1>1, <1>13 DEF ScummResult
  <2>2. args = <<>> /\ class \notin Loads
    BY <1>1, <1>3, <1>13 DEF EntryLetters, Loads
  <2> QED
    BY <2>1, <2>2, NoOutcome
<1>14. CASE v.class \in Assigns
  <2>1. ScummResult(inst, args, from) = Result(<<>>, <<AssignArgs(args)>>)
    BY <1>1, <1>14 DEF ScummResult, Assigns
  <2>2. Len(args) \in {2, 3}
    BY <1>1, <1>3, <1>14 DEF EntryLetters, Assigns
  <2> QED
    BY <1>1, <1>14, <2>1, <2>2, AssignOutcome
<1>15. CASE v.class \in {"Write", "ArrayWrite", "IndexedWrite", "VarInc", "ArrayInc",
                         "AssignString"}
  <2>1. ScummResult(inst, args, from) = Result(<<>>, <<args>>)
    BY <1>1, <1>15 DEF ScummResult
  <2>2. class \notin Loads
    BY <1>1, <1>15 DEF Loads
  <2>3. Outcome(class, args, Result(<<>>, <<args>>), args, from)
    BY <1>2, <2>2, AllPrinted
  <2> QED
    BY <2>1, <2>3
<1> QED
  BY <1>1, <1>4, <1>5, <1>6, <1>7, <1>8, <1>9, <1>10, <1>11, <1>12, <1>13, <1>14, <1>15
     DEF ScummClasses, Assigns

----------------------------------------------------------------------------
LEMMA FlatSound ==
  ASSUME NEW l, NEW r, Sound(l), Sound(r), NEW op \in Words
  PROVE  Sound(FlatValue(op, l, r)) /\ FlatValue(op, l, r).from = l.from \o r.from
<1>1. OperationIs(op, l, r)
  BY OperationsSimple DEF Sound
<1>2. "" \notin Comparisons /\ "" # "!"
  BY DEF Comparisons
<1> QED
  BY <1>1, <1>2 DEF OperationIs, Sound, MadeOf

LEMMA SubOutcome ==
  ASSUME ~IsScumm, NEW W, \A x \in W : Sound(x), NEW args \in Seq(W), Len(args) = 2,
         NEW from \in Nat, NEW class, class \notin Loads, NEW op \in Words,
         NEW a \in {args, Reverse(args)}
  PROVE  /\ \E line : Outcome(class, args, Result(<<FlatValue(op, a[1], a[2])>>, <<>>), line, from)
         /\ Sound(FlatValue(op, a[1], a[2]))
<1> DEFINE v == FlatValue(op, a[1], a[2])
<1>1. Made(W)
  BY ArgumentsSound
<1>2. a \in Seq(W) /\ Len(a) = 2 /\ SameFroms(args, a)
  <2>1. CASE a = args
    BY <2>1 DEF SameFroms
  <2>2. CASE a = Reverse(args)
    <3>1. Reverse(args) \in Seq(W) /\ SameFroms(args, Reverse(args))
      BY <1>1, ReversedFroms
    <3>2. Len(Reverse(args)) = 2
      BY ReverseIs
    <3> QED
      BY <2>2, <3>1, <3>2
  <2> QED
    BY <2>1, <2>2
<1>3. Sound(a[1]) /\ Sound(a[2]) /\ FromAll(a) = a[1].from \o a[2].from
  BY <1>2, PairOfArguments
<1>4. Sound(v) /\ v.from = FromAll(a)
  BY <1>3, FlatSound
<1>5. FromAll(a) \in Seq(Nat)
  BY <1>2, ArgumentsSound
<1> DEFINE line == <<>>
           pushed == <<v>>
           P == FromAll(args)
           R == FromAll(a)
<1>6. FromAll(pushed) = R /\ FromAll(line) = <<>> /\ AllSound(line)
  BY <1>4, <1>5, FromAllOne, SoundOnes
<1>7. Placed(class, P, R, <<>>, from)
  BY <1>2, PlacedReversed
<1>8. line = <<>> /\ FromAll(args) = P
  OBVIOUS
<1> HIDE DEF P, R, pushed, line
<1>9. Outcome(class, args, Result(pushed, <<>>), line, from)
  BY <1>6, <1>7, <1>8, OutcomeIs
<1> QED
  BY <1>4, <1>9 DEF pushed

LEMMA KernelOutcome ==
  ASSUME ~IsScumm, NEW W, \A x \in W : Sound(x), NEW args \in Seq(W),
         NEW from \in Nat, NEW class, class \notin Loads, NEW a \in {args, Reverse(args)}
  PROVE  \E line : Outcome(class, args, Result(<<>>, <<a>>), line, from)
<1>1. Made(W)
  BY ArgumentsSound
<1>2. a \in Seq(W) /\ SameFroms(args, a)
  <2>1. CASE a = args
    BY <2>1 DEF SameFroms
  <2>2. CASE a = Reverse(args)
    BY <1>1, <2>2, ReversedFroms
  <2> QED
    BY <2>1, <2>2
<1>3. AllSound(a) /\ FromAll(<<>>) = <<>>
  BY <1>2, ArgumentsSound, FromAllOne
<1>4. Placed(class, FromAll(args), <<>>, FromAll(a), from)
  BY <1>2, PlacedReversed
<1> DEFINE P == FromAll(args)
           Q == FromAll(a)
           e == <<>>
<1>5. FromAll(args) = P /\ FromAll(a) = Q /\ FromAll(e) = e /\ Placed(class, P, e, Q, from)
  BY <1>3, <1>4
<1> HIDE DEF P, Q
<1>6. Outcome(class, args, Result(e, <<a>>), a, from)
  <2> HIDE DEF e
  <2> QED
    BY <1>3, <1>5, OutcomeIs
<1> QED
  BY <1>6

LEMMA WorldPlaces ==
  ASSUME ~IsScumm, NEW inst, inst.op \in DOMAIN WorldOpcodeTable, inst.op \in Int, inst.val \in Int,
         NEW W, \A x \in W : Sound(x), NEW args \in Seq(W), ArgumentsFit(inst, args),
         NEW from \in Nat, NEW class, class = ClassOf(inst),
         NEW result \in WorldResults(inst, args, from), ~result.throws
  PROVE  AllSound(result.pushed) /\ \E line : Outcome(class, args, result, line, from)
<1>1. class \in WorldClasses /\ LettersOf(inst) \in Seq({"p"})
  BY LettersOfWorld
<1>2. AllSound(args) /\ FromAll(args) \in Seq(Nat)
  BY ArgumentsSound
<1>3. /\ LettersOf(inst) = <<>> => args = <<>>
      /\ LettersOf(inst) = <<"p">> => Len(args) = 1
      /\ LettersOf(inst) = <<"p", "p">> => Len(args) = 2
  <2>1. Len(args) = 0 => args = <<>>
    BY EmptySeq
  <2> QED
    BY <2>1, ShortLetters DEF ArgumentsFit
<1>4. /\ \A f \in Seq(Nat) : \A n \in Int : Len(f) <= 1 => Sound(IntValue(n, f))
      /\ \A f \in Seq(Nat) : \A name \in Names : Sound(VarValue(name, f))
  BY AtomsSound
<1>5. <<from>> \in Seq(Nat) /\ Len(<<from>>) <= 1
  OBVIOUS
<1>6. CASE class = "Push"
  <2> DEFINE u == IntValue(inst.val, <<from>>)
  <2>1. result = Result(<<u>>, <<>>)
    BY <1>6 DEF WorldResults
  <2>2. args = <<>> /\ class # "Pop"
    BY <1>3, <1>6 DEF LettersOf
  <2>3. u.from = <<from>> /\ Sound(u)
    BY <1>4, <1>5, AtomsFrom
  <2> HIDE DEF u
  <2>4. Outcome(class, args, Result(<<u>>, <<>>), <<>>, from)
    BY <2>2, <2>3, LoadOutcome
  <2> QED
    BY <2>1, <2>3, <2>4, PushedValues
<1>7. CASE class = "PushBank"
  <2> DEFINE u == VarValue("Read", <<from>>)
  <2>1. result = Result(<<u>>, <<>>)
    BY <1>7 DEF WorldResults
  <2>2. args = <<>> /\ class # "Pop"
    BY <1>3, <1>7 DEF LettersOf
  <2>3. u.from = <<from>> /\ Sound(u)
    BY <1>4, <1>5, AtomsFrom DEF Names
  <2> HIDE DEF u
  <2>4. Outcome(class, args, Result(<<u>>, <<>>), <<>>, from)
    BY <2>2, <2>3, LoadOutcome
  <2> QED
    BY <2>1, <2>3, <2>4, PushedValues
<1>8. CASE class = "Sub" /\ inst.op \in NegateOpcodes
  <2> DEFINE u == Negate(args[1])
  <2>1. result = Result(<<u>>, <<>>)
    BY <1>8 DEF WorldResults
  <2>2. class \notin Loads /\ Len(args) = 1
    BY <1>3, <1>8 DEF Loads, LettersOf
  <2>3. u.from = FromAll(args) /\ Sound(u)
    BY <2>2, SingleArgument, NegationsSound
  <2> HIDE DEF u
  <2>4. Outcome(class, args, Result(<<u>>, <<>>), <<>>, from)
    BY <1>2, <2>2, <2>3, OnePushed
  <2> QED
    BY <2>1, <2>3, <2>4, PushedValues
<1>9. CASE class = "Sub" /\ inst.op \notin NegateOpcodes
  <2> DEFINE op == SubOperators[inst.op]
  <2>1. PICK a \in {args, Reverse(args)} : result = Result(<<FlatValue(op, a[1], a[2])>>, <<>>)
    BY <1>9 DEF WorldResults
  <2>2. class \notin Loads /\ Len(args) = 2
    BY <1>3, <1>9 DEF Loads, LettersOf
  <2>3. op \in Words
    BY DEF Words
  <2> HIDE DEF op
  <2>4. /\ \E line : Outcome(class, args, Result(<<FlatValue(op, a[1], a[2])>>, <<>>), line, from)
        /\ Sound(FlatValue(op, a[1], a[2]))
    BY <2>2, <2>3, SubOutcome
  <2> QED
    BY <2>1, <2>4, PushedValues
<1>10. CASE class = "Equal"
  <2> DEFINE u == BinaryFIFO("==", args)
  <2>1. result = Result(<<u>>, <<>>)
    BY <1>10 DEF WorldResults
  <2>2. class \notin Loads /\ Len(args) = 2 /\ "==" \in Operations
    BY <1>3, <1>10 DEF Loads, LettersOf, Operations
  <2>3. u.from = FromAll(args) /\ Sound(u)
    <3>1. /\ Sound(args[1]) /\ Sound(args[2])
          /\ FromAll(args) = args[1].from \o args[2].from
      BY <2>2, PairOfArguments
    <3>2. MadeOf(BinaryOpValue("==", args[1], args[2]), args[1], args[2])
          /\ Sound(BinaryOpValue("==", args[1], args[2]))
      BY <2>2, <3>1, OperationsSound
    <3> QED
      BY <3>1, <3>2 DEF MadeOf, BinaryFIFO
  <2> HIDE DEF u
  <2>4. Outcome(class, args, Result(<<u>>, <<>>), <<>>, from)
    BY <1>2, <2>2, <2>3, OnePushed
  <2> QED
    BY <2>1, <2>3, <2>4, PushedValues
<1>11. CASE class = "WriteBank"
  <2>1. result = Result(<<>>, <<args>>)
    BY <1>11 DEF WorldResults
  <2>2. class \notin Loads
    BY <1>11 DEF Loads
  <2>3. Outcome(class, args, Result(<<>>, <<args>>), args, from)
    BY <1>2, <2>2, AllPrinted
  <2> QED
    BY <2>1, <2>3, PushedValues, SoundOnes
<1>12. CASE class = "CondJump"
  <2> DEFINE u == Negate(args[1])
             line == <<u>>
  <2>1. result = Result(<<>>, <<line>>)
    BY <1>12 DEF WorldResults
  <2>2. class \notin Loads /\ Len(args) = 1
    BY <1>3, <1>12 DEF Loads, LettersOf
  <2>3. u.from = FromAll(args) /\ Sound(u)
    BY <2>2, SingleArgument, NegationsSound
  <2> HIDE DEF u
  <2>4. AllSound(line) /\ FromAll(line) = FromAll(args)
    BY <1>2, <2>3, SoundOnes, FromAllOne
  <2>5. Outcome(class, args, Result(<<>>, <<line>>), line, from)
    BY <1>2, <2>2, <2>4, AllPrinted
  <2> QED
    BY <2>1, <2>5, PushedValues, SoundOnes
<1>13. CASE class = "Kernel"
  <2>1. PICK a \in {args, Reverse(args)} : result = Result(<<>>, <<a>>)
    <3>1. Throwing.throws
      BY DEF Throwing, Result
    <3>2. result # Throwing
      BY <3>1
    <3>3. ThrowsOn(inst.op, args) => WorldResults(inst, args, from) = {Throwing}
      BY <1>13 DEF WorldResults
    <3>4. ~ThrowsOn(inst.op, args)
      BY <3>2, <3>3
    <3> QED
      BY <1>13, <3>4 DEF WorldResults
  <2>2. class \notin Loads
    BY <1>13 DEF Loads
  <2>3. \E line : Outcome(class, args, Result(<<>>, <<a>>), line, from)
    BY <2>2, KernelOutcome
  <2> QED
    BY <2>1, <2>3, PushedValues, SoundOnes
<1>14. CASE class \in {"NoOutput", "Jump"}
  <2>1. result = Result(<<>>, <<>>)
    BY <1>14 DEF WorldResults
  <2>2. args = <<>> /\ class \notin Loads
    BY <1>3, <1>14 DEF LettersOf, Loads
  <2>3. Outcome(class, args, Result(<<>>, <<>>), <<>>, from)
    BY <2>2, NoOutcome
  <2> QED
    BY <2>1, <2>3, PushedValues, SoundOnes
<1> QED
  BY <1>1, <1>6, <1>7, <1>8, <1>9, <1>10, <1>11, <1>12, <1>13, <1>14 DEF WorldClasses

----------------------------------------------------------------------------
(***************************************************************************)
(* The operands taken from the stack are what it held on its top.          *)
(***************************************************************************)
LEMMA OperandsFromStack ==
  ASSUME NEW inst, NEW letters \in Seq(Alphabet), letters = LettersOf(inst),
         NEW V, NEW W, Pool(V, W, inst), stack \in Seq(V), Operands(inst).defined
  PROVE  /\ Operands(inst) \in TakenOf(V, W)
         /\ FromAll(stack) = MadeOfAll(Operands(inst))
<1> DEFINE n == Len(letters)
           m == FromAll(stack)
           S == {x \in TakenOf(V, W) : x.defined => MadeOfAll(x) = m}
<1>1. n \in Nat /\ \A k \in 1 .. n : letters[k] \in Alphabet
  OBVIOUS
<1>2. PICK g : /\ LetterByLetter(g, letters, inst) /\ AllTaken(g, n, V, W)
               /\ Operands(inst) = g[n]
  BY OperandsOneByOne
<1>3. g[0] \in S
  <2>1. g[0] \in TakenOf(V, W)
    BY <1>1, <1>2 DEF AllTaken
  <2>2. g[0].left = stack /\ g[0].args = <<>>
    BY <1>2 DEF LetterByLetter, Taken
  <2>3. Made(V)
    BY PoolMade
  <2>4. m \in Seq(Nat)
    BY <2>3, FromAllTyped
  <2>5. FromAll(<<>>) = <<>> /\ m \o <<>> = m
    BY <2>4, FromAllOne, ConcatEmptySeq
  <2>6. MadeOfAll(g[0]) = m
    BY <2>2, <2>5 DEF MadeOfAll
  <2> QED
    BY <2>1, <2>6
<1> HIDE DEF m, n
<1>4. ASSUME NEW k \in 0 + 1 .. n, g[k - 1] \in S
      PROVE  g[k] \in S
  <2> DEFINE x == g[k - 1]
             y == g[k]
  <2>1. k \in 1 .. n /\ k \in 0 .. n
    BY <1>1
  <2>2. x \in TakenOf(V, W) /\ y \in TakenOf(V, W) /\ (x.defined => MadeOfAll(x) = m)
    BY <1>2, <1>4, <2>1 DEF AllTaken
  <2>3. y = IF x.defined THEN Take(x, letters[k], inst) ELSE x
    BY <1>2, <2>1 DEF LetterByLetter, n
  <2> HIDE DEF x, y
  <2>4. ASSUME y.defined PROVE MadeOfAll(y) = m
    <3>1. x.defined /\ y = Take(x, letters[k], inst)
      BY <2>3, <2>4
    <3>2. TookAs(letters[k], x, y)
      BY <1>1, <2>1, <2>2, <3>1, LetterTakes
    <3>3. MadeOfAll(y) = MadeOfAll(x)
      BY <2>4, <3>2 DEF TookAs, Took
    <3> QED
      BY <2>2, <3>1, <3>3
  <2>5. y \in S
    BY <2>2, <2>4
  <2> QED
    BY <2>5 DEF y
<1>5. \A k \in 0 .. n : g[k] \in S
  <2>1. 0 \in Int /\ n \in Int
    BY <1>1
  <2> HIDE DEF S
  <2> QED
    BY <1>3, <1>4, <2>1, RecursionTyped
<1>6. n \in 0 .. n
  BY <1>1
<1>7. g[n] \in S
  BY <1>5, <1>6
<1> QED
  BY <1>2, <1>7 DEF m

\* What an instruction does with the values on the stack, in either engine.
Moves(V, left, pushed, line) ==
  /\ left \in Seq(V) /\ AllSound(pushed) /\ AllSound(line)
  /\ stack' = left \o pushed
  /\ \/ lines' = lines /\ line = <<>>
     \/ lines' = lines \o <<line>>

LEMMA OneStep ==
  ASSUME ReadInv, ProcessInst, phase' = "process", NEW V, \A v \in V : Sound(v), stack \in Seq(V),
         lines \in Seq(Seq(V)), NEW inst, inst = insts[it + 1]
  PROVE  /\ it \in Nat /\ it' = it + 1 /\ script' = script /\ insts' = insts /\ phase = "process"
         /\ it + 1 \in 1 .. Len(insts)
         /\ \E left, pushed, line : \E P \in Seq(Nat) :
              /\ Moves(V, left, pushed, line)
              /\ FromAll(stack) = FromAll(left) \o P
              /\ Placed(ClassOf(inst), P, FromAll(pushed), FromAll(line), it + 1)
<1> DEFINE taken == Operands(inst)
           W == ArgumentsOf(V, inst)
           letters == LettersOf(inst)
           class == ClassOf(inst)
           from == it + 1
<1>1. /\ phase = "process" /\ it \in Nat /\ it < Len(insts) /\ Len(insts) \in Nat
      /\ script' = script /\ insts' = insts
  BY DEF ReadInv, ProcessInst
<1>2. it + 1 \in 1 .. Len(insts) /\ from \in Nat
  BY <1>1
<1>3. /\ inst.op \in DOMAIN OpcodesOf(script.engine) /\ inst.val \in Int
      /\ ~IsScumm => inst.op \in Int
  <2>0. ReadSoFar /\ ReadAs(it + 1)
    BY <1>1, <1>2 DEF ReadInv, ReadSoFar, Disassembled
  <2> SUFFICES ASSUME ~IsScumm PROVE inst.op \in Int
    BY <2>0 DEF ReadAs
  <2>1. InPlace(it + 1) /\ it + 1 \in 1 .. Len(script.code)
    <3>1. AllInPlace
      BY <2>0, WorldsStay DEF ReadSoFar
    <3>2. Len(script.code) \in Nat
      BY ScriptFacts DEF ReadInv
    <3> QED
      BY <1>1, <1>2, <3>1, <3>2 DEF AllInPlace
  <2>2. \/ script.code \in Seq(Instructions(STRING)) /\ IsScumm
        \/ script.code \in Seq(Instructions(Nat)) /\ ~IsScumm
    BY ScriptsAssumption DEF ReadInv, IsScript, IsScumm
  <2>a. \A S : \A x \in Instructions(S) : x.val \in Int /\ x.op \in S
    BY DEF Instructions
  <2> DEFINE x == script.code[it + 1]
  <2>b. \/ x \in Instructions(STRING) /\ IsScumm
        \/ x \in Instructions(Nat) /\ ~IsScumm
    BY <2>1, <2>2
  <2>3. x.op \in Int
    <3> HIDE DEF x
    <3> QED
      BY <2>a, <2>b
  <2> QED
    BY <2>1, <2>3 DEF InPlace
<1>4. PICK result \in Results(inst, taken.args, from) :
        /\ taken.defined /\ ~result.throws /\ it' = it + 1
        /\ stack' = taken.left \o result.pushed /\ lines' = lines \o result.printed
  BY <1>1 DEF ProcessInst
<1>5. Pool(V, W, inst)
  BY <1>3, PoolOfArguments
<1>6. IsScumm => inst.op \in DOMAIN ScummOpcodeTable
  BY <1>3 DEF OpcodesOf, IsScumm
<1>7. ~IsScumm => inst.op \in DOMAIN WorldOpcodeTable
  BY <1>3 DEF OpcodesOf, IsScumm
<1>8. letters \in Seq(Alphabet)
  BY <1>6, <1>7, LettersOfScumm, LettersOfWorld
<1> HIDE DEF taken, W, letters, class, from
<1>9. taken \in TakenOf(V, W) /\ FromAll(stack) = MadeOfAll(taken)
  BY <1>4, <1>5, <1>8, OperandsFromStack DEF taken, letters
<1>10. ArgumentsFit(inst, taken.args)
  <2>1. letters \in Seq({"p", "l"}) => Len(taken.args) = Len(letters)
    BY <1>4, <1>5, ArgumentsCounted DEF taken, letters
  <2> QED
    BY <2>1 DEF ArgumentsFit, letters
<1>11. taken.args \in Seq(W) /\ taken.left \in Seq(V) /\ \A x \in W : Sound(x)
  BY <1>5, <1>9 DEF TakenOf, Pool
<1>12. AllSound(result.pushed) /\ \E line : Outcome(class, taken.args, result, line, from)
  <2>1. CASE IsScumm
    <3>1. result = ScummResult(inst, taken.args, from)
      BY <1>4, <2>1 DEF Results
    <3>2. AllSound(ScummResult(inst, taken.args, from).pushed)
      <4>1. LettersOf(inst) \in Seq({"p", "l"}) => Len(taken.args) = Len(LettersOf(inst))
        BY <1>10 DEF ArgumentsFit
      <4> QED
        BY <1>2, <1>3, <1>6, <1>11, <2>1, <4>1, ResultsOfScumm DEF from
    <3>3. \E line : Outcome(class, taken.args, ScummResult(inst, taken.args, from), line, from)
      BY <1>2, <1>6, <1>10, <1>11, <2>1, ScummPlaces DEF from, class
    <3> QED
      BY <3>1, <3>2, <3>3
  <2>2. CASE ~IsScumm
    <3>1. result \in WorldResults(inst, taken.args, from)
      BY <1>4, <2>2 DEF Results
    <3>2. from \in Nat
      BY <1>2 DEF from
    <3> QED
      BY <1>3, <1>4, <1>7, <1>10, <1>11, <2>2, <3>1, <3>2, WorldPlaces DEF class
  <2> QED
    BY <2>1, <2>2
<1>13. PICK line : Outcome(class, taken.args, result, line, from)
  BY <1>12
<1> DEFINE left == taken.left
           pushed == result.pushed
           P == FromAll(taken.args)
<1>14. P \in Seq(Nat)
  BY <1>11, ArgumentsSound
<1>15. FromAll(stack) = FromAll(left) \o P
  BY <1>9 DEF MadeOfAll
<1>16. Placed(class, P, FromAll(pushed), FromAll(line), from)
  BY <1>13 DEF Outcome
<1>17. Moves(V, left, pushed, line)
  <2>1. AllSound(line) /\ Prints(result, line)
    BY <1>13 DEF Outcome
  <2>2. lines \o <<>> = lines
    BY ConcatEmptySeq
  <2>3. \/ lines' = lines /\ line = <<>>
        \/ lines' = lines \o <<line>>
    BY <1>4, <2>1, <2>2 DEF Prints
  <2> QED
    BY <1>4, <1>11, <1>12, <2>1, <2>3 DEF Moves
<1> HIDE DEF left, pushed, P
<1> QED
  BY <1>1, <1>2, <1>4, <1>14, <1>15, <1>16, <1>17 DEF from, class

----------------------------------------------------------------------------
(***************************************************************************)
(* The order of the values, and that each is in one place, from one        *)
(* instruction to the next.                                                *)
(***************************************************************************)
LEMMA SingleOne ==
  ASSUME NEW n \in Nat
  PROVE  <<n>> \in Seq(Nat) /\ Single(<<n>>, n) /\ ToSet(<<n>>) = {n}
<1>1. <<n>> \in Seq(Nat) /\ ToSet(<<n>>) = {n}
  BY FewNumbers
<1> QED
  BY <1>1 DEF Single

LEMMA OnesBehind ==
  ASSUME NEW L \in Seq(Nat), NEW n \in Seq(Nat)
  PROVE  (L \o n) \o n = L \o (n \o n)
<1>1. JoinedEitherWay(L, n, n)
  BY ThreeJoined
<1> QED
  BY <1>1 DEF JoinedEitherWay

\* In a SCUMM script, what is pushed has the order of what is taken and of what is new.
LEMMA AscendingStep ==
  ASSUME NEW L \in Seq(Nat), NEW P \in Seq(Nat), NEW R, NEW from \in Nat, NEW old, old = L \o P,
         Ascending(old), NoneAbove(old, from), OrderedBy(P, R, from)
  PROVE  Ascending(P) /\ Ascending(L \o R)
<1> DEFINE n == <<from>>
           LP == L \o P
<1>1. n \in Seq(Nat) /\ Single(n, from) /\ ToSet(n) = {from}
  BY SingleOne
<1> HIDE DEF n
<1>2. Ascending(L) /\ Ascending(P)
  BY AscendingParts
<1>3. ToSet(LP) = ToSet(L) \cup ToSet(P) /\ LP \in Seq(Nat)
  BY SetJoined, ConcatProperties
<1>4. NoneAbove(L, from) /\ NoneAbove(LP, from) /\ Ascending(LP)
  BY <1>3 DEF NoneAbove
<1>5. L \o <<>> = L
  BY NothingBehind
<1>6. Ascending(L \o (P \o n))
  <2>1. Ascending(LP \o n)
    <3> HIDE DEF LP
    <3> QED
      BY <1>1, <1>3, <1>4, AscendingNext
  <2>2. LP \o n = L \o (P \o n)
    <3>1. JoinedEitherWay(L, P, n)
      BY <1>1, ThreeJoined
    <3> QED
      BY <3>1 DEF JoinedEitherWay
  <2> QED
    BY <2>1, <2>2
<1>7. Ascending(L \o (n \o n))
  <2> DEFINE Ln == L \o n
  <2>1. Ascending(Ln) /\ Ln \in Seq(Nat) /\ ToSet(Ln) = ToSet(L) \cup {from}
    BY <1>1, <1>2, <1>4, AscendingNext, SetJoined, ConcatProperties
  <2>2. Ln \o n = L \o (n \o n)
    BY <1>1, OnesBehind
  <2> HIDE DEF Ln
  <2>3. NoneAbove(Ln, from)
    BY <1>4, <2>1 DEF NoneAbove
  <2>4. Ascending(Ln \o n)
    BY <1>1, <2>1, <2>3, AscendingNext
  <2> QED
    BY <2>2, <2>4
<1>8. Len(P) <= 1 => Ascending(L \o (P \o P))
  <2>1. (L \o P) \o P = L \o (P \o P)
    <3>1. JoinedEitherWay(L, P, P)
      BY ThreeJoined
    <3> QED
      BY <3>1 DEF JoinedEitherWay
  <2>2. Len(P) <= 1 => Ascending((L \o P) \o P)
    BY <1>4, AscendingTwice
  <2> QED
    BY <2>1, <2>2
<1>9. \/ R = <<>> \/ R = P \/ R = P \o n \/ R = n \o n
      \/ Len(P) <= 1 /\ R = P \o P
  BY DEF OrderedBy, n
<1>10. Ascending(L \o R)
  <2>1. CASE R = <<>>
    BY <1>2, <1>5, <2>1
  <2>2. CASE R = P
    BY <1>4, <2>2
  <2>3. CASE R = P \o n
    BY <1>6, <2>3
  <2>4. CASE R = n \o n
    BY <1>7, <2>4
  <2>5. CASE Len(P) <= 1 /\ R = P \o P
    BY <1>8, <2>5
  <2> QED
    BY <1>9, <2>1, <2>2, <2>3, <2>4, <2>5
<1> QED
  BY <1>2, <1>10

\* In a world script, no value gets into two places: X are those of the lines so far.
LEMMA SpreadStep ==
  ASSUME NEW X \in Seq(Nat), NEW L \in Seq(Nat), NEW P \in Seq(Nat), NEW R \in Seq(Nat),
         NEW Q \in Seq(Nat), NEW from \in Nat, NEW old, old = L \o P, IsInjective(X \o old),
         from \notin ToSet(X) \cup ToSet(old), Spread(P, R, Q, from),
         ToSet(R) \cup ToSet(Q) \subseteq ToSet(P) \cup {from}
  PROVE  IsInjective((X \o Q) \o (L \o R))
<1>1. old \in Seq(Nat) /\ ToSet(old) = ToSet(L) \cup ToSet(P)
  BY SetJoined, ConcatProperties
<1>2. IsInjective(X) /\ IsInjective(old) /\ ToSet(X) \cap ToSet(old) = {}
  BY <1>1, InjectiveParts
<1>3. IsInjective(L) /\ IsInjective(P) /\ ToSet(L) \cap ToSet(P) = {}
  BY <1>2, InjectiveParts
<1>4. IsInjective(R) /\ IsInjective(Q) /\ ToSet(R) \cap ToSet(Q) = {}
  BY <1>1, <1>3 DEF Spread
<1>5. ToSet(X) \cap ToSet(Q) = {} /\ ToSet(L) \cap ToSet(R) = {}
      /\ (ToSet(X) \cup ToSet(Q)) \cap (ToSet(L) \cup ToSet(R)) = {}
  BY <1>1, <1>2, <1>3, <1>4
<1> DEFINE a == X \o Q
           b == L \o R
<1>6. a \in Seq(Nat) /\ ToSet(a) = ToSet(X) \cup ToSet(Q) /\ IsInjective(a)
  BY <1>2, <1>4, <1>5, SetJoined, InjectiveParts, ConcatProperties
<1>7. b \in Seq(Nat) /\ ToSet(b) = ToSet(L) \cup ToSet(R) /\ IsInjective(b)
  BY <1>3, <1>4, <1>5, SetJoined, InjectiveParts, ConcatProperties
<1> HIDE DEF a, b
<1>8. IsInjective(a \o b)
  BY <1>5, <1>6, <1>7, InjectiveParts
<1> QED
  BY <1>8 DEF a, b

\* The values and lines there are: every value is well formed.
Own(V, onStack, inLines) ==
  (\A v \in V : Sound(v)) /\ onStack \in Seq(V) /\ inLines \in Seq(Seq(V))

LEMMA PrintedFroms ==
  ASSUME NEW V, NEW onStack, NEW inLines, Own(V, onStack, inLines)
  PROVE  /\ FlattenSeq(inLines) \in Seq(V) /\ Made(V)
         /\ FromAll(onStack) \in Seq(Nat) /\ FromAll(FlattenSeq(inLines)) \in Seq(Nat)
         /\ FromAll(FlattenSeq(inLines) \o onStack)
              = FromAll(FlattenSeq(inLines)) \o FromAll(onStack)
<1>1. onStack \in Seq(V) /\ inLines \in Seq(Seq(V)) /\ Made(V)
  BY DEF Own, Made, Sound, Simple
<1>2. FlattenSeq(inLines) \in Seq(V)
  <2>1. Len(inLines) \in Nat /\ inLines \in [1 .. Len(inLines) -> Seq(V)]
    BY <1>1
  <2> QED
    BY <2>1, FlattenType
<1> DEFINE s == FlattenSeq(inLines)
<1> HIDE DEF s
<1>3. s \in Seq(V)
  BY <1>2 DEF s
<1>4. FromAll(onStack) \in Seq(Nat) /\ FromAll(s) \in Seq(Nat)
  BY <1>1, <1>3, FromAllTyped
<1>5. FromAll(s \o onStack) = FromAll(s) \o FromAll(onStack)
  BY <1>1, <1>3, FromAllJoined DEF FromBoth
<1> QED
  BY <1>1, <1>3, <1>4, <1>5 DEF s

\* The values and lines behind an instruction.
LEMMA OwnNext ==
  ASSUME NEW V, Own(V, stack, lines), NEW left, NEW pushed, NEW line,
         Moves(V, left, pushed, line)
  PROVE  \E U : /\ Own(U, stack', lines')
                /\ left \in Seq(U) /\ pushed \in Seq(U) /\ line \in Seq(U) /\ lines \in Seq(Seq(U))
<1> DEFINE U == V \cup ToSet(pushed) \cup ToSet(line)
<1>1. pushed \in Seq(U) /\ line \in Seq(U) /\ left \in Seq(U) /\ \A v \in U : Sound(v)
  BY SeqMonotonic DEF Moves, AllSound, Own
<1>2. lines \in Seq(Seq(U))
  <2>1. Seq(V) \subseteq Seq(U)
    BY SeqMonotonic
  <2> HIDE DEF U
  <2> QED
    BY <2>1, SeqMonotonic DEF Own
<1> HIDE DEF U
<1>3. stack' \in Seq(U)
  BY <1>1, ConcatProperties DEF Moves
<1>4. lines' \in Seq(Seq(U))
  <2>1. <<line>> \in Seq(Seq(U))
    BY <1>1, OneOf
  <2> DEFINE l == <<line>>
  <2> HIDE DEF l
  <2>2. lines' = lines \/ lines' = lines \o l
    BY DEF Moves, l
  <2> QED
    BY <1>2, <2>1, <2>2, ConcatProperties DEF l
<1> QED
  BY <1>1, <1>2, <1>3, <1>4 DEF Own

LEMMA FromsNext ==
  ASSUME NEW V, Own(V, stack', lines'), NEW left \in Seq(V), NEW pushed \in Seq(V),
         NEW line \in Seq(V), lines \in Seq(Seq(V)), NEW U, Moves(U, left, pushed, line)
  PROVE  /\ FromAll(stack') = FromAll(left) \o FromAll(pushed)
         /\ FromAll(FlattenSeq(lines')) = FromAll(FlattenSeq(lines)) \o FromAll(line)
<1>1. Made(V)
  BY PrintedFroms
<1>2. FromAll(stack') = FromAll(left) \o FromAll(pushed)
  BY <1>1, FromAllJoined DEF Moves, FromBoth
<1> DEFINE s == FlattenSeq(lines)
<1>3. s \in Seq(V)
  <2>1. Len(lines) \in Nat /\ lines \in [1 .. Len(lines) -> Seq(V)]
    OBVIOUS
  <2> QED
    BY <2>1, FlattenType
<1>4. FromAll(FlattenSeq(lines')) = FromAll(s) \o FromAll(line)
  <2>1. CASE lines' = lines /\ line = <<>>
    <3>1. FromAll(s) \in Seq(Nat)
      BY <1>1, <1>3, FromAllTyped
    <3>2. FromAll(line) = <<>> /\ FromAll(s) \o <<>> = FromAll(s)
      BY <2>1, <3>1, FromAllOne, NothingBehind
    <3> QED
      BY <2>1, <3>2
  <2>2. CASE lines' = lines \o <<line>>
    <3> DEFINE l == <<line>>
    <3>1. l \in Seq(Seq(V)) /\ FlattenSeq(l) = line
      BY OneOf, FlattenOne
    <3> HIDE DEF l
    <3>2. FlattenSeq(lines \o l) = FlattenSeq(lines) \o line
      BY <3>1, FlattenConcat
    <3>3. FlattenSeq(lines') = s \o line
      BY <2>2, <3>2 DEF l
    <3> HIDE DEF s
    <3>4. FromAll(s \o line) = FromAll(s) \o FromAll(line)
      BY <1>1, <1>3, FromAllJoined DEF FromBoth
    <3> QED
      BY <3>3, <3>4
  <2> QED
    BY <2>1, <2>2 DEF Moves
<1> QED
  BY <1>2, <1>4

----------------------------------------------------------------------------
\* There is no line before the code is processed; the values there are come from the
\* instructions so far, and are well formed.  The order is not inductive alone: that an
\* instruction is newer than every value there is follows from the fourth conjunct.
FromInv ==
  /\ phase \in {"header", "read", "string", "fix"} => lines = <<>>
  /\ phase \in {"header", "read", "string"} => it = 0
  /\ \E V : Own(V, stack, lines)
  /\ ToSet(FromAll(Printed)) \subseteq 1 .. it
  /\ OperandsInOrder

\* In the lines, each has the order of its operands.
LinesAscend(inLines) == \A i \in DOMAIN inLines : Ascending(FromAll(inLines[i]))

LEMMA LinesAscendNext ==
  ASSUME NEW V, NEW inLines \in Seq(Seq(V)), NEW line \in Seq(V), LinesAscend(inLines),
         Ascending(FromAll(line)), NEW next, next = inLines \o <<line>>
  PROVE  LinesAscend(next)
<1> DEFINE l == <<line>>
<1>1. l \in Seq(Seq(V)) /\ Len(l) = 1 /\ l[1] = line
  BY OneOf
<1> HIDE DEF l
<1>2. /\ next \in Seq(Seq(V)) /\ Len(inLines) \in Nat
      /\ \A i \in 1 .. Len(inLines) : next[i] = inLines[i]
      /\ \A i \in 1 .. Len(next) : \/ i \in 1 .. Len(inLines)
                                   \/ i > Len(inLines) /\ i - Len(inLines) \in 1 .. Len(l)
                                      /\ next[i] = l[i - Len(inLines)]
  <2>1. next = inLines \o l
    BY DEF l
  <2> QED
    BY <1>1, <2>1, JoinedPlaces
<1>3. ASSUME NEW i \in 1 .. Len(next) PROVE Ascending(FromAll(next[i]))
  <2>1. CASE i \in 1 .. Len(inLines)
    <3>1. next[i] = inLines[i] /\ i \in DOMAIN inLines
      BY <1>2, <2>1
    <3> QED
      BY <3>1 DEF LinesAscend
  <2>2. CASE i \notin 1 .. Len(inLines)
    <3>1. i - Len(inLines) = 1 /\ next[i] = l[i - Len(inLines)]
      BY <1>1, <1>2, <2>2
    <3>2. next[i] = line
      BY <1>1, <3>1
    <3> QED
      BY <3>2
  <2> QED
    BY <2>1, <2>2
<1>4. DOMAIN next = 1 .. Len(next)
  BY <1>2
<1> QED
  BY <1>3, <1>4 DEF LinesAscend

LEMMA SameClasses ==
  ASSUME script' = script, insts' = insts
  PROVE  /\ IsScumm' <=> IsScumm
         /\ AssignsLists' <=> AssignsLists
         /\ \A k : ClassOf(insts[k])' = ClassOf(insts[k])
BY DEF IsScumm, AssignsLists, ClassOf

\* The pushes so far, and whether a value has been dropped, after one more instruction.
LEMMA OneMorePush ==
  ASSUME it \in Nat, it' = it + 1, script' = script, insts' = insts,
         NEW class, class = ClassOf(insts[it + 1])
  PROVE  /\ Pushes' \subseteq Pushes \cup {it + 1}
         /\ it + 1 \in Pushes' => class \in Loads
         /\ class = "Pop" => Drops'
         /\ Drops => Drops'
<1>1. \A k : ClassOf(insts[k])' = ClassOf(insts[k])
  BY SameClasses
<1>2. Pushes' = {k \in 1 .. it + 1 : ClassOf(insts[k]) \in Loads}
  BY <1>1 DEF Pushes, Loads
<1>3. Pushes = {k \in 1 .. it : ClassOf(insts[k]) \in Loads}
  BY DEF Pushes, Loads
<1>4. Drops' <=> \E k \in 1 .. it + 1 : ClassOf(insts[k]) = "Pop"
  BY <1>1 DEF Drops
<1>5. 1 .. it + 1 = (1 .. it) \cup {it + 1} /\ it + 1 \in 1 .. it + 1
  BY ONLY it \in Nat
<1>6. Pushes' \subseteq Pushes \cup {it + 1} /\ (it + 1 \in Pushes' => class \in Loads)
  BY <1>2, <1>3, <1>5
<1>7. (class = "Pop" => Drops') /\ (Drops => Drops')
  BY <1>4, <1>5 DEF Drops
<1> QED
  BY <1>6, <1>7

LEMMA FromsWhileProcessing ==
  ASSUME ReadInv, FromInv, ProcessInst, phase' = "process"
  PROVE  FromInv'
<1> DEFINE inst == insts[it + 1]
           class == ClassOf(inst)
           from == it + 1
<1>1. PICK V : Own(V, stack, lines)
  BY DEF FromInv
<1>2. /\ it \in Nat /\ it' = it + 1 /\ script' = script /\ insts' = insts /\ phase = "process"
      /\ it + 1 \in 1 .. Len(insts)
      /\ \E left, pushed, line : \E P \in Seq(Nat) :
           /\ Moves(V, left, pushed, line)
           /\ FromAll(stack) = FromAll(left) \o P
           /\ Placed(class, P, FromAll(pushed), FromAll(line), from)
  BY <1>1, OneStep DEF Own
<1> HIDE DEF class
<1>3. PICK left, pushed, line : \E P \in Seq(Nat) :
        /\ Moves(V, left, pushed, line)
        /\ FromAll(stack) = FromAll(left) \o P
        /\ Placed(class, P, FromAll(pushed), FromAll(line), from)
  BY <1>2
<1>4. PICK P \in Seq(Nat) :
        /\ Moves(V, left, pushed, line)
        /\ FromAll(stack) = FromAll(left) \o P
        /\ Placed(class, P, FromAll(pushed), FromAll(line), from)
  BY <1>3
<1>5. PICK U : /\ Own(U, stack', lines')
               /\ left \in Seq(U) /\ pushed \in Seq(U) /\ line \in Seq(U) /\ lines \in Seq(Seq(U))
  BY <1>1, <1>4, OwnNext
<1> DEFINE X == FromAll(FlattenSeq(lines))
           L == FromAll(left)
           R == FromAll(pushed)
           Q == FromAll(line)
           old == FromAll(stack)
           all == FromAll(Printed)
           next == FromAll(Printed')
<1>6. /\ X \in Seq(Nat) /\ L \in Seq(Nat) /\ R \in Seq(Nat) /\ Q \in Seq(Nat) /\ old \in Seq(Nat)
      /\ all = X \o old
  <2>1. Made(U)
    BY <1>5, PrintedFroms
  <2>2. L \in Seq(Nat) /\ R \in Seq(Nat) /\ Q \in Seq(Nat)
    BY <1>5, <2>1, FromAllTyped
  <2>3. X \in Seq(Nat) /\ old \in Seq(Nat) /\ all = X \o old
    BY <1>1, PrintedFroms DEF Printed
  <2> QED
    BY <2>2, <2>3
<1>7. FromAll(stack') = L \o R /\ FromAll(FlattenSeq(lines')) = X \o Q
  BY <1>4, <1>5, FromsNext
<1>8. next = (X \o Q) \o (L \o R)
  <2>1. FromAll(FlattenSeq(lines') \o stack') = FromAll(FlattenSeq(lines')) \o FromAll(stack')
    BY <1>5, PrintedFroms
  <2> QED
    BY <1>7, <2>1 DEF Printed
<1>9. Placed(class, P, R, Q, from) /\ old = L \o P
  BY <1>4
<1>10. ToSet(all) \subseteq 1 .. it /\ OperandsInOrder
  BY DEF FromInv
<1>a. \/ lines' = lines /\ line = <<>>
      \/ lines' = lines \o <<line>>
  BY <1>4 DEF Moves
<1>b. AssignsLists' <=> AssignsLists
  BY <1>2, SameClasses
<1>c. IsScumm' <=> IsScumm
  BY <1>2, SameClasses
<1>d. class \in Assigns => AssignsLists
  <2>1. it + 1 \in DOMAIN insts
    BY <1>2 DEF ReadInv
  <2> QED
    BY <2>1 DEF AssignsLists, class, Assigns
<1>e. FromAll(stack') = L \o R
  BY <1>7
<1> HIDE DEF X, L, R, Q, old, all, next, inst
<1>12. /\ ToSet(old) = ToSet(L) \cup ToSet(P) /\ ToSet(all) = ToSet(X) \cup ToSet(old)
       /\ ToSet(next) = ToSet(X) \cup ToSet(Q) \cup ToSet(L) \cup ToSet(R)
  <2> DEFINE a == X \o Q
             b == L \o R
  <2>1. a \in Seq(Nat) /\ ToSet(a) = ToSet(X) \cup ToSet(Q)
    BY <1>6, SetJoined, ConcatProperties
  <2>2. b \in Seq(Nat) /\ ToSet(b) = ToSet(L) \cup ToSet(R)
    BY <1>6, SetJoined, ConcatProperties
  <2>3. next = a \o b
    BY <1>8
  <2> HIDE DEF a, b
  <2>4. ToSet(next) = ToSet(X) \cup ToSet(Q) \cup ToSet(L) \cup ToSet(R)
    BY <2>1, <2>2, <2>3, SetJoined
  <2>5. ToSet(old) = ToSet(L) \cup ToSet(P)
    BY <1>6, <1>9, SetJoined
  <2>6. ToSet(all) = ToSet(X) \cup ToSet(old)
    BY <1>6, SetJoined
  <2> QED
    BY <2>4, <2>5, <2>6
<1>13. from \in Nat /\ from \notin ToSet(X) \cup ToSet(old) /\ NoneAbove(old, from)
  BY <1>2, <1>10, <1>12 DEF NoneAbove
<1>14. ToSet(R) \cup ToSet(Q) \subseteq ToSet(P) \cup {from}
  BY <1>9 DEF Placed
<1>15. ToSet(next) \subseteq 1 .. it'
  <2>1. 1 .. it \subseteq 1 .. it' /\ from \in 1 .. it'
    BY <1>2
  <2>2. ToSet(next) \subseteq ToSet(all) \cup {from}
    BY <1>12, <1>14
  <2> HIDE DEF from
  <2> QED
    BY <1>10, <2>1, <2>2
<1>16. ASSUME IsScumm, ~AssignsLists
       PROVE  Ascending(FromAll(stack')) /\ LinesAscend(lines')
  <2>1. Ascending(old) /\ LinesAscend(lines)
    BY <1>10, <1>16 DEF OperandsInOrder, LinesAscend, old
  <2>2. OrderedBy(P, R, from) /\ Q \in {<<>>, P}
    BY <1>9, <1>16, <1>d DEF Placed
  <2>3. Ascending(P) /\ Ascending(L \o R)
    BY <1>6, <1>9, <1>13, <2>1, <2>2, AscendingStep
  <2>4. Ascending(Q)
    BY <2>2, <2>3, FewNumbers
  <2>5. LinesAscend(lines')
    <3>1. CASE lines' = lines
      BY <2>1, <3>1
    <3>2. CASE lines' = lines \o <<line>>
      BY <1>5, <2>1, <2>4, <3>2, LinesAscendNext DEF Q
    <3> QED
      BY <1>a, <3>1, <3>2
  <2> QED
    BY <1>e, <2>3, <2>5
<1>17. ASSUME ~IsScumm PROVE IsInjective(next)
  <2>1. IsInjective(X \o old)
    BY <1>6, <1>10, <1>17 DEF OperandsInOrder, all
  <2>2. Spread(P, R, Q, from)
    BY <1>9, <1>17 DEF Placed
  <2>3. IsInjective((X \o Q) \o (L \o R))
    BY <1>6, <1>9, <1>13, <1>14, <2>1, <2>2, SpreadStep
  <2> QED
    BY <1>8, <2>3
<1>18. ASSUME ~Drops' PROVE Pushes' \subseteq ToSet(next)
  <2>1. /\ Pushes' \subseteq Pushes \cup {from} /\ (from \in Pushes' => class \in Loads)
        /\ class # "Pop" /\ ~Drops
    BY <1>2, <1>18, OneMorePush DEF class, inst
  <2>2. Pushes \subseteq ToSet(all)
    BY <1>2, <1>10, <2>1 DEF OperandsInOrder, Disassembled, all
  <2>3. ToSet(P) \subseteq ToSet(R) \cup ToSet(Q)
    BY <1>9, <2>1 DEF Placed
  <2>4. class \in Loads => from \in ToSet(R)
    BY <1>9 DEF Placed
  <2>5. ToSet(all) \subseteq ToSet(next)
    BY <1>12, <2>3
  <2> QED
    BY <1>12, <2>1, <2>2, <2>4, <2>5
<1>19. OperandsInOrder'
  BY <1>16, <1>17, <1>18, <1>b, <1>c DEF OperandsInOrder, LinesAscend, next
<1>20. ToSet(FromAll(Printed))' \subseteq (1 .. it)'
  BY <1>15 DEF next
<1> QED
  BY <1>5, <1>19, <1>20 DEF FromInv

LEMMA NothingPrinted ==
  FlattenSeq(<<>>) \o <<>> = <<>> /\ FromAll(<<>>) = <<>> /\ Own({}, <<>>, <<>>)
<1>1. FlattenSeq(<<>>) \o <<>> = <<>>
  BY FlattenNone, ConcatEmptySeq, EmptySeq
<1>2. Own({}, <<>>, <<>>)
  BY EmptySeq DEF Own
<1> QED
  BY <1>1, <1>2, FromAllOne

\* While there is nothing on the stack and no line.
LEMMA OrderOfNothing ==
  ASSUME stack = <<>>, lines = <<>>, phase = "process" => it = 0, phase # "done"
  PROVE  /\ \E V : Own(V, stack, lines)
         /\ ToSet(FromAll(Printed)) \subseteq 1 .. it
         /\ OperandsInOrder
<1>1. FromAll(Printed) = <<>> /\ FromAll(stack) = <<>> /\ Own({}, stack, lines)
  BY NothingPrinted DEF Printed
<1>2. ToSet(FromAll(Printed)) = {} /\ Ascending(FromAll(stack)) /\ IsInjective(FromAll(Printed))
  BY <1>1, FewNumbers
<1>3. Disassembled => Pushes = {}
  BY DEF Disassembled, Pushes
<1>4. DOMAIN lines = {}
  BY EmptySeq
<1>5. OperandsInOrder
  BY <1>2, <1>3, <1>4 DEF OperandsInOrder
<1> QED
  BY <1>1, <1>2, <1>5

LEMMA FromInvInit == StackCodeInit => FromInv
<1> SUFFICES ASSUME StackCodeInit PROVE FromInv
  OBVIOUS
<1>1. stack = <<>> /\ lines = <<>> /\ phase = "header" /\ it = 0
  BY DEF StackCodeInit, StackInit
<1> QED
  BY <1>1, OrderOfNothing DEF FromInv

LEMMA FromInvStep == ReadInv /\ FromInv /\ [StackCodeNext]_stackVars => FromInv'
<1> SUFFICES ASSUME ReadInv, FromInv, [StackCodeNext]_stackVars PROVE FromInv'
  OBVIOUS
<1>1. CASE ProcessInst
  <2>1. CASE phase' = "process"
    BY <1>1, <2>1, FromsWhileProcessing
  <2>2. CASE phase' # "process"
    <3>1. /\ phase' \in {"undefined", "failed"} /\ UNCHANGED <<script, insts, it, stack, lines>>
      BY <1>1, <2>2 DEF ProcessInst
    <3>2. (IsScumm' <=> IsScumm) /\ (AssignsLists' <=> AssignsLists) /\ ~Disassembled'
      BY <3>1, SameClasses DEF Disassembled
    <3>3. Printed' = Printed
      BY <3>1 DEF Printed
    <3>4. OperandsInOrder'
      BY <3>1, <3>2, <3>3 DEF FromInv, OperandsInOrder
    <3> QED
      BY <3>1, <3>3, <3>4 DEF FromInv
  <2> QED
    BY <2>1, <2>2
<1>2. CASE Disassemble /\ UNCHANGED <<stack, lines>>
  <2>1. phase \in {"header", "read", "string", "fix"} /\ phase' # "done"
    BY <1>2 DEF Disassemble, ReadHeader, ReadScumm, ReadString, ReadWorld, ReadOpcode, EndScumm, EndWorld,
       FixStackEffect, EndFix, Fail
  <2>2. stack' = <<>> /\ lines' = <<>>
    BY <1>2, <2>1 DEF ReadInv, FromInv
  <2>3. (phase' = "process" => it' = 0) /\ (phase' \in {"header", "read", "string"} => it' = 0)
    <3>1. CASE ReadHeader \/ ReadScumm \/ ReadString \/ ReadWorld \/ EndScumm \/ EndWorld
      <4>1. phase \in {"header", "read", "string"} /\ it' = it
        BY <3>1 DEF ReadHeader, ReadScumm, ReadString, ReadWorld, ReadOpcode, EndScumm, EndWorld, Fail
      <4> QED
        BY <4>1 DEF FromInv
    <3>2. CASE FixStackEffect
      <4>1. phase' \in {"fix", "undefined", "failed"}
        BY <3>2 DEF FixStackEffect
      <4> QED
        BY <4>1
    <3>3. CASE EndFix
      BY <3>3 DEF EndFix
    <3> QED
      BY <1>2, <3>1, <3>2, <3>3 DEF Disassemble
  <2>4. /\ (\E V : Own(V, stack, lines))'
        /\ (ToSet(FromAll(Printed)) \subseteq 1 .. it)'
        /\ OperandsInOrder'
    <3>1. (stack = <<>> /\ lines = <<>> /\ (phase = "process" => it = 0) /\ phase # "done" =>
             /\ \E V : Own(V, stack, lines)
             /\ ToSet(FromAll(Printed)) \subseteq 1 .. it
             /\ OperandsInOrder)'
      BY OrderOfNothing, PTL
    <3> QED
      BY <2>1, <2>2, <2>3, <3>1
  <2> QED
    BY <2>2, <2>3, <2>4 DEF FromInv
<1>3. CASE EndProcess \/ UNCHANGED stackVars
  <2>1. /\ UNCHANGED <<script, insts, it, stack, lines>>
        /\ phase' = phase \/ (phase = "process" /\ phase' = "done")
    BY <1>3 DEF EndProcess, stackVars
  <2>2. (IsScumm' <=> IsScumm) /\ (AssignsLists' <=> AssignsLists)
        /\ (Disassembled' <=> Disassembled)
    BY <2>1, SameClasses DEF Disassembled
  <2>3. Printed' = Printed /\ Pushes' = Pushes /\ (Drops' <=> Drops)
    BY <2>1 DEF Printed, Pushes, Drops, ClassOf
  <2>4. OperandsInOrder'
    BY <2>1, <2>2, <2>3 DEF FromInv, OperandsInOrder
  <2> QED
    BY <2>1, <2>3, <2>4 DEF FromInv
<1> QED
  BY <1>1, <1>2, <1>3 DEF StackCodeNext

\* No value is lost or printed in a place that is not its own, whatever the script: in
\* SCUMM scripts operands keep the order in which they were pushed, in world scripts each
\* value is in one place, and only the pop opcode drops any (the processInst of each
\* instruction, processSpecialMetadata, addArg and createListValue).
THEOREM OperandsAlwaysInOrder == StackCodeSpec => []OperandsInOrder
<1> DEFINE Inv == ReadInv /\ FromInv
<1>1. StackCodeInit => Inv
  BY ReadInvInit, FromInvInit
<1>2. Inv /\ [StackCodeNext]_stackVars => Inv'
  BY ReadInvStep, FromInvStep
<1>3. Inv => OperandsInOrder
  BY DEF FromInv
<1> QED
  BY <1>1, <1>2, <1>3, PTL DEF StackCodeSpec

----------------------------------------------------------------------------
(***************************************************************************)
(* The counters: where the walk over the loads ends, and what the stack    *)
(* effects can still be behind it.                                         *)
(***************************************************************************)
UpFrom(S, j) == {i \in S : i >= j}

\* A set of c or more numbers has one from which on there are c.
LEMMA CountedFrom ==
  ASSUME NEW n \in Nat, NEW S, S \subseteq 1 .. n, NEW c \in Nat, c > 0, c <= Cardinality(S)
  PROVE  \E j \in S : Cardinality(UpFrom(S, j)) = c
<1> DEFINE Upper(m) == {i \in S : i >= n + 1 - m}
           T == {m \in Nat : Cardinality(Upper(m)) >= c}
<1>1. IsFiniteSet(S)
  <2>1. IsFiniteSet(1 .. n) /\ S \in SUBSET (1 .. n)
    BY FS_Interval
  <2> QED
    BY <2>1, FS_Subset
<1>2. \A m \in Nat : IsFiniteSet(Upper(m)) /\ Cardinality(Upper(m)) \in Nat
  BY <1>1, FS_Subset, FS_CardinalityType
<1>3. Upper(0) = {} /\ Upper(n) = S
  <2>1. \A i \in S : i \in Int /\ 1 <= i /\ i <= n
    OBVIOUS
  <2>2. \A i \in S : ~(i >= n + 1 - 0) /\ i >= n + 1 - n
    BY <2>1
  <2> QED
    BY <2>2
<1>4. ASSUME NEW m \in Nat, m >= 1
      PROVE  Upper(m) = Upper(m - 1) \/ (n + 1 - m \in S /\ Upper(m) = Upper(m - 1) \cup {n + 1 - m})
  <2>1. \A i \in S : i \in Int
    OBVIOUS
  <2>2. \A i \in S : i >= n + 1 - m <=> i >= n + 1 - (m - 1) \/ i = n + 1 - m
    BY <1>4, <2>1
  <2> QED
    BY <2>2
<1>5. PICK m \in T : \A k \in T : m <= k
  <2>1. n \in T
    BY <1>3
  <2> HIDE DEF Last
  <2> QED
    BY <2>1, LeastNatural
<1> HIDE DEF Last
<1>a. Cardinality(Upper(0)) = 0
  BY <1>3, FS_EmptySet
<1>6. m \in Nat /\ Cardinality(Upper(m)) >= c /\ m # 0
  <2>1. m \in Nat /\ Cardinality(Upper(m)) >= c
    BY <1>5
  <2>2. ASSUME m = 0 PROVE FALSE
    <3>1. Cardinality(Upper(m)) = 0
      BY <1>a, <2>2
    <3> QED
      BY <2>1, <3>1
  <2> QED
    BY <2>1, <2>2
<1>7. ~(Cardinality(Upper(m - 1)) >= c) /\ m - 1 \in Nat
  <2> DEFINE k == m - 1
  <2>1. k \in Nat /\ ~(m <= k)
    BY <1>6
  <2> HIDE DEF k
  <2>2. k \notin T
    BY <1>5, <2>1
  <2>3. ~(Cardinality(Upper(k)) >= c)
    BY <2>1, <2>2
  <2> QED
    BY <2>1, <2>3 DEF k
<1>8. n + 1 - m \in S /\ Upper(m) = Upper(m - 1) \cup {n + 1 - m}
  BY <1>4, <1>6, <1>7
<1>9. Cardinality(Upper(m)) <= Cardinality(Upper(m - 1)) + 1
  <2> DEFINE before == Upper(m - 1)
             x == n + 1 - m
  <2>1. IsFiniteSet(before) /\ Cardinality(before) \in Nat /\ Upper(m) = before \cup {x}
    BY <1>2, <1>7, <1>8
  <2> HIDE DEF before, x
  <2>2. Cardinality(Upper(m)) <= Cardinality(before) + 1
    BY <2>1, FS_AddElement
  <2> QED
    BY <2>2 DEF before
<1>10. Cardinality(Upper(m)) = c
  <2> DEFINE x == Cardinality(Upper(m))
             y == Cardinality(Upper(m - 1))
  <2>1. x \in Nat /\ y \in Nat /\ x >= c /\ ~(y >= c) /\ x <= y + 1
    BY <1>2, <1>6, <1>7, <1>9
  <2> HIDE DEF x, y
  <2>2. x = c
    BY <2>1
  <2> QED
    BY <2>2 DEF x
<1>11. Upper(m) = UpFrom(S, n + 1 - m)
  BY DEF Upper, UpFrom
<1> QED
  BY <1>8, <1>10, <1>11

\* The walk over the loads stops before the instruction it starts from.
LEMMA InstBeforeWithin ==
  ASSUME NEW k \in Nat, k >= 1, NEW loads \in Nat, NEW found, found = InstBefore(k, loads),
         found # 0
  PROVE  found \in 1 .. k - 1
<1> DEFINE before == {j \in 1 .. k - 1 : IsLoad(j)}
<1>1. CASE loads = 0
  <2>1. found = k - 1
    BY <1>1 DEF InstBefore
  <2> QED
    BY <2>1
<1>2. CASE loads > 0 /\ Cardinality(before) < loads
  BY <1>2 DEF InstBefore
<1>3. CASE loads > 0 /\ ~(Cardinality(before) < loads)
  <2> DEFINE Goal(j) == Cardinality(UpFrom(before, j)) = loads
             at == CHOOSE j \in before : Goal(j)
  <2>1. found = at - 1
    <3>1. loads # 0
      BY <1>3
    <3> QED
      BY <1>3, <3>1 DEF InstBefore, UpFrom
  <2>2. \E j \in before : Goal(j)
    <3>1. IsFiniteSet(before) /\ before \subseteq 1 .. k - 1
      <4>1. IsFiniteSet(1 .. k - 1)
        BY FS_Interval
      <4>2. before \in SUBSET (1 .. k - 1)
        OBVIOUS
      <4> QED
        BY <4>1, <4>2, FS_Subset
    <3>2. Cardinality(before) \in Nat
      BY <3>1, FS_CardinalityType
    <3>3. loads <= Cardinality(before) /\ k - 1 \in Nat
      BY <1>3, <3>2
    <3> HIDE DEF before
    <3> DEFINE n == k - 1
    <3>4. n \in Nat /\ before \subseteq 1 .. n
      BY <3>1, <3>3
    <3> HIDE DEF n
    <3> QED
      BY <1>3, <3>3, <3>4, CountedFrom
  <2>3. at \in before
    <3> HIDE DEF Goal
    <3> QED
      BY <2>2
  <2> HIDE DEF at
  <2> QED
    BY <2>1, <2>3
<1> QED
  BY <1>1, <1>2, <1>3

\* No stack effect is a mark, nor as large as one without a number before it that is no
\* length of a list.
NoMark(k) ==
  insts[k].change < \h1000 \/ \E j \in 1 .. k - 1 : insts[j].val \notin 0 .. LongestList

CountInv ==
  /\ position \in 0 .. StreamEnd(script) + 2 /\ address \in Nat
  /\ phase \in {"header", "read", "string"} => it = 0
  /\ it <= Len(insts)
  /\ \A k \in 1 .. Len(insts) : insts[k].op \in DOMAIN OpcodesOf(script.engine)
  /\ IsScumm /\ phase = "fix" =>
       \A k \in 1 .. Len(insts) :
         IF k <= it THEN NoMark(k) ELSE insts[k].change = TableChange(k)
  /\ IsScumm /\ Disassembled => \A k \in 1 .. Len(insts) : NoMark(k)

\* The end of the script is behind each of its instructions.
LEMMA WithinStream ==
  ASSUME IsScript(script), NEW i \in 1 .. Len(script.code) + 1
  PROVE  At(script)[i] \in 0 .. StreamEnd(script) /\ StreamEnd(script) \in Nat
<1> DEFINE n == Len(script.code) + 1
<1>1. n \in 1 .. n /\ n \in Nat
  BY ScriptFacts
<1>2. StreamEnd(script) = At(script)[n] /\ \A j \in 1 .. n : At(script)[j] \in Nat
  BY Layout DEF StreamEnd, At
<1>3. i < n => At(script)[i] < At(script)[n]
  BY <1>1, PositionsAscend
<1> HIDE DEF n
<1>4. i \in 1 .. n
  BY DEF n
<1>5. i = n \/ i < n
  BY <1>1, <1>4
<1> QED
  BY <1>1, <1>2, <1>3, <1>4, <1>5

LEMMA CountInvInit == StackCodeInit => CountInv
<1> SUFFICES ASSUME StackCodeInit PROVE CountInv
  OBVIOUS
<1>1. /\ phase = "header" /\ position = 0 /\ address = 0 /\ insts = <<>> /\ it = 0
      /\ IsScript(script)
  BY DEF StackCodeInit, StackInit, IsScript
<1>2. StreamEnd(script) \in Nat
  <2>1. 1 \in 1 .. Len(script.code) + 1
    BY <1>1, ScriptFacts
  <2> QED
    BY <1>1, <2>1, WithinStream
<1>3. Len(insts) = 0
  BY <1>1, EmptySeq
<1> QED
  BY <1>1, <1>2, <1>3 DEF CountInv, Disassembled

LEMMA CountsAfterHeader ==
  ASSUME ReadInv, CountInv, ReadHeader
  PROVE  CountInv'
<1>1. /\ IsScript(script) /\ phase = "header" /\ insts = <<>> /\ Len(insts) \in Nat
      /\ UNCHANGED <<script, insts, it>> /\ phase' \in {"failed", "read"} /\ it = 0
  BY DEF ReadInv, ReadHeader, Fail, CountInv
<1>2. \/ position' = position /\ address' = address
      \/ position' = FirstPosition(script) /\ address' \in {0, FirstPosition(script)}
  <2>1. CASE IsScumm /\ script.block \notin KnownBlocks
    BY <2>1 DEF ReadHeader, Fail
  <2>2. CASE ~(IsScumm /\ script.block \notin KnownBlocks)
    <3>1. position' = FirstPosition(script) /\ address' \in {0, FirstPosition(script)}
      BY <2>2 DEF ReadHeader
    <3> QED
      BY <3>1
  <2> QED
    BY <2>1, <2>2
<1>3. FirstPosition(script) \in 0 .. StreamEnd(script) /\ FirstPosition(script) \in Nat
      /\ StreamEnd(script) \in Nat
  <2>1. 1 \in 1 .. Len(script.code) + 1
    BY <1>1, ScriptFacts
  <2>2. At(script)[1] = FirstPosition(script)
    BY <1>1, Layout
  <2> QED
    BY <1>1, <2>1, <2>2, WithinStream
<1>4. position' \in 0 .. StreamEnd(script) + 2 /\ address' \in Nat
  BY <1>2, <1>3 DEF CountInv
<1> QED
  BY <1>1, <1>4 DEF CountInv, Disassembled

\* What is read of a string up to its first sound is a string.
LEMMA ItemsReadTyped ==
  ASSUME NEW inst, inst.string \in Seq(STRING)
  PROVE  ItemsRead(inst) \in Seq(STRING)
<1> DEFINE t == inst.string
           S == {i \in 1 .. Len(t) : t[i] = "sound"}
           first == SelectInSeq(t, LAMBDA x : x = "sound")
<1>1. CASE ~Sounds(inst)
  BY <1>1 DEF ItemsRead
<1>2. CASE Sounds(inst)
  <2>1. S # {}
    BY <1>2 DEF Sounds, ToSet
  <2>2. first = CHOOSE i \in S : \A j \in S : i <= j
    BY <2>1 DEF SelectInSeq, Min
  <2>3. \E i \in S : \A j \in S : i <= j
    <3>1. S \subseteq Nat
      OBVIOUS
    <3> QED
      BY <2>1, <3>1, LeastNatural
  <2> HIDE DEF first
  <2>4. first \in 1 .. Len(t)
    BY <2>2, <2>3
  <2>5. ItemsRead(inst) = SubSeq(t, 1, first)
    BY <1>2 DEF ItemsRead, first
  <2> QED
    BY <2>4, <2>5
<1> QED
  BY <1>1, <1>2

\* A seek stays in the file as well as an instruction.
LEMMA PositionStays ==
  ASSUME ReadInv, CountInv, phase = "read", ReadOpcode, ~Unknown,
         NEW stored, stored = stream[position]
  PROVE  position' \in 0 .. StreamEnd(script) + 2
<1>1. IsScript(script) /\ position \in DOMAIN StreamOf(script)
      /\ stored = StreamOf(script)[position]
  BY DEF ReadInv, Unknown
<1>2. /\ position \in Nat /\ position + BytesIn(script.engine, stored) <= StreamEnd(script)
      /\ stored.string \in Seq(STRING)
  BY <1>1, StreamTyped
<1>3. BytesIn(script.engine, stored) \in Nat /\ script.engine \in {"scumm", "world"}
  BY <1>1, <1>2, ScriptFacts, InstructionsTakeBytes
<1> DEFINE n == Len(script.code) + 1
<1>4. n \in 1 .. Len(script.code) + 1
  BY <1>1, ScriptFacts
<1>5. StreamEnd(script) \in Nat /\ StreamEnd(script) = At(script)[n]
  BY <1>1, <1>4, WithinStream DEF StreamEnd, At
<1> HIDE DEF n
<1>6. CASE Overrides(stored)
  <2>1. position' \in {OverrideSeek, position}
    BY <1>6 DEF ReadOpcode
  <2>2. script.engine = "scumm"
    BY <1>6 DEF Overrides, IsScumm
  <2>3. At(script)[n] >= 8
    BY <1>1, <1>4, <2>2, ScummBegins
  <2> QED
    BY <1>2, <1>3, <1>5, <2>1, <2>3 DEF OverrideSeek
<1>7. CASE ~Overrides(stored)
  <2>1. position' \in {position, position + BytesIn(script.engine, stored)}
    BY <1>7 DEF ReadOpcode
  <2> QED
    BY <1>2, <1>3, <1>5, <2>1
<1> QED
  BY <1>6, <1>7

LEMMA CountsWhileReading ==
  ASSUME ReadInv, CountInv, phase = "read", ReadOpcode, UNCHANGED <<script, stream>>
  PROVE  CountInv'
<1>1. IsScript(script) /\ Len(insts) \in Nat /\ it' = it /\ it = 0
      /\ script.engine \in {"scumm", "world"}
  <2>1. it' = it /\ it = 0
    BY DEF ReadOpcode, Fail, CountInv
  <2> QED
    BY <2>1, ScriptFacts DEF ReadInv
<1>2. CASE Unknown
  <2>1. phase' = "failed" /\ UNCHANGED <<position, address, insts>>
    BY <1>2 DEF ReadOpcode, Fail
  <2> QED
    BY <1>1, <2>1 DEF CountInv, Disassembled
<1>3. CASE ~Unknown
  <2>1. PICK stored : stored = stream[position]
    OBVIOUS
  <2> DEFINE params == OpcodesOf(script.engine)[stored.op].params
  <2>2. /\ phase' \in {"read", "string"} /\ Len(insts') = Len(insts) + 1
        /\ \A k \in 1 .. Len(insts) + 1 : ReadAs(k)'
        /\ stored.op \in DOMAIN OpcodesOf(script.engine)
    <3>1. ReadSoFar
      BY DEF ReadInv
    <3> QED
      BY <1>3, <2>1, <3>1, OpcodeKnown
  <2>3. position' \in 0 .. StreamEnd(script) + 2
    BY <1>3, <2>1, PositionStays
  <2>4. address' = address + OpcodeBytes(script.engine, stored.op)
                     + ParamAddress(params, ItemsRead(stored)) + SkippedBytes(stored)
    BY <1>3, <2>1 DEF ReadOpcode
  <2>5. stored.string \in Seq(STRING)
    <3>1. position \in DOMAIN StreamOf(script) /\ stored = StreamOf(script)[position]
      BY <1>3, <2>1 DEF ReadInv, Unknown
    <3> QED
      BY <1>1, <3>1, StreamTyped
  <2>6. address' \in Nat
    <3> DEFINE a == OpcodeBytes(script.engine, stored.op)
               b == ParamAddress(params, ItemsRead(stored))
               c == SkippedBytes(stored)
    <3>1. a \in Nat /\ c \in Nat
      BY DEF OpcodeBytes, SkippedBytes
    <3>2. b \in Nat
      <4>1. params \in ScummFormats
        BY <1>1, <2>2, KnownFormats
      <4>2. ItemsRead(stored) \in Seq(STRING)
        BY <2>5, ItemsReadTyped
      <4> HIDE DEF params
      <4> QED
        BY <4>1, <4>2, ParamsAddUp
    <3>3. address \in Nat
      BY DEF CountInv
    <3>4. address' = address + a + b + c
      BY <2>4
    <3> HIDE DEF a, b, c
    <3> QED
      BY <3>1, <3>2, <3>3, <3>4
  <2>7. \A k \in 1 .. Len(insts') : insts'[k].op \in DOMAIN OpcodesOf(script'.engine)
    BY <2>2 DEF ReadAs
  <2>8. it' = 0 /\ it' <= Len(insts')
    BY <1>1, <2>2
  <2> HIDE DEF params
  <2> QED
    BY <1>1, <2>2, <2>3, <2>6, <2>7, <2>8 DEF CountInv, Disassembled
<1> QED
  BY <1>2, <1>3

\* Nor does the rest of a string behind a sound pass the end of the file.
LEMMA CountsInString ==
  ASSUME ReadInv, CountInv, ReadString
  PROVE  CountInv'
<1> DEFINE items == script.tail
           bytes == SizeOfItems([i \in DOMAIN items |-> ItemBytes(items[i])])
           moved == SizeOfItems([i \in DOMAIN items |-> ItemAddress(items[i])])
           behind == SoundSeek + 1 + bytes
<1>1. /\ phase = "string" /\ phase' \in {"read", "failed"}
      /\ UNCHANGED <<script, insts, it>> /\ it = 0 /\ address \in Nat
      /\ position \in 0 .. StreamEnd(script) + 2
  BY DEF ReadString, Fail, CountInv
<1>2. script.tail \in Seq(STRING) /\ StreamEnd(script) \in Nat
  <2>1. IsScumm /\ IsScript(script)
    BY <1>1 DEF ReadInv, Strayed
  <2>2. script \in ScummScripts
    BY <2>1, ScriptsAssumption DEF IsScumm, IsScript
  <2>3. Len(script.code) + 1 \in 1 .. Len(script.code) + 1
    BY <2>1, ScriptFacts
  <2> QED
    BY <2>1, <2>2, <2>3, ScriptsAssumption, WithinStream
<1>3. bytes \in Nat /\ moved \in Nat
  BY <1>2, ItemsAddUp
<1>4. \/ position' = position /\ address' = address
      \/ position' = behind /\ behind <= StreamEnd(script) /\ address' = address + moved
  <2>1. CASE behind > StreamEnd(script)
    BY <2>1 DEF ReadString, Fail
  <2>2. CASE ~(behind > StreamEnd(script))
    <3>1. position' = behind /\ address' = address + moved
      BY <2>2 DEF ReadString
    <3>2. behind \in Nat
      BY <1>3 DEF SoundSeek
    <3> HIDE DEF behind, moved
    <3> QED
      BY <1>2, <2>2, <3>1, <3>2
  <2> QED
    BY <2>1, <2>2
<1>5. behind \in Nat
  BY <1>3 DEF SoundSeek
<1> HIDE DEF behind, moved
<1>6. position' \in 0 .. StreamEnd(script) + 2 /\ address' \in Nat
  BY <1>1, <1>2, <1>3, <1>4, <1>5
<1> QED
  BY <1>1, <1>6 DEF CountInv, Disassembled

LEMMA CountsAfterReading ==
  ASSUME ReadInv, EffectsInv, CountInv, EndScumm \/ EndWorld
  PROVE  CountInv'
<1>1. CASE EndScumm
  <2>1. /\ IsScumm /\ phase = "read" /\ phase' = "fix" /\ it = 0
        /\ UNCHANGED <<script, position, address, insts, it>>
    BY <1>1 DEF EndScumm, CountInv
  <2>2. \A k \in 1 .. Len(insts) : insts[k].change = TableChange(k) /\ ~(k <= it)
    BY <2>1 DEF EffectsInv
  <2>3. \A k \in 1 .. Len(insts') : insts'[k].change = TableChange(k)' /\ ~(k <= it')
    BY <2>1, <2>2 DEF TableChange
  <2> QED
    BY <2>1, <2>3 DEF CountInv, Disassembled
<1>2. CASE EndWorld /\ ~WordBehind
  <2>1. phase' = "failed" /\ UNCHANGED <<script, position, address, insts, it>>
    BY <1>2 DEF EndWorld, Fail
  <2> QED
    BY <2>1 DEF CountInv, Disassembled
<1>3. CASE EndWorld /\ WordBehind
  <2>1. /\ insts' = [k \in DOMAIN insts |-> AsWords(insts[k])] /\ ~IsScumm /\ it' = it /\ it = 0
        /\ phase' = "process" /\ position' = position + 2 /\ UNCHANGED <<script, address>>
        /\ phase = "read"
    BY <1>3 DEF EndWorld, CountInv
  <2>2. /\ IsScript(script) /\ Len(insts) \in Nat /\ DOMAIN insts = 1 .. Len(insts)
        /\ insts \in Seq(ToSet(insts)) /\ position = At(script)[Len(insts) + 1] /\ ReadSoFar
        /\ AllInPlace
    BY <2>1, WorldsStay DEF ReadInv, ReadSoFar
  <2>3. Len(insts) + 1 \in 1 .. Len(script.code) + 1
    BY <2>2, ScriptFacts DEF AllInPlace
  <2>4. position' \in 0 .. StreamEnd(script) + 2
    <3>1. At(script)[Len(insts) + 1] \in 0 .. StreamEnd(script) /\ StreamEnd(script) \in Nat
      BY <2>2, <2>3, WithinStream
    <3> QED
      BY <2>1, <2>2, <3>1
  <2>5. Len(insts') = Len(insts)
    <3>1. insts' = [k \in DOMAIN insts |-> insts'[k]]
      BY <2>1
    <3> QED
      BY <2>2, <3>1, Rewritten
  <2>6. ASSUME NEW k \in 1 .. Len(insts')
        PROVE  insts'[k].op \in DOMAIN OpcodesOf(script'.engine)
    <3>1. insts'[k] = AsWords(insts[k]) /\ ReadAs(k)
      BY <2>1, <2>2, <2>5 DEF ReadSoFar
    <3>2. AsWords(insts[k]).op = insts[k].op
      BY <3>1 DEF AsWords, ReadAs, Entry
    <3> QED
      BY <2>1, <3>1, <3>2 DEF ReadAs
  <2>7. ~IsScumm' /\ it' <= Len(insts')
    BY <2>1, <2>2, <2>5 DEF IsScumm
  <2> QED
    BY <2>1, <2>4, <2>6, <2>7 DEF CountInv
<1> QED
  BY <1>1, <1>2, <1>3

LEMMA CountsWhileFixing ==
  ASSUME ReadInv, CountInv, FixStackEffect
  PROVE  CountInv'
<1>0. it \in Nat
  BY DEF ReadInv
<1>a. PICK k \in Nat : k = it + 1
  BY <1>0
<1> DEFINE n == Len(insts)
           change == insts[k].change
           loads == Nibble(change, \h100)
           found == InstBefore(k, loads)
           fixed == StackEffect(change, insts[found].val)
<1>1. /\ IsScumm /\ phase = "fix" /\ it \in Nat /\ it < n /\ n \in Nat
      /\ DOMAIN insts = 1 .. n /\ insts \in Seq(ToSet(insts))
      /\ UNCHANGED <<script, position, address>>
  BY DEF ReadInv, FixStackEffect
<1>2. KnownInstructions
  BY <1>1, ScummInstructions
<1>3. \/ phase' = "fix" /\ it' = k /\ insts' = insts /\ ~Marked(change)
      \/ /\ phase' = "fix" /\ it' = k /\ insts' = [insts EXCEPT ![k].change = fixed] /\ found # 0
      \/ phase' \in {"undefined", "failed"} /\ it' = it /\ insts' = insts
  BY <1>1, <1>a DEF FixStackEffect
<1>4. k \in 1 .. n /\ k >= 1 /\ ~(k <= it) /\ insts[k].op \in DOMAIN ScummOpcodeTable
  BY <1>1, <1>2, <1>a DEF KnownInstructions
<1>5. change \in Int
  <2>1. change = TableChange(k)
    BY <1>1, <1>4 DEF CountInv
  <2>2. TableChange(k) \in Int
    BY <1>4, ScummEntriesOfTable DEF ScummEntriesOf, ScummEntry, TableChange
  <2> QED
    BY <2>1, <2>2
<1> HIDE DEF fixed, found, loads, change
<1>6. CASE phase' \in {"undefined", "failed"} /\ it' = it /\ insts' = insts
  BY <1>1, <1>6 DEF CountInv, Disassembled
<1>7. ASSUME phase' = "fix", it' = k, DOMAIN insts' = 1 .. n, Len(insts') = n, NoMark(k)',
             \A j \in 1 .. n : insts'[j].op = insts[j].op /\ insts'[j].val = insts[j].val,
             \A j \in 1 .. n : j # k => insts'[j].change = insts[j].change
      PROVE  CountInv'
  <2>1. ASSUME NEW j \in 1 .. n
        PROVE  /\ insts'[j].op \in DOMAIN OpcodesOf(script'.engine)
               /\ IF j <= k THEN NoMark(j)' ELSE insts'[j].change = TableChange(j)'
    <3>1. insts'[j].op \in DOMAIN OpcodesOf(script'.engine) /\ TableChange(j)' = TableChange(j)
      BY <1>1, <1>7 DEF CountInv, TableChange
    <3>2. CASE j = k
      BY <1>4, <1>7, <3>1, <3>2
    <3>3. CASE j # k
      <4>1. j <= k <=> j <= it
        BY <1>1, <1>a, <3>3
      <4>2. IF j <= it THEN NoMark(j) ELSE insts[j].change = TableChange(j)
        BY <1>1 DEF CountInv
      <4>3. insts'[j].change = insts[j].change
        BY <1>7, <3>3
      <4>4. NoMark(j) => NoMark(j)'
        <5>1. \A i \in 1 .. j - 1 : i \in 1 .. n
          BY <1>1
        <5>2. \A i \in 1 .. j - 1 : insts'[i].val = insts[i].val
          BY <1>7, <5>1
        <5> QED
          BY <4>3, <5>2 DEF NoMark
      <4> QED
        BY <3>1, <4>1, <4>2, <4>3, <4>4
    <3> QED
      BY <3>2, <3>3
  <2>2. it' <= Len(insts')
    BY <1>4, <1>7
  <2>3. position' \in 0 .. StreamEnd(script') + 2 /\ address' \in Nat
    BY <1>1 DEF CountInv
  <2> QED
    BY <1>7, <2>1, <2>2, <2>3 DEF CountInv, Disassembled
<1>8. CASE phase' = "fix" /\ it' = k /\ insts' = insts /\ ~Marked(change)
  <2>1. insts[k].change < \h1000
    BY <1>5, <1>8 DEF Marked, change
  <2>2. NoMark(k)'
    BY <1>8, <2>1 DEF NoMark
  <2> QED
    BY <1>1, <1>7, <1>8, <2>2
<1>9. CASE phase' = "fix" /\ it' = k /\ insts' = [insts EXCEPT ![k].change = fixed] /\ found # 0
  <2>1. DOMAIN insts' = 1 .. n /\ Len(insts') = n
    <3>1. insts' = [j \in DOMAIN insts |-> insts'[j]]
      BY <1>9
    <3> QED
      BY <1>1, <3>1, Rewritten
  <2>2. ASSUME NEW j \in 1 .. n
        PROVE  /\ insts'[j].op = insts[j].op /\ insts'[j].val = insts[j].val
               /\ j # k => insts'[j].change = insts[j].change
               /\ j = k => insts'[j].change = fixed
    <3>1. IF j = k THEN insts'[j] = [insts[j] EXCEPT !.change = fixed] ELSE insts'[j] = insts[j]
      BY <1>1, <1>9
    <3>2. DOMAIN insts[j] = Entry
      BY <1>2 DEF KnownInstructions
    <3> QED
      BY <3>1, <3>2 DEF Entry
  <2>3. found \in 1 .. k - 1
    <3>1. loads \in Nat
      BY <1>5 DEF Nibble, loads
    <3> QED
      BY <1>4, <1>9, <3>1, InstBeforeWithin DEF found
  <2>4. insts[found].val \in Int /\ insts'[found].val = insts[found].val
    <3>1. found \in 1 .. n
      BY <1>1, <1>4, <2>3
    <3> QED
      BY <1>2, <2>2, <3>1 DEF KnownInstructions
  <2>5. insts[found].val \in 0 .. LongestList => fixed < \h1000
    <3> DEFINE a == Nibble(change, 1)
               b == Nibble(change, \h10)
               c == Nibble(change, \h100)
               v == insts[found].val
    <3>1. a \in 0 .. 15 /\ b \in 0 .. 15 /\ c \in 0 .. 15
      BY <1>5 DEF Nibble
    <3> HIDE DEF v
    <3>2. ASSUME v \in 0 .. LongestList PROVE fixed < \h1000
      <4>1. v \in Nat /\ v <= LongestList
        BY <3>2 DEF LongestList
      <4>2. fixed = a - b - c - (v + 1)
        <5>1. fixed = StackEffect(change, v)
          BY DEF fixed, v
        <5> QED
          BY <1>5, <4>1, <5>1, EffectOfLength
      <4> HIDE DEF a, b, c
      <4> QED
        BY <3>1, <4>1, <4>2
    <3> QED
      BY <3>2 DEF v
  <2>6. NoMark(k)'
    <3>1. insts'[k].change = fixed
      BY <1>4, <2>2
    <3>2. CASE insts[found].val \in 0 .. LongestList
      BY <2>5, <3>1, <3>2 DEF NoMark
    <3>3. CASE insts[found].val \notin 0 .. LongestList
      <4>1. insts'[found].val \notin 0 .. LongestList
        BY <2>4, <3>3
      <4> QED
        BY <2>3, <4>1 DEF NoMark
    <3> QED
      BY <3>2, <3>3
  <2> QED
    BY <1>7, <1>9, <2>1, <2>2, <2>6
<1> QED
  BY <1>3, <1>6, <1>8, <1>9

LEMMA CountsWhileProcessing ==
  ASSUME ReadInv, CountInv, EndFix \/ ProcessInst \/ EndProcess \/ UNCHANGED stackVars
  PROVE  CountInv'
<1>1. UNCHANGED <<script, position, address, insts>> /\ (IsScumm' <=> IsScumm)
      /\ \A k : NoMark(k)' <=> NoMark(k)
  <2>1. UNCHANGED <<script, position, address, insts>>
    BY DEF EndFix, ProcessInst, EndProcess, stackVars
  <2> QED
    BY <2>1 DEF IsScumm, NoMark
<1>2. it \in Nat /\ Len(insts) \in Nat
  BY DEF ReadInv
<1>3. CASE EndFix
  <2>1. phase = "fix" /\ phase' = "process" /\ it = Len(insts) /\ it' = 0
    BY <1>3 DEF EndFix
  <2> QED
    BY <1>1, <1>2, <2>1 DEF CountInv
<1>4. CASE ProcessInst
  <2>1. /\ phase = "process" /\ phase' \in {"process", "undefined", "failed"}
        /\ it < Len(insts) /\ it' \in {it, it + 1}
    BY <1>4 DEF ProcessInst
  <2> QED
    BY <1>1, <1>2, <2>1 DEF CountInv, Disassembled
<1>5. CASE EndProcess
  <2>1. phase = "process" /\ phase' = "done" /\ it' = it
    BY <1>5 DEF EndProcess
  <2> QED
    BY <1>1, <2>1 DEF CountInv, Disassembled
<1>6. CASE UNCHANGED stackVars
  <2>1. phase' = phase /\ it' = it /\ \A k : TableChange(k)' = TableChange(k)
    BY <1>6 DEF stackVars, TableChange
  <2> QED
    BY <1>1, <2>1 DEF CountInv, Disassembled
<1> QED
  BY <1>3, <1>4, <1>5, <1>6

LEMMA CountInvStep ==
  ReadInv /\ EffectsInv /\ CountInv /\ [StackCodeNext]_stackVars => CountInv'
<1> SUFFICES ASSUME ReadInv, EffectsInv, CountInv, [StackCodeNext]_stackVars PROVE CountInv'
  OBVIOUS
<1>1. CASE ReadScumm \/ ReadWorld
  BY <1>1, CountsWhileReading DEF ReadScumm, ReadWorld
<1>2. CASE ~(ReadScumm \/ ReadWorld)
  BY <1>2, CountsAfterHeader, CountsInString, CountsAfterReading, CountsWhileFixing, CountsWhileProcessing
     DEF StackCodeNext, Disassemble
<1> QED
  BY <1>1, <1>2

\* The values there are: those printed, and those on the stack.
LEMMA PrintedAreSound ==
  ASSUME FromInv
  PROVE  \A i \in DOMAIN Printed : Printed[i].prec \in 0 .. 11 /\ Len(Printed[i].text) > 0
<1>1. PICK V : Own(V, stack, lines)
  BY DEF FromInv
<1>2. Printed \in Seq(V) /\ \A v \in V : Sound(v)
  <2>1. FlattenSeq(lines) \in Seq(V) /\ stack \in Seq(V)
    BY <1>1, PrintedFroms DEF Own
  <2> QED
    BY <1>1, <2>1, ConcatProperties DEF Own, Printed
<1>3. \A v \in V : v.prec \in 0 .. 11 /\ Len(v.text) > 0
  <2>1. \A t \in Texts : Len(t) \in Nat /\ Len(t) >= 1
    BY LenProperties DEF Texts
  <2>2. \A v \in V : v.prec \in Grades /\ v.text \in Texts
    BY <1>2 DEF Sound, Simple
  <2> QED
    BY <2>1, <2>2 DEF Grades
<1> QED
  BY <1>2, <1>3

\* The counters stay in their ranges, the values printed and those on the stack are well
\* formed, and a stack effect is as large as a mark behind the disassembly only where a
\* number before it is not the length of a list, whatever the script and wherever its
\* seeks lead (fixStackEffect, the constructors of the values and negate).
THEOREM ScriptsAreTyped == StackCodeSpec => []ScriptTypeOK
<1> DEFINE Inv == ReadInv /\ EffectsInv /\ FromInv /\ CountInv
<1>1. StackCodeInit => Inv
  BY ReadInvInit, EffectsInit, FromInvInit, CountInvInit
<1>2. Inv /\ [StackCodeNext]_stackVars => Inv'
  BY ReadInvStep, EffectsInvStep, FromInvStep, CountInvStep
<1>3. Inv => ScriptTypeOK
  <2> SUFFICES ASSUME Inv PROVE ScriptTypeOK
    OBVIOUS
  <2>1. /\ phase \in {"header", "read", "string", "fix", "process", "done", "failed", "undefined"}
        /\ it \in Nat /\ Len(insts) \in Nat /\ DOMAIN insts = 1 .. Len(insts)
    BY DEF ReadInv
  <2>2. position \in 0 .. StreamEnd(script) + 2 /\ address \in Nat /\ it \in 0 .. Len(insts)
    BY <2>1 DEF CountInv
  <2>3. \A k \in DOMAIN insts :
          /\ insts[k].op \in DOMAIN OpcodesOf(script.engine)
          /\ IsScumm /\ Disassembled =>
               insts[k].change < \h1000 \/ \E j \in 1 .. k - 1 : insts[j].val \notin 0 .. LongestList
    BY <2>1 DEF CountInv, NoMark
  <2>4. \A i \in DOMAIN Printed : Printed[i].prec \in 0 .. 11 /\ Len(Printed[i].text) > 0
    BY PrintedAreSound
  <2> QED
    BY <2>1, <2>2, <2>3, <2>4 DEF ScriptTypeOK
<1> QED
  BY <1>1, <1>2, <1>3, PTL DEF StackCodeSpec
=============================================================================
