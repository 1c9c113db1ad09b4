------------------------------- MODULE Values -------------------------------
(***************************************************************************)
(* Values of the stack and how they are negated and printed                *)
(* (decompiler/value.cpp, value.h).  The text of a value is a sequence of  *)
(* words: names, numbers, operators and parentheses.  Arrays, lists and    *)
(* calls put their operands between brackets of their own and are one      *)
(* word.                                                                   *)
(*                                                                         *)
(* Two fields of a value are not in the code, which the properties compare *)
(* its text with: the pushed values it is made of, in the order the text   *)
(* has them, and what it stands for, in the same words as the text but     *)
(* with every operand that is an operation of another level in             *)
(* parentheses.                                                            *)
(***************************************************************************)
EXTENDS SimpleDisassembler

NoNumber == <<>>

Paren(words) == <<"(">> \o words \o <<")">>

\* lead is the number the text begins with, or empty.
Atom(word, lead, from) ==
  [text |-> <<word>>, prec |-> 0, op |-> "", args |-> <<>>, lead |-> lead, from |-> from,
   means |-> <<word>>]

IntValue(n, from) == Atom(ToString(n), <<n>>, from)
VarValue(name, from) == Atom(name, NoNumber, from)

FromAll(values) == FlattenSeq([i \in DOMAIN values |-> values[i].from])
ArrayValue(indices) == VarValue("array", FromAll(indices))
ListValue(items, length) == VarValue("list", FromAll(Append(items, length)))
CallValue(args) == VarValue("call", FromAll(args))
DupValue(from) == VarValue("temp", from)
IsDup(value) == value.text = <<"temp">>
IsNumber(value) == value.lead # NoNumber /\ value.text = <<ToString(value.lead[1])>>
-----------------------------------------------------------------------------
\* binaryOpPrecedence; 0 is kNoPrecedence, 1 kUnaryOpPrecedence.
Precedence ==
  Each({"*", "/", "%"}, 2) ++ Each({"+", "-"}, 3) ++ Each({"<<", ">>"}, 4)
  ++ Each({"<", "<=", ">=", ">"}, 5) ++ Each({"==", "!="}, 6) ++ Each({"&"}, 7)
  ++ Each({"^"}, 8) ++ Each({"|"}, 9) ++ Each({"&&"}, 10) ++ Each({"||"}, 11)

negateMap ==
  [op \in {"==", "!=", "<", "<=", ">=", ">"} |->
     CASE op = "==" -> "!=" [] op = "!=" -> "==" [] op = "<" -> ">=" [] op = "<=" -> ">"
       [] op = ">=" -> "<" [] op = ">" -> "<="]

\* The levels of C, by which a reader takes operations apart: the first binds most.
Levels == <<{"!"}, {"*", "/", "%"}, {"+", "-"}, {"<<", ">>"}, {"<", "<=", ">=", ">"},
            {"==", "!="}, {"&"}, {"^"}, {"|"}, {"&&"}, {"||"}>>
LevelOf(op) == IF op = "" THEN 0 ELSE CHOOSE l \in DOMAIN Levels : op \in Levels[l]

\* What is between parentheses when every operation of another level is.
Apart(level, means, of) == IF level \in {0, of} THEN means ELSE Paren(means)

Holds(op, x, y) ==
  CASE op = "<" -> x < y [] op = "<=" -> x <= y [] op = ">" -> x > y [] op = ">=" -> x >= y
    [] op = "==" -> x = y [] op = "!=" -> x # y
Comparisons == {"<", "<=", ">", ">=", "==", "!="}
Complement ==
  [op \in Comparisons |->
     CHOOSE o \in Comparisons : \A x, y \in 0 .. 2 : Holds(o, x, y) = ~Holds(op, x, y)]
-----------------------------------------------------------------------------
\* An operand that binds as its operator does is put in parentheses as well.
NeverParenthesised(value, prec) == value.text

\* The text of an operand: in parentheses if it binds less than the operator.
OperandText(value, prec) == IF value.prec > prec THEN Paren(value.text) ELSE value.text

BinaryMeans(op, l, r) ==
  Apart(LevelOf(l.op), l.means, LevelOf(op)) \o <<op>>
  \o Apart(LevelOf(r.op), r.means, LevelOf(op))

BinaryOpValue(op, l, r) ==
  [text |-> OperandText(l, Precedence[op]) \o <<op>> \o OperandText(r, Precedence[op]),
   prec |-> Precedence[op], op |-> op, args |-> <<l, r>>,
   lead |-> IF l.prec > Precedence[op] THEN NoNumber ELSE l.lead,
   from |-> l.from \o r.from, means |-> BinaryMeans(op, l, r)]

NegatedValue(v) ==
  [text |-> <<"!">> \o OperandText(v, 1), prec |-> 1, op |-> "!", args |-> <<v>>,
   lead |-> NoNumber, from |-> v.from,
   means |-> <<"!">> \o Apart(LevelOf(v.op), v.means, 1)]

\* negate: a comparison becomes its opposite, a negated value what it negates.
Negate(v) ==
  CASE v.op \in DOMAIN negateMap ->
         [BinaryOpValue(negateMap[v.op], v.args[1], v.args[2]) EXCEPT
            !.means = BinaryMeans(Complement[v.op], v.args[1], v.args[2])]
    [] v.op = "!" -> v.args[1]
    [] OTHER -> NegatedValue(v)

\* FF7 world scripts make a variable of the text of an operation.
FlatValue(op, l, r) ==
  [VarValue(op, l.from \o r.from) EXCEPT
     !.text = l.text \o <<op>> \o r.text, !.lead = l.lead, !.means = BinaryMeans(op, l, r)]
-----------------------------------------------------------------------------
(* A reader of expressions, by two stacks: the operands read so far, each  *)
(* with the level of its operation, and the operators waiting for theirs.  *)

Operators == UNION ToSet(Levels) \ {"!"}

Reduce(s) ==
  LET op == Last(s.ops)
      level == LevelOf(op)
      r == Last(s.operands)
      l == s.operands[Len(s.operands) - 1]
      Part(x) == Apart(x.level, x.words, level)
  IN IF op = "!"
     THEN [ops |-> Front(s.ops),
           operands |-> Append(Front(s.operands), [level |-> 1, words |-> <<"!">> \o Part(r)])]
     ELSE [ops |-> Front(s.ops),
           operands |-> Append(Front(Front(s.operands)),
                               [level |-> level, words |-> Part(l) \o <<op>> \o Part(r)])]

\* As long as the last operator binds as much as level or more.
ReduceTo(s, level) ==
  FoldLeft(LAMBDA t, i : IF t.ops # <<>> /\ Last(t.ops) # "(" /\ LevelOf(Last(t.ops)) <= level
                         THEN Reduce(t) ELSE t,
           s, s.ops)

ReadWord(s, word) ==
  CASE word \in {"(", "!"} -> [s EXCEPT !.ops = Append(@, word)]
    [] word = ")" -> [ReduceTo(s, Len(Levels)) EXCEPT !.ops = Front(@)]
    [] word \in Operators -> [ReduceTo(s, LevelOf(word)) EXCEPT !.ops = Append(@, word)]
    [] OTHER -> [s EXCEPT !.operands = Append(@, [level |-> 0, words |-> <<word>>])]

\* What a text stands for.
Reads(text) ==
  LET s == ReduceTo(FoldLeft(ReadWord, [ops |-> <<>>, operands |-> <<>>], text), Len(Levels))
  IN s.operands[1].words
=============================================================================
