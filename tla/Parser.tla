------------------------------- MODULE Parser -------------------------------
(***************************************************************************)
(* The parser (core/src/parser.rs) and its expressions                     *)
(* (core/src/parser/pratt.rs).  A parser p has tokens and is strict or     *)
(* lax; every operator takes the position it is at, and results in a node  *)
(* and the position after it, or in an error or a panic.                   *)
(*                                                                         *)
(* A node has what it is, its parts, and the places of the text where it   *)
(* starts and ends.  The members of a class stay in one list, and what     *)
(* names, numbers and strings say, and so equal keys of an object, is left *)
(* out, as is the place of an error.                                       *)
(***************************************************************************)
EXTENDS Integers, Sequences, SequencesExt

Node(op, parts, start, end) == [op |-> op, parts |-> parts, start |-> start, end |-> end]

Kind(p, at) == IF at \in DOMAIN p.tokens THEN p.tokens[at].kind ELSE "none"
Start(p, at) == p.tokens[at].start
End(p, at) == p.tokens[at].end
Leaf(p, at, op) == Node(op, <<>>, Start(p, at), End(p, at))

Got(at, node) == [status |-> "ok", at |-> at, node |-> node]
Failed == [status |-> "error"]
Panics == [status |-> "panic"]

(* What comes next, with the position and the node; the ? of the code.      *)
Then(result, Next(_, _)) == IF result.status = "ok" THEN Next(result.at, result.node) ELSE result

Expect(p, at, kind) == IF Kind(p, at) = kind THEN Got(at + 1, Leaf(p, at, kind)) ELSE Failed

-----------------------------------------------------------------------------
Literals == {"name", "number", "string", "bool"}
Signs == {"-", "!"}
(* One or two operators stand for all of a level.                           *)
Assigns == {"=", "+="}
Logical == {"&&", "||"}
Equality == {"==", "!="}
Relational == {"<", ">"}
Additive == {"+", "-"}
Multiplicative == {"*", "/"}
Infix == Assigns \cup Logical \cup Equality \cup Relational \cup Additive \cup Multiplicative
Postfix == {"(", ".", "["}

(* A mistake for the properties to find, as are all with such a name:       *)
(* products bind like sums.                                                 *)
WrongPower(op) ==
  CASE op \in Assigns \cup Logical -> 0 [] op \in Equality -> 1 [] op \in Relational -> 3
    [] op \in Additive -> 5 [] op \in Multiplicative -> 5 [] op \in Postfix -> 9

(* infix_binding_power, to the left; to the right it is one more.           *)
Power(op) ==
  CASE op \in Assigns \cup Logical -> 0 [] op \in Equality -> 1 [] op \in Relational -> 3
    [] op \in Additive -> 5 [] op \in Multiplicative -> 7 [] op \in Postfix -> 9

RECURSIVE Expression(_, _, _), Rest(_, _, _, _, _), Items(_, _, _, _, _, _), Lambda(_, _),
          Type(_, _), Brackets(_, _, _), Statement(_, _), Statements(_, _, _, _), If(_, _), Members(_, _, _)

Annotation(p, at) == IF Kind(p, at) = ":" THEN Type(p, at + 1) ELSE Got(at, Node("no type", <<>>, 0, 0))

(* The members of a list in brackets. *)
Item(p, at, what) ==
  CASE what = "expression" -> Expression(p, at, 0)
    [] what = "specifier"  -> Expect(p, at, "name")
    [] what = "pair"       ->
         Then(Expect(p, at, "string"), LAMBDA n, key : Then(Expect(p, n, ":"), LAMBDA m, colon :
           Then(Expression(p, m, 0), LAMBDA l, value : Got(l, Node("pair", <<key, value>>, key.start, value.end)))))
    [] what = "argument"   ->
         Then(Expect(p, at, "name"), LAMBDA n, name : Then(Annotation(p, n), LAMBDA m, type :
           Got(m, Node("argument", <<name, type>>, name.start, name.end))))
    [] what = "entry"      ->
         Then(Expect(p, at, "name"), LAMBDA n, name : Then(Expect(p, n, ":"), LAMBDA m, colon :
           Then(Type(p, m), LAMBDA l, type : Got(l, Node("entry", <<name, type>>, name.start, name.end)))))

(* A comma may stand before the closing bracket; without one, it must come. *)
Items(p, at, close, what, items, last) ==
  IF Kind(p, at) = close THEN Got(at + 1, items)
  ELSE IF last THEN Failed
  ELSE Then(Item(p, at, what), LAMBDA n, item :
         IF Kind(p, n) = "," THEN Items(p, n + 1, close, what, Append(items, item), FALSE)
         ELSE Items(p, n, close, what, Append(items, item), TRUE))

Group(p, at, open, close, what) ==
  Then(Expect(p, at, open), LAMBDA n, x : Items(p, n, close, what, <<>>, FALSE))

(* A group as a node of its own. *)
List(op, p, at, open, close, what) ==
  Then(Group(p, at, open, close, what), LAMBDA n, items : Got(n, Node(op, items, Start(p, at), End(p, n - 1))))

Brackets(p, at, type) ==
  IF Kind(p, at) # "[" THEN Got(at, type)
  ELSE Then(Expect(p, at + 1, "]"), LAMBDA n, x : Brackets(p, n, Node("array type", <<type>>, type.start, x.end)))

(* match_type_ref: unreachable!() at anything but a name or a brace. *)
Type(p, at) ==
  CASE Kind(p, at) = "name" -> Brackets(p, at + 1, Leaf(p, at, "type"))
    [] Kind(p, at) = "{"    -> Then(List("object type", p, at, "{", "}", "entry"), LAMBDA n, type : Brackets(p, n, type))
    [] OTHER                -> Panics

-----------------------------------------------------------------------------
(***************************************************************************)
(* Expressions.                                                            *)
(***************************************************************************)

(* A parenthesis begins a lambda if one can be read there. *)
Parenthesis(p, at) ==
  LET lambda == Lambda(p, at)
  IN  IF lambda.status # "error" THEN lambda
      ELSE Then(Expression(p, at + 1, 0), LAMBDA n, x : Then(Expect(p, n, ")"), LAMBDA m, y : Got(m, x)))

(* A sign takes everything that follows.  A numeral is unwrapped as the     *)
(* number that it is not.                                                   *)
Prefix(p, at) ==
  CASE Kind(p, at) \in Signs ->
         Then(Expression(p, at + 1, 0), LAMBDA n, x : Got(n, Node("sign", <<Leaf(p, at, Kind(p, at)), x>>, Start(p, at), x.end)))
    [] Kind(p, at) = "("       -> Parenthesis(p, at)
    [] Kind(p, at) \in Literals -> Expect(p, at, Kind(p, at))
    [] Kind(p, at) = "numeral" -> Panics
    [] Kind(p, at) = "["       -> List("array", p, at, "[", "]", "expression")
    [] Kind(p, at) = "{"       -> List("object", p, at, "{", "}", "pair")
    [] OTHER                   -> Failed

(* The token after the dot is dropped. *)
WrongUnnamed(p, at, lhs) ==
  LET end == IF at + 1 \in DOMAIN p.tokens THEN Start(p, at + 1) ELSE End(p, at)
  IN  IF p.strict THEN Failed
      ELSE Got(at + 2, Node("member", <<lhs, Node("property", <<>>, End(p, at), end)>>, lhs.start, end))

(* Lax, a member without a name is taken for one, and ends the expression.  *)
Unnamed(p, at, lhs) ==
  LET end == IF at + 1 \in DOMAIN p.tokens THEN Start(p, at + 1) ELSE End(p, at)
  IN  IF p.strict THEN Failed
      ELSE Got(at + 1, Node("member", <<lhs, Node("property", <<>>, End(p, at), end)>>, lhs.start, end))

Member(p, at, min, lhs, start) ==
  LET from == IF p.strict THEN Start(p, at + 1) ELSE End(p, at)
  IN  IF Kind(p, at + 1) # "name" THEN Unnamed(p, at, lhs)
      ELSE Rest(p, at + 2, min,
                Node("member", <<lhs, Node("property", <<>>, from, End(p, at + 1))>>, Start(p, at + 1), End(p, at + 1)),
                start)

Index(p, at, min, lhs, start) ==
  IF Kind(p, at + 1) = "none" THEN Unnamed(p, at, lhs)
  ELSE Then(Expression(p, at + 1, 0), LAMBDA n, x : Then(Expect(p, n, "]"), LAMBDA m, y :
         Rest(p, m, min, Node("index", <<lhs, x>>, Start(p, at + 1), End(p, at + 1)), start)))

Call(p, at, min, lhs, start) ==
  Then(Group(p, at, "(", ")", "expression"), LAMBDA n, arguments :
    Rest(p, n, min, Node("call", <<lhs>> \o arguments, start, End(p, n - 1)), start))

(* It ends with its left side. *)
WrongBinary(p, at, min, lhs, start) ==
  Then(Expression(p, at + 1, Power(Kind(p, at)) + 1), LAMBDA n, rhs :
    Rest(p, n, min, Node(Kind(p, at), <<lhs, rhs>>, start, lhs.end), start))

Binary(p, at, min, lhs, start) ==
  Then(Expression(p, at + 1, Power(Kind(p, at)) + 1), LAMBDA n, rhs :
    Rest(p, n, min, Node(Kind(p, at), <<lhs, rhs>>, start, rhs.end), start))

(* The loop of parse_expression. *)
Rest(p, at, min, lhs, start) ==
  LET op == Kind(p, at)
  IN  IF op \notin Infix \cup Postfix THEN Got(at, lhs)
      ELSE IF Power(op) < min THEN Got(at, lhs)
      ELSE CASE op = "(" -> Call(p, at, min, lhs, start)
             [] op = "." -> Member(p, at, min, lhs, start)
             [] op = "[" -> Index(p, at, min, lhs, start)
             [] OTHER    -> Binary(p, at, min, lhs, start)

Expression(p, at, min) == Then(Prefix(p, at), LAMBDA n, lhs : Rest(p, n, min, lhs, lhs.start))

-----------------------------------------------------------------------------
(***************************************************************************)
(* Statements.                                                             *)
(***************************************************************************)

(* An empty block is the place between its braces. *)
Block(p, at) ==
  Then(Expect(p, at, "{"), LAMBDA n, open :
    IF Kind(p, n) = "}" THEN Got(n + 1, Node("block", <<>>, open.end, Start(p, n)))
    ELSE Then(Statements(p, n, "}", <<>>), LAMBDA m, body :
           Then(Expect(p, m, "}"), LAMBDA l, close : Got(l, Node("block", body, open.end, close.end)))))

(* The block of an expression starts and ends with it. *)
Body(p, at) ==
  IF Kind(p, at) = "{" THEN Block(p, at)
  ELSE Then(Expression(p, at, 0), LAMBDA n, x :
         Got(n, Node("value", <<x>>, x.start, x.end)))

Lambda(p, at) ==
  Then(List("arguments", p, at, "(", ")", "argument"), LAMBDA n, arguments :
    Then(Annotation(p, n), LAMBDA m, type : Then(Expect(p, m, "=>"), LAMBDA l, arrow :
      Then(Body(p, l), LAMBDA k, body :
        Got(k, Node("lambda", <<arguments, type, body>>, arguments.start, body.end))))))

Method(p, at, op, start) ==
  Then(Expect(p, at, "name"), LAMBDA n, name : Then(List("arguments", p, n, "(", ")", "argument"), LAMBDA m, arguments :
    Then(Annotation(p, m), LAMBDA l, type : Then(Block(p, l), LAMBDA k, block :
      Got(k, Node(op, <<name, arguments, type, block>>, start, block.end))))))

Import(p, at) ==
  Then(List("specifiers", p, at + 1, "{", "}", "specifier"), LAMBDA n, names : Then(Expect(p, n, "from"), LAMBDA m, x :
    Then(Expect(p, m, "string"), LAMBDA l, source : Got(l, Node("import", <<names, source>>, Start(p, at), source.end)))))

If(p, at) ==
  Then(Expression(p, at + 1, 0), LAMBDA n, condition : Then(Block(p, n), LAMBDA m, block :
    LET all(l, more) == Got(l, Node("if", <<condition, block>> \o more, Start(p, at), End(p, l - 1)))
    IN  IF Kind(p, m) # "else" THEN all(m, <<>>)
        ELSE Then(IF Kind(p, m + 1) = "if" THEN If(p, m + 1) ELSE Block(p, m + 1),
                  LAMBDA l, other : all(l, <<other>>))))

Let(p, at) ==
  Then(Expect(p, at + 1, "name"), LAMBDA n, name : Then(Annotation(p, n), LAMBDA m, type :
    Then(Expect(p, m, "="), LAMBDA l, x : Then(Expression(p, l, 0), LAMBDA k, value :
      Got(k, Node("let", <<name, type, value>>, Start(p, at), value.end))))))

Export(p, at) ==
  IF Kind(p, at + 1) = "none" THEN Failed
  ELSE Then(Statement(p, at + 1), LAMBDA n, x : Got(n, Node("export", <<x>>, Start(p, at), x.end)))

(* The bounds of a range, one of which may be missing; or an array.         *)
Bound(p, at, kinds) ==
  IF Kind(p, at) \in kinds THEN Expression(p, at, 0) ELSE Got(at, Node("no bound", <<>>, 0, 0))

Iterable(p, at) ==
  Then(Bound(p, at, {"number", "numeral", "name", "(", "["}), LAMBDA n, left :
    IF Kind(p, n) = ".."
    THEN Then(Bound(p, n + 1, {"number", "numeral", "name", "("}), LAMBDA m, right :
           IF left.op = "no bound" /\ right.op = "no bound" THEN Failed
           ELSE Got(m, Node("range", <<left, right>>, 0, 0)))
    ELSE IF left.op = "no bound" THEN Failed ELSE Got(n, left))

For(p, at) ==
  Then(Expect(p, at + 1, "name"), LAMBDA n, name : Then(Expect(p, n, "in"), LAMBDA m, x :
    Then(Iterable(p, m), LAMBDA l, iterable : Then(Block(p, l), LAMBDA k, block :
      Got(k, Node("for", <<name, iterable, block>>, Start(p, at), block.end))))))

While(p, at) ==
  Then(Expression(p, at + 1, 0), LAMBDA n, condition : Then(Block(p, n), LAMBDA m, block :
    Got(m, Node("while", <<condition, block>>, Start(p, at), block.end))))

(* Functions, the constructor, which has no type, and fields. *)
Part(p, at) ==
  CASE Kind(p, at) = "fn"   -> Method(p, at + 1, "fn", Start(p, at))
    [] Kind(p, at) = "name" ->
         Then(Method(p, at, "constructor", Start(p, at)), LAMBDA n, x :
           IF x.parts[3].op = "no type" THEN Got(n, x) ELSE Failed)
    [] OTHER ->
         Then(Expect(p, at, "public"), LAMBDA n, x : Then(Expect(p, n, "name"), LAMBDA m, name :
           Then(Expect(p, m, "="), LAMBDA l, y : Then(Expression(p, l, 0), LAMBDA k, value :
             Got(k, Node("field", <<name, value>>, x.start, value.end))))))

Members(p, at, members) ==
  IF Kind(p, at) = "}" THEN Got(at, members)
  ELSE Then(Part(p, at), LAMBDA n, x : Members(p, n, Append(members, x)))

Class(p, at) ==
  Then(Expect(p, at + 1, "name"), LAMBDA n, name : Then(Expect(p, n, "{"), LAMBDA m, open :
    Then(Members(p, m, <<>>), LAMBDA l, members :
      Got(l + 1, Node("class", <<name, Node("members", members, open.end, Start(p, l))>>, Start(p, at), End(p, l))))))

Statement(p, at) ==
  LET op == Kind(p, at)
  IN  CASE op = "import" -> Import(p, at)
        [] op = "fn"     -> Method(p, at + 1, "fn", Start(p, at))
        [] op = "if"     -> If(p, at)
        [] op = "let"    -> Let(p, at)
        [] op = "export" -> Export(p, at)
        [] op = "for"    -> For(p, at)
        [] op = "while"  -> While(p, at)
        [] op = "break"  -> Expect(p, at, "break")
        [] op = "return" ->
             Then(Expression(p, at + 1, 0), LAMBDA n, x : Got(n, Node("return", <<x>>, Start(p, at), x.end)))
        [] op = "class"  -> Class(p, at)
        [] OTHER         ->
             Then(Expression(p, at, 0), LAMBDA n, x : Got(n, Node("expression", <<x>>, Start(p, at), End(p, n - 1))))

(* To the end of the text, or to the brace that closes a block. *)
Statements(p, at, close, body) ==
  IF Kind(p, at) \in {"none"} \cup (IF body = <<>> THEN {} ELSE {close}) THEN Got(at, body)
  ELSE Then(Statement(p, at), LAMBDA n, x : Statements(p, n, close, Append(body, x)))

(* parse and lax_parse. *)
Parse(tokens, strict) == Statements([tokens |-> tokens, strict |-> strict], 1, "none", <<>>)

=============================================================================
