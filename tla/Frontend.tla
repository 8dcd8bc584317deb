------------------------------ MODULE Frontend ------------------------------
(***************************************************************************)
(* From a text to its trees: lex, parse and lax_parse, as the loader       *)
(* (core/src/loader.rs) and the analysis (core/src/analysis.rs) put them   *)
(* together.  Tokens also come without a text: any short ones, and those   *)
(* of programs, written down as a reader of the language would.            *)
(***************************************************************************)
EXTENDS Lexer, Parser

CONSTANTS
  Programs,   (* Sequences of statements, as they are printed below.       *)
  Streams     (* Sequences of kinds of tokens.                             *)

VARIABLES
  program,    (* The program the tokens are of; none for other tokens.     *)
  strict,     (* What parse and lax_parse made of them; not yet, at first. *)
  lax

vars == <<text, cursor, tokens, stage, program, strict, lax>>

NotYet == [status |-> "not yet"]

-----------------------------------------------------------------------------
(***************************************************************************)
(* Programs and how they are written.  A statement or an expression is a   *)
(* tuple of its operator and its parts.                                    *)
(***************************************************************************)

RECURSIVE Joined(_)
Joined(parts) == IF parts = <<>> THEN <<>> ELSE Head(parts) \o Joined(Tail(parts))
Placed(kinds) == [i \in DOMAIN kinds |-> Token(kinds[i], 2 * i, 2 * i + 1)]
Commas(parts) ==
  Joined([i \in DOMAIN parts |-> IF i < Len(parts) THEN Append(parts[i], ",") ELSE parts[i]])
Between(open, parts, close) == <<open>> \o parts \o <<close>>
Parens(e) == Between("(", e, ")")

(* From the loosest to the tightest; assignments and logic bind alike.      *)
Levels == <<Assigns \cup Logical, Equality, Relational, Additive, Multiplicative>>
Level(e) == CHOOSE n \in DOMAIN Levels : e[1] \in Levels[n]

IsBinary(e) == e[1] \in Infix
Reaches(e) == e[1] = "sign" \/ (e[1] = "lambda" /\ e[4][1] = "value")

(* Nothing can be written behind it that is not read as a part of it.       *)
RECURSIVE Greedy(_)
Greedy(e) == Reaches(e) \/ (IsBinary(e) /\ ~(IsBinary(e[3]) /\ Level(e[3]) <= Level(e)) /\ Greedy(e[3]))

RECURSIVE Written(_)
Typed(e, type) == Written(e) \o (IF type = <<"no type">> THEN <<>> ELSE <<":">> \o Written(type))
Parts(e, i) == [j \in 1 .. (Len(e) - i + 1) |-> Written(e[i + j - 1])]

(* Parentheses where the levels ask for them; operators of one level group  *)
(* to the left.                                                             *)
Left(e, of) ==
  IF Greedy(e) \/ (IsBinary(e) /\ Level(e) < Level(of)) THEN Parens(Written(e)) ELSE Written(e)
Right(e, of) == IF IsBinary(e) /\ Level(e) <= Level(of) THEN Parens(Written(e)) ELSE Written(e)
Object(e) == IF Reaches(e) \/ IsBinary(e) THEN Parens(Written(e)) ELSE Written(e)
Value(e) == IF Head(Written(e)) = "{" THEN Parens(Written(e)) ELSE Written(e)
Begins == {"name", "number", "("}
Bounded(e, first) == IF Head(Written(e)) \in first THEN Written(e) ELSE Parens(Written(e))

Written(e) ==
  CASE e[1] \in Literals \cup {"break"} -> <<e[1]>>
    [] e[1] = "type"         -> <<"name">>
    [] e[1] = "property"     -> <<"name">>
    [] e[1] = "no type"      -> <<>>
    [] e[1] = "no bound"     -> <<>>
    [] e[1] \in Infix        -> Left(e[2], e) \o <<e[1]>> \o Right(e[3], e)
    [] e[1] = "sign"         -> <<e[2][1]>> \o Written(e[3])
    [] e[1] = "call"         -> Object(e[2]) \o Parens(Commas(Parts(e, 3)))
    [] e[1] = "member"       -> Object(e[2]) \o <<".", "name">>
    [] e[1] = "index"        -> Object(e[2]) \o Between("[", Written(e[3]), "]")
    [] e[1] = "array"        -> Between("[", Commas(Parts(e, 2)), "]")
    [] e[1] \in {"object", "object type", "specifiers"} -> Between("{", Commas(Parts(e, 2)), "}")
    [] e[1] = "arguments"    -> Parens(Commas(Parts(e, 2)))
    [] e[1] = "pair"         -> <<"string", ":">> \o Written(e[3])
    [] e[1] = "argument"     -> Typed(e[2], e[3])
    [] e[1] = "entry"        -> Typed(e[2], e[3])
    [] e[1] = "array type"   -> Written(e[2]) \o <<"[", "]">>
    [] e[1] = "block"        -> Between("{", Joined(Parts(e, 2)), "}")
    [] e[1] = "members"      -> Between("{", Joined(Parts(e, 2)), "}")
    [] e[1] = "value"        -> Value(e[2])
    [] e[1] = "lambda"       -> Typed(e[2], e[3]) \o <<"=>">> \o Written(e[4])
    [] e[1] = "expression"   -> Written(e[2])
    [] e[1] = "let"          -> <<"let">> \o Typed(e[2], e[3]) \o <<"=">> \o Written(e[4])
    [] e[1] \in {"return", "export"} -> <<e[1]>> \o Written(e[2])
    [] e[1] \in {"while", "class"}   -> <<e[1]>> \o Joined(Parts(e, 2))
    [] e[1] = "if"           -> <<"if">> \o Joined(Parts(SubSeq(e, 1, 3), 2))
                                \o (IF Len(e) = 4 THEN <<"else">> \o Written(e[4]) ELSE <<>>)
    [] e[1] = "range"        -> (IF e[2][1] = "no bound" THEN <<>> ELSE Bounded(e[2], Begins \cup {"["})) \o <<"..">>
                                \o (IF e[3][1] = "no bound" THEN <<>> ELSE Bounded(e[3], Begins))
    [] e[1] = "for"          -> <<"for", "name", "in">>
                                \o (IF e[3][1] = "range" THEN Written(e[3]) ELSE Bounded(e[3], Begins \cup {"["})) \o Written(e[4])
    [] e[1] = "import"       -> <<"import">> \o Written(e[2]) \o <<"from", "string">>
    [] e[1] = "fn"           -> <<"fn", "name">> \o Typed(e[3], e[4]) \o Written(e[5])
    [] e[1] = "constructor"  -> <<"name">> \o Written(e[3]) \o Written(e[5])
    [] e[1] = "field"        -> <<"public", "name", "=">> \o Written(e[3])

-----------------------------------------------------------------------------
Init ==
  /\ strict = NotYet /\ lax = NotYet
  /\ \/ LexInit /\ program = <<>>
     \/ /\ program \in Programs
        /\ text = <<>> /\ cursor = 1 /\ stage = "written" /\ tokens = <<>>
     \/ /\ program = <<>>
        /\ text = <<>> /\ cursor = 1 /\ stage = "lexed"
        /\ \E kinds \in Streams : tokens = Placed(kinds)

WriteProgram ==
  /\ stage = "written" /\ stage' = "lexed"
  /\ tokens' = Placed(Joined([i \in DOMAIN program |-> Written(program[i])]))
  /\ UNCHANGED <<text, cursor, program, strict, lax>>

Tokenize == Lex /\ UNCHANGED <<program, strict, lax>>

ParseStrict ==
  /\ stage = "lexed" /\ strict = NotYet
  /\ strict' = Parse(tokens, TRUE)
  /\ UNCHANGED <<text, cursor, tokens, stage, program, lax>>

ParseLax ==
  /\ stage = "lexed" /\ strict # NotYet /\ lax = NotYet
  /\ lax' = Parse(tokens, FALSE)
  /\ UNCHANGED <<text, cursor, tokens, stage, program, strict>>

Next == WriteProgram \/ Tokenize \/ ParseStrict \/ ParseLax

Spec == Init /\ [][Next]_vars

-----------------------------------------------------------------------------
(***************************************************************************)
(* What was read.                                                          *)
(***************************************************************************)

Kinds == [i \in DOMAIN tokens |-> tokens[i].kind]

RECURSIVE Shape(_)
Shape(node) == <<node.op>> \o [i \in DOMAIN node.parts |-> Shape(node.parts[i])]
Shapes(nodes) == [i \in DOMAIN nodes |-> Shape(nodes[i])]

Outcome(result) == IF result.status = "ok" THEN Shapes(result.node) ELSE <<<<result.status>>>>

(* A statement that ends in an expression, before one that begins like the  *)
(* rest of an expression: no newline keeps them apart.                      *)
RECURSIVE Ends(_)
Ends(e) == e[1] \in {"expression", "let", "return"} \/ (e[1] = "export" /\ Ends(e[2]))

RECURSIVE RunsOn(_)
RunsOn(e) ==
  \/ e[1] = "block" /\ \E i \in 2 .. (Len(e) - 1) :
                          Ends(e[i]) /\ Head(Written(e[i + 1])) \in {"(", "[", "-"}
  \/ \E i \in 2 .. Len(e) : RunsOn(e[i])

Bare(kinds) == SelectSeq(kinds, LAMBDA k : k \notin {"(", ")", ","})

(* The text with a name behind every dot that lacks one; a bracket that     *)
(* ends the text is taken for a dot.                                        *)
Nameless(i) == tokens[i].kind = "." /\ (i = Len(tokens) \/ tokens[i + 1].kind # "name")
Completed ==
  Joined([i \in DOMAIN tokens |->
    IF Nameless(i) \/ (i = Len(tokens) /\ tokens[i].kind = "[") THEN <<".", "name">> ELSE <<tokens[i].kind>>])

RECURSIVE Inside(_)
Inside(node) == {node} \cup UNION {Inside(node.parts[i]) : i \in DOMAIN node.parts}
InsideAll(nodes) == UNION {Inside(nodes[i]) : i \in DOMAIN nodes}

(* The place of an expression is not that of all of it: a member starts     *)
(* with its name, and an index ends with the first token in its brackets.   *)
RECURSIVE EndsCut(_)
EndsCut(node) == CASE node.op = "index" -> TRUE
                   [] node.op \in Infix \cup {"sign"} -> EndsCut(Last(node.parts))
                   [] node.op = "lambda" -> node.parts[3].op = "value" /\ EndsCut(node.parts[3].parts[1])
                   [] OTHER -> FALSE
Cut(node) == node.op \in {"member", "index"} \/ EndsCut(node)

-----------------------------------------------------------------------------
(***************************************************************************)
(* Properties.                                                             *)
(***************************************************************************)

(* In a text with none of the things the lexer gets wrong (see Plain) every *)
(* name, number, string and sign is a token, whole and once, and nothing    *)
(* else is; only an open string is an error, and nothing panics.            *)
LexesRight == text # <<>> /\ Plain => LexedRight /\ stage # "panic"

(* A program comes back as it was written, with the parentheses that the    *)
(* precedence asks for, exactly if no statement runs on into the next one.  *)
(* What is read of any tokens is all of them, in their order, but for       *)
(* parentheses and commas.  The parser panics only at the type that should  *)
(* follow a colon, or at a number written with other characters than ASCII  *)
(* digits.                                                                  *)
ReadsBack ==
  strict # NotYet =>
    /\ program # <<>> => (Outcome(strict) = program <=> ~RunsOn(<<"block">> \o program))
    /\ strict.status = "ok" =>
         Bare(Joined([i \in DOMAIN strict.node |-> Written(Shape(strict.node[i]))])) = Bare(Kinds)
    /\ strict.status = "panic" =>
         \E i \in DOMAIN Kinds :
           \/ Kinds[i] = ":" /\ Kind([tokens |-> tokens], i + 1) \notin {"name", "{"}
           \/ Kinds[i] = "numeral"

(* The lax parser reads a text as the strict one reads it with a name at    *)
(* every dot that lacks one; unless what follows such a dot continues the   *)
(* expression, which the lax parser has left by then.  So it also reads     *)
(* like the strict one what that one accepts.                               *)
LaxCompletes ==
  /\ lax # NotYet
  /\ \A i \in DOMAIN tokens : Nameless(i) /\ i < Len(tokens) => tokens[i + 1].kind \notin Infix \cup Postfix
  => Outcome(lax) = Outcome(Parse(Placed(Completed), TRUE))

(* The names in the body of a function lie between its start and its end,   *)
(* where the editor looks for the arguments; unless it is an expression     *)
(* whose place is cut short.                                                *)
NamesCovered ==
  lax # NotYet /\ lax.status = "ok" =>
    \A body \in {n \in InsideAll(lax.node) : n.op \in {"block", "value"}} :
      \/ body.op = "value" /\ Cut(body.parts[1])
      \/ \A n \in Inside(body) : n.op = "name" => n.start >= body.start /\ n.end <= body.end

=============================================================================
