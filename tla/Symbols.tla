------------------------------ MODULE Symbols ------------------------------
(***************************************************************************)
(* What the editor knows of the names of a text: the walk over its tree    *)
(* (core/src/explorer.rs), the scopes and symbols that TypedScopeBuilder   *)
(* collects on the way and the queries on them (core/src/analysis.rs), and *)
(* the types of variables that the type checker infers with them           *)
(* (TypedTreeSyntaxTransformer in core/src/type_checker.rs).  The run does *)
(* not use any of it: it has names from the translator.                    *)
(*                                                                         *)
(* A text is a sequence of items, as in module Resolver, with if, else,    *)
(* classes, and lambdas that are returned; fn in a class is a method.  A   *)
(* place of the text is a number: items have Width places, and their parts *)
(* stand in this order.                                                    *)
(***************************************************************************)
EXTENDS Integers, Sequences, FiniteSets, SequencesExt, FiniteSetsExt

CONSTANTS
  Name,       (* Names of variables, functions and classes.                *)
  Literal,    (* An expression without variables, in place of a name.      *)
  Hidden,     (* The name of a lambda, which no text can mention.          *)
  Texts       (* The texts.                                                *)

(* let name = other; name = other; name(other); fn name(other) {; let name  *)
(* = (other) => {; return (other) => {; if other {; } else {; while other   *)
(* {; for name in other {; class name {; }.                                 *)
Opens == {"fn", "lambda", "return", "if", "while", "for", "class"}
Loops == {"for", "while"}
Op == Opens \cup {"let", "set", "call", "else", "end"}
Item == [op : Op, name : Name \cup {Literal}, other : Name \cup {Literal}]

(* How many bodies are open behind item i; where the body ends that it      *)
(* begins.                                                                  *)
Level(t, i) ==
  Cardinality({j \in 1 .. i : t[j].op \in Opens}) - Cardinality({j \in 1 .. i : t[j].op = "end"})
Closer(t, i) == Min({j \in (i + 1) .. Len(t) :
                       \/ t[j].op = "end" /\ Level(t, j) = Level(t, i) - 1
                       \/ t[j].op = "else" /\ Level(t, j) = Level(t, i)})

ASSUME NamesAssumption == Literal \notin Name /\ Hidden \notin Name

(* Texts come from the parser: what is opened is closed, and an else stands *)
(* where the body of an if ends.                                            *)
ASSUME TextsAssumption ==
  \A t \in Texts :
    /\ t \in Seq(Item)
    /\ \A i \in DOMAIN t : Level(t, i) >= 0
    /\ Level(t, Len(t)) = 0
    /\ \A e \in DOMAIN t : t[e].op = "else" => \E i \in 1 .. (e - 1) : t[i].op = "if" /\ Closer(t, i) = e

VARIABLES
  text,      (* The text at hand; never changes.                           *)
  at,        (* The item the walk is at.                                   *)
  index,     (* SymbolIndex: its scopes and symbols, and the current scope. *)
  pending,   (* Bodies the walk is in: how they began, the scope to return *)
             (* to.                                                        *)
  types,     (* The types of the items passed by the second walk.          *)
  status     (* Walking, inferring types, done, or how it failed.          *)

vars == <<text, at, index, pending, types, status>>

-----------------------------------------------------------------------------
(***************************************************************************)
(* The shape of the text.                                                  *)
(***************************************************************************)

Width == 10
Place(i, part) == Width * (i - 1) + part
NameAt(i) == Place(i, IF text[i].op \in {"set", "call", "end"} THEN 0 ELSE 1)
OtherAt(i) == Place(i, 3)
BraceAt(i) == Place(i, 6)
CloseAt(i) == Place(i, 1)

(* Where the statement ends that it is or begins.                           *)
Finish(i) ==
  LET closer == Closer(text, i)
  IN  IF text[i].op \notin Opens THEN i
      ELSE IF text[closer].op = "else" THEN Closer(text, closer) ELSE closer

Span(start, end) == [start |-> start, end |-> end]
BodySpan(i) == Span(BraceAt(i), CloseAt(Closer(text, i)))
StatementSpan(i) == Span(Place(i, 0), Place(Finish(i), Width - 1))
Within(place, span) == place >= span.start /\ place <= span.end

-----------------------------------------------------------------------------
(***************************************************************************)
(* TypedScopeBuilder.                                                      *)
(***************************************************************************)

Root == [parent |-> 0, symbols |-> <<>>, span |-> Span(0, -1)]
NoIndex == [scopes |-> <<Root>>, symbols |-> <<>>, current |-> 1]

(* define: a symbol in the current scope.  item is the statement it is from. *)
Define(ix, name, kind, place, item) ==
  IF name = Literal THEN ix
  ELSE LET symbol == [name |-> name, kind |-> kind, place |-> place, item |-> item]
       IN  [ix EXCEPT !.symbols = Append(@, symbol),
                      !.scopes[ix.current].symbols = Append(@, Len(ix.symbols) + 1)]

Enter(ix, span) ==
  [ix EXCEPT !.scopes = Append(@, [parent |-> ix.current, symbols |-> <<>>, span |-> span]),
             !.current = Len(ix.scopes) + 1]

Exit(ix, parent) == [ix EXCEPT !.current = parent]

Declare(ix, i, kind) == Define(ix, text[i].name, kind, NameAt(i), i)
Mention(ix, i) == Define(ix, text[i].other, "variable", OtherAt(i), i)
Argument(ix, i) == Define(ix, text[i].other, "argument", OtherAt(i), i)

-----------------------------------------------------------------------------
(***************************************************************************)
(* Queries.                                                                *)
(***************************************************************************)

(* The last scope that contains the place. *)
WrongScopeAt(place) ==
  Max({1} \cup {s \in DOMAIN index.scopes : Within(place, index.scopes[s].span)})

(* The smallest span that contains the place, the first of several. *)
ScopeAt(place) ==
  LET size(s) == index.scopes[s].span.end - index.scopes[s].span.start
      inside == {s \in DOMAIN index.scopes : Within(place, index.scopes[s].span)}
      smallest == {s \in inside : \A r \in inside : size(s) <= size(r)}
  IN  IF inside = {} THEN 1 ELSE Min(smallest)

(* What a scope has of a name: symbols that declare it.                     *)
Named(name, scope) ==
  {i \in DOMAIN index.scopes[scope].symbols :
     LET symbol == index.symbols[index.scopes[scope].symbols[i]]
     IN  symbol.name = name /\ symbol.kind # "variable"}

(* The symbol that declares a name for a place, 0 for none: the first in the *)
(* scope of the place or the nearest scope around, wherever it stands.      *)
FindDefinition(name, place) ==
  LET climb[scope \in 0 .. Len(index.scopes)] ==
        IF scope = 0 THEN 0
        ELSE IF Named(name, scope) # {} THEN index.scopes[scope].symbols[Min(Named(name, scope))]
        ELSE climb[index.scopes[scope].parent]
  IN  climb[ScopeAt(place)]

-----------------------------------------------------------------------------
(***************************************************************************)
(* The walk.                                                               *)
(***************************************************************************)

Now == text[at]
Walking(op) == status = "walking" /\ at \in DOMAIN text /\ Now.op = op

Step(ix, bodies) ==
  /\ index' = ix /\ pending' = bodies
  /\ at' = at + 1
  /\ UNCHANGED <<text, types, status>>

Begin(ix) == Step(ix, Append(pending, [item |-> at, parent |-> index.current]))

WalkLet == Walking("let") /\ Step(Mention(Declare(index, at, "definition"), at), pending)

WalkUse ==
  /\ Walking("set") \/ Walking("call")
  /\ Step(Mention(Declare(index, at, "variable"), at), pending)

WalkFn == Walking("fn") /\ Begin(Argument(Enter(Declare(index, at, "function"), BodySpan(at)), at))

(* The function in a lambda is a statement at the start of the text. *)
WalkLambda ==
  /\ Walking("lambda")
  /\ LET declared == Declare(index, at, "definition")
         hidden   == Define(declared, Hidden, "function", 0, at)
     IN  Begin(Argument(Enter(hidden, BodySpan(at)), at))

(* check_statement leaves the expression of a return as it is, so a lambda  *)
(* in it is not one of the typed tree when the walk comes to it.            *)
WalkReturn ==
  /\ Walking("return")
  /\ status' = "panic"
  /\ UNCHANGED <<text, at, index, pending, types>>

WalkIf == Walking("if") /\ Begin(Enter(index, BodySpan(at)))

(* The variable of a loop, and what its body declares, is in the scope      *)
(* around it.  The condition of a while is not walked.                      *)
WalkFor == Walking("for") /\ Begin(Mention(Declare(index, at, "definition"), at))
WalkWhile == Walking("while") /\ Begin(index)

WalkClass == Walking("class") /\ Begin(Enter(Declare(index, at, "class"), BodySpan(at)))

(* The scope of the else is for what follows it. *)
WrongWalkElse ==
  /\ Walking("else")
  /\ LET body == Last(pending)
     IN  Step(Enter(index, Span(BraceAt(at), CloseAt(Closer(text, at)))), pending)

(* The scope of the else has the span of the block before it. *)
WalkElse ==
  /\ Walking("else")
  /\ LET body == Last(pending)
         left == Exit(index, body.parent)
     IN  Step(Enter(left, BodySpan(body.item)), pending)

(* The condition of an if is walked after its blocks. *)
WalkEnd ==
  /\ Walking("end")
  /\ LET body == Last(pending)
         op   == text[body.item].op
         left == IF op \in Loops THEN index ELSE Exit(index, body.parent)
     IN  Step(IF op = "if" THEN Mention(left, body.item) ELSE left, Front(pending))

WalkProgram ==
  /\ status = "walking" /\ at > Len(text)
  /\ status' = "inferring" /\ at' = 1
  /\ UNCHANGED <<text, index, pending, types>>

-----------------------------------------------------------------------------
(***************************************************************************)
(* The types of variables.  A function is a type of its own, an argument   *)
(* has the type it is annotated with.                                      *)
(***************************************************************************)

Type(kind, i) == [kind |-> kind, of |-> i]
Unknown == Type("unknown", 0)

(* What the first walk knows of item i as a symbol. *)
KnownType(symbol) ==
  CASE symbol.kind \in {"function", "class", "argument"} -> Type(symbol.kind, symbol.item)
    [] symbol.kind = "definition" /\ text[symbol.item].op = "lambda" -> Type("function", symbol.item)
    [] symbol.kind = "definition" /\ text[symbol.item].op = "let" /\ text[symbol.item].other = Literal ->
         Type("number", 0)
    [] OTHER -> Unknown

(* The first one that contains the place. *)
WrongFindStatement(place) ==
  LET found == {i \in DOMAIN types : /\ text[i].op \notin {"else", "end"}
                                     /\ Within(place, StatementSpan(i))}
  IN  IF found = {} THEN 0 ELSE Min(found)

(* find_statement: the last one passed that contains the place. *)
FindStatement(place) ==
  Max({0} \cup {i \in DOMAIN types : /\ text[i].op \notin {"else", "end"}
                                     /\ Within(place, StatementSpan(i))})

(* find_variable_type: a definition has the type that its statement has got *)
(* by now; all else the type of its symbol.                                 *)
VariableType(name, place) ==
  LET d == FindDefinition(name, place)
      s == FindStatement(index.symbols[d].place)
  IN  IF d = 0 THEN Unknown
      ELSE IF s # 0 /\ text[s].op \in {"let", "lambda"} THEN types[s]
      ELSE KnownType(index.symbols[d])

InferItem ==
  /\ status = "inferring" /\ at \in DOMAIN text
  /\ types' = Append(types,
       CASE Now.op = "lambda" -> Type("function", at)
         [] Now.op = "let" /\ Now.other = Literal -> Type("number", 0)
         [] Now.op = "let" /\ Now.other # Literal -> VariableType(Now.other, OtherAt(at))
         [] OTHER -> Unknown)
  /\ at' = at + 1
  /\ UNCHANGED <<text, index, pending, status>>

InferProgram ==
  /\ status = "inferring" /\ at > Len(text)
  /\ status' = "done"
  /\ UNCHANGED <<text, at, index, pending, types>>

-----------------------------------------------------------------------------
Init ==
  /\ text \in Texts
  /\ at = 1
  /\ index = NoIndex
  /\ pending = <<>> /\ types = <<>>
  /\ status = "walking"

Next == \/ WalkLet
        \/ WalkUse
        \/ WalkFn
        \/ WalkLambda
        \/ WalkReturn
        \/ WalkIf
        \/ WalkFor
        \/ WalkWhile
        \/ WalkClass
        \/ WalkElse
        \/ WalkEnd
        \/ WalkProgram
        \/ InferItem
        \/ InferProgram

Spec == Init /\ [][Next]_vars

-----------------------------------------------------------------------------
(***************************************************************************)
(* What the run finds.                                                     *)
(***************************************************************************)

(* The bodies around item i, as the items that begin them; 0, the program.  *)
Bodies(i) == {0} \cup {b \in 1 .. (i - 1) : text[b].op \in Opens \cup {"else"} /\ Closer(text, b) > i}
Body(i) == Max(Bodies(i))
InClass(i) == Body(i) # 0 /\ text[Body(i)].op = "class"

(* The declarations of the text: of an item, or of its argument.            *)
Declarations ==
  {[name |-> text[i].name, place |-> NameAt(i), item |-> i] :
     i \in {j \in DOMAIN text : text[j].op \in {"let", "fn", "lambda", "for", "class"}}}
  \cup
  {[name |-> text[i].other, place |-> OtherAt(i), item |-> i] :
     i \in {j \in DOMAIN text : text[j].op \in {"fn", "lambda"} /\ text[j].other # Literal}}

(* The body in which the run knows one: it opens one for each loop, and a   *)
(* method is a name in itself only.                                         *)
KnownIn(d) ==
  IF d.place = OtherAt(d.item) \/ text[d.item].op = "for" \/ InClass(d.item) THEN d.item ELSE Body(d.item)

DeclaredOnce == \A c, d \in Declarations : c.name = d.name => c = d

(* The declarations that the translator has for a name in item i. *)
Visible(name, i) ==
  {d \in Declarations : d.name = name /\ d.item <= i /\ KnownIn(d) \in Bodies(i)}

(* The one that an item reads.                                              *)
Read(i) == CHOOSE d \in Visible(text[i].other, i) : TRUE

Uses == {s \in Range(index.symbols) : s.kind = "variable"}
Settled == status = "done"
Found(use) == LET s == FindDefinition(use.name, use.place)
              IN  IF s = 0 THEN {} ELSE {index.symbols[s]}

(* The body whose scope the editor knows around item i. *)
ScopeBody(i) == Max({b \in Bodies(i) : b = 0 \/ text[b].op \notin Loops})

(* The declaration is of an else around the use, with nothing between them  *)
(* that has a span of its own.                                              *)
InOwnElse(use, d) ==
  LET body == ScopeBody(d.item)
  IN  /\ body # 0 /\ text[body].op = "else" /\ body \in Bodies(use.item)
      /\ \A b \in Bodies(use.item) : b > body => text[b].op \in Loops \cup {"else"}

-----------------------------------------------------------------------------
(***************************************************************************)
(* Properties.                                                             *)
(***************************************************************************)

(* In a text that declares no name twice the editor finds for a name the    *)
(* declaration that the run uses: unless both stand in the same else, whose *)
(* scope has the span of another block.                                     *)
FindsDeclaration ==
  Settled /\ DeclaredOnce =>
    \A use \in Uses : \A d \in Visible(use.name, use.item) :
      InOwnElse(use, d) \/ {s.place : s \in Found(use)} = {d.place}

(* Where the run knows nothing of a name and the editor does all the same,  *)
(* the declaration comes later, or is of a loop or a class that the use is  *)
(* not in: the editor opens no scope for loops, and takes methods for       *)
(* functions.                                                               *)
FindsMore ==
  Settled /\ DeclaredOnce =>
    \A use \in Uses : Visible(use.name, use.item) = {} =>
      \A s \in Found(use) :
        \/ s.item > use.item
        \/ InClass(s.item)
        \/ \E b \in (Bodies(s.item) \cup {s.item}) \ Bodies(use.item) : b # 0 /\ text[b].op \in Loops

(* The type of a variable: what follows from the types of the declarations  *)
(* the run uses, but for what the editor cannot find, and an argument of a  *)
(* lambda, which is taken for the lambda, as is in it a variable defined by *)
(* itself.  A name the run does not know may have any type.                 *)
Deserves(deserved, i) ==
  CASE text[i].op \in {"lambda", "fn"} -> Type("function", i)
    [] text[i].op = "class" -> Type("class", i)
    [] text[i].op = "let" /\ text[i].other = Literal -> Type("number", 0)
    [] text[i].op = "let" /\ text[i].other # Literal ->
         IF Visible(text[i].other, i) = {} THEN types[i]
         ELSE IF InOwnElse([item |-> i], Read(i)) THEN Unknown
         ELSE IF Read(i).item = i
           THEN IF Body(i) # 0 /\ text[Body(i)].op = "lambda" THEN Type("function", Body(i)) ELSE Unknown
         ELSE IF Read(i).place = OtherAt(Read(i).item) /\ text[Read(i).item].op = "fn"
           THEN Type("argument", Read(i).item)
         ELSE deserved[Read(i).item]
    [] OTHER -> Unknown

Deserved[i \in DOMAIN text] == Deserves(Deserved, i)

(* The types that the checker infers follow the variables that the run      *)
(* reads, along chains of definitions in any scopes.                        *)
TypesFollow ==
  Settled /\ DeclaredOnce =>
    \A i \in DOMAIN text :
      text[i].op = "let" /\ text[i].other # Literal
      /\ Visible(text[i].other, i) # {} => types[i] = Deserved[i]

=============================================================================
