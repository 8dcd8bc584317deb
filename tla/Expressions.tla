---------------------------- MODULE Expressions ----------------------------
(***************************************************************************)
(* Expressions, how the translator (core/src/translator.rs) folds them     *)
(* when a text is loaded and how the interpreter (core/src/interpreter.rs) *)
(* evaluates what is left of them.  An expression is a tuple of what it is *)
(* and its parts.  Calls and assignments are left out.                     *)
(***************************************************************************)
EXTENDS Values, SequencesExt

Sums == {"+", "-"}
Relations == {"<", "<=", ">", ">="}
Equalities == {"==", "!="}
Logicals == {"&&", "||"}

(* What comes next; the ? of the code. *)
Then(result, Next(_)) == IF result.status = "ok" THEN Next(result.value) ELSE result

(* The unwrap of the code. *)
Unwrapped(result) == IF result.status = "error" THEN Panics ELSE result

RECURSIVE Fold(_), Folds(_)

(* The items of an array literal. *)
Folds(es) ==
  IF es = <<>> THEN Got(<<>>)
  ELSE Then(Unwrapped(Fold(Head(es))), LAMBDA e : Then(Folds(Tail(es)), LAMBDA fs : Got(<<e>> \o fs)))

(* The sides of a sum that are values lead to a value. *)
FoldedSum(op, e, f) ==
  IF e[1] = "value" /\ f[1] = "value"
  THEN Then(Binary(op, e[2], f[2], <<>>), LAMBDA v : Got(<<"value", v>>))
  ELSE Got(<<op, e, f>>)

(* A mistake for the properties to find: it groups a - (b - c) the other    *)
(* way.                                                                     *)
WrongFold(e) ==
  CASE e[1] \in {"value", "variable"} -> Got(e)
    [] e[1] = "array"                 -> Then(Folds(Tail(e)), LAMBDA fs : Got(<<"array">> \o fs))
    [] e[1] \in {"!", "sign"}         -> Then(Fold(e[2]), LAMBDA f : Got(<<e[1], f>>))
    [] e[1] \in Sums /\ e[3][1] = e[1] ->
         Then(FoldedSum(e[1], e[2], e[3][2]), LAMBDA f : FoldedSum(e[1], f, e[3][3]))
    [] OTHER                          ->
         Then(Fold(e[2]), LAMBDA f : Then(Fold(e[3]), LAMBDA g :
           IF e[1] \in Sums THEN FoldedSum(e[1], f, g) ELSE Got(<<e[1], f, g>>)))

(* translate_expression. *)
Fold(e) ==
  CASE e[1] \in {"value", "variable"} -> Got(e)
    [] e[1] = "array"                 -> Then(Folds(Tail(e)), LAMBDA fs : Got(<<"array">> \o fs))
    [] e[1] \in {"!", "sign"}         -> Then(Fold(e[2]), LAMBDA f : Got(<<e[1], f>>))
    [] OTHER                          ->
         Then(Fold(e[2]), LAMBDA f : Then(Fold(e[3]), LAMBDA g :
           IF e[1] \in Sums THEN FoldedSum(e[1], f, g) ELSE Got(<<e[1], f, g>>)))

-----------------------------------------------------------------------------
(***************************************************************************)
(* eval_expr: the value, and the heap with the arrays the expression made. *)
(***************************************************************************)

In(heap, result) == IF result.status = "ok" THEN [status |-> "ok", value |-> result.value, heap |-> heap] ELSE result
Both(result, Next(_, _)) == IF result.status = "ok" THEN Next(result.value, result.heap) ELSE result

(* By a number, or by the name of a method that there is not. *)
Member(v, w, heap) ==
  CASE Is("number", w) /\ Is("array", v)              -> Item(v[2], w, heap)
    [] Is("string", w) /\ v[1] \notin Prototypes      -> Panics
    [] OTHER                                          -> Failed

Negated(op, v) ==
  CASE op = "!"        -> Got(Bool(~Truth(v)))
    [] Is("number", v) -> Got(Number(-v[2]))
    [] OTHER           -> Failed

RECURSIVE Eval(_, _, _), Evals(_, _, _)

Evals(es, store, heap) ==
  IF es = <<>> THEN In(heap, Got(<<>>))
  ELSE Both(Unwrapped(Eval(Head(es), store, heap)), LAMBDA v, h :
         Both(Evals(Tail(es), store, h), LAMBDA vs, g : In(g, Got(<<v>> \o vs))))

(* The right side is evaluated if the left one does not settle it.          *)
Logical(e, store, heap) ==
  Both(Eval(e[2], store, heap), LAMBDA v, h :
    IF Truth(v) = (e[1] = "||") THEN In(h, Got(Bool(Truth(v))))
    ELSE Both(Eval(e[3], store, h), LAMBDA w, g : In(g, Got(Bool(Truth(w))))))

Operation(op, v, w, heap) ==
  CASE op \in Sums       -> Binary(op, v, w, heap)
    [] op \in Relations  -> Got(Relation(op, v, w))
    [] op \in Equalities -> Equality(op, v, w, heap)
    [] op = "member"     -> Member(v, w, heap)

Eval(e, store, heap) ==
  CASE e[1] = "value"       -> In(heap, Got(e[2]))
    [] e[1] = "variable"    -> In(heap, Got(store[e[2]]))
    [] e[1] = "array"       -> Both(Evals(Tail(e), store, heap), LAMBDA vs, h :
                                 In(Append(h, vs), Got(Array(Len(h) + 1))))
    [] e[1] \in {"!", "sign"} -> Both(Eval(e[2], store, heap), LAMBDA v, h : In(h, Negated(e[1], v)))
    [] e[1] \in Logicals    -> Logical(e, store, heap)
    [] OTHER                -> Both(Eval(e[2], store, heap), LAMBDA v, h :
                                 Both(Eval(e[3], store, h), LAMBDA w, g : In(g, Operation(e[1], v, w, g))))

=============================================================================
