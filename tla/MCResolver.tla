----------------------------- MODULE MCResolver -----------------------------
EXTENDS Resolver

CONSTANTS x, y, f, g

I(op, name, other) == [op |-> op, name |-> name, other |-> other]
End == I("end", Literal, Literal)
V == {x, y}

(* A function in a function, which uses variables of both and of the        *)
(* program and outlives the call that created it.                           *)
Nested ==
  {<<I("let", a, Literal), I("fn", f, b), I("let", c, d), I("fn", g, e), I("set", h, i), End,
     I("set", j, g), End, I("call", f, a), I("call", k, a)>> :
   a, b, c, d, e, h, i, j, k \in V}

(* A loop whose iterations share a scope with a function that one of them   *)
(* hands out; its range and its body use either name.                       *)
Looping ==
  {<<I("let", x, Literal), I("let", y, x), I("for", a, b), I("let", c, d), I("fn", f, e),
     I("set", h, i), End, I("set", j, f), I("call", f, k), End, I("call", j, x)>> :
   a, b, c, d, e, h, i, j, k \in V}

(* A while in a function that calls itself, and a block in the loop: the    *)
(* scopes of several calls, of their loops and blocks are active together.  *)
Recursing ==
  {<<I("let", x, Literal), I("let", y, Literal), I("fn", f, a), I("while", b, b),
     I("let", y, c), I("if", d, d),
     I("let", e, h), I("call", f, i), End, End, I("set", j, x), End, I("call", k, x)>> :
   a, b, c, d, e, h, i, j \in V, k \in {f, y}}

(* A lambda beside hoisted functions, one of them called by the other       *)
(* before the text has declared it.                                         *)
Lambdas ==
  {<<I("let", a, Literal), I("lambda", b, c), I("let", g, d), I("set", e, g), End,
     I("let", h, i), I("fn", f, x), I("call", j, b), End, I("fn", g, y), I("call", k, y), End,
     I("call", j, a)>> :
   a, b, c, d, e, h, i \in V, j, k \in {x, y, f, g}}

AllTexts == Nested \cup Looping \cup Recursing \cup Lambdas

=============================================================================
