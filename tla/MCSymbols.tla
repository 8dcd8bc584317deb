----------------------------- MODULE MCSymbols -----------------------------
EXTENDS Symbols

CONSTANTS x, y, z, w, f, g, a, b

I(op, name, other) == [op |-> op, name |-> name, other |-> other]
End == I("end", Literal, Literal)
Else == I("else", Literal, Literal)
Let(name, other) == I("let", name, other)

(* A lambda in a function, and what both leave visible. *)
Nested ==
  {<<I("call", g, p), Let(x, Literal), I("fn", f, a), Let(y, q), I("lambda", g, b), Let(z, r), I("set", x, p), End,
     I("call", q, s), End, Let(w, s)>> : p, q, r, s \in {x, y, z, w, f, b}}

(* A loop in one of two branches. *)
Branches ==
  {<<Let(x, Literal), I("if", p, p), Let(y, q), Else, Let(z, r), I("for", f, s), Let(w, q), I("call", s, r), End,
     I("call", r, p), End, I("call", p, s)>> : p, q, r, s \in {x, y, z, w, f}}

(* A function in an else, and one in a loop. *)
Looping ==
  {<<Let(x, Literal), I("while", p, p), Let(y, q), I("fn", f, Literal), Let(z, r), End, End,
     I("if", x, x), Else, Let(g, q), I("lambda", w, b), I("set", s, r), Let(a, s), End, End, I("call", s, q)>> :
       p, q, r, s \in {x, y, f, a, g, w, b}}

(* Methods, and a class in a branch. *)
Classes ==
  {<<I("class", f, Literal), I("fn", g, a), Let(x, p), End, I("fn", w, b), I("call", q, p), End, End,
     I("if", r, r), I("class", y, Literal), I("fn", z, Literal), I("call", r, s), End, End, Else, I("call", q, s), End>> :
       p, q, r, s \in {f, g, x, w, y, z}}

(* Branches of branches. *)
Elses ==
  {<<I("if", x, x), Else, Let(x, Literal), I("if", p, x), Let(y, q), Else, Let(z, r), I("while", p, p), Let(w, s), End,
     I("if", r, p), I("call", q, r), End, End, I("call", s, q), End>> : p, q, r, s \in {x, y, z, w}}

Returned ==
  {<<I("fn", f, a), I("if", p, p), I("return", Literal, b), I("call", q, p), End, End, End>> : p, q \in Name}

MCTexts == Nested \cup Branches \cup Looping \cup Classes \cup Elses \cup Returned

=============================================================================
