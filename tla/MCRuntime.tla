----------------------------- MODULE MCRuntime -----------------------------
EXTENDS Runtime

(* Letters of strings are from 10 on. *)
MCSpelled(v) ==
  CASE Is("number", v) -> <<v[2] + 30>>
    [] Is("bool", v)   -> IF v[2] THEN <<5, 5>> ELSE <<5>>
    [] Is("void", v)   -> <<6>>
    [] OTHER           -> <<7>>

S == Text(<<10>>)

Runs(mentions, statements) == [mentions |-> mentions, statements |-> statements]
MCPrograms ==
  {Runs({Number(0)}, 4), Runs({Number(1), S}, 3)}
  \cup {Runs({Number(l), Number(r)}, 1) : l, r \in -5 .. 5}
  \cup {Runs({v, w}, 1) : v, w \in {Number(1), S, Text(<<>>), Text(<<11>>), Text(<<10, 11>>), Bool(TRUE), Bool(FALSE), Void}}

V(v) == <<"value", v>>
Made(ops, es) ==
  {<<op, e, f>> : op \in ops, e, f \in es}
  \cup {<<op, e>> : op \in {"!", "sign"}, e \in es}
  \cup {<<"array">>} \cup {<<"array", e>> : e \in es}

X == <<"variable", "x">>
Small == {V(Number(1)), V(S), V(Bool(TRUE)), X}
Middle == Small \cup Made({"+", "-", "==", "&&", "member"}, Small \ {V(Bool(TRUE))})
MCSources ==
  Made({"+", "-", "<=", "||", "member"}, Middle)
  \cup Made({"<", ">", ">=", "!="}, Small \cup {V(Number(0)), V(Bool(FALSE)), <<"array", X>>, <<"array", X, X>>})
MCStores == {[v \in Var |-> IF v = "x" THEN of ELSE Void] : of \in {Number(1), S, Bool(FALSE), Void, Array(1)}}

=============================================================================
