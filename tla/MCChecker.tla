----------------------------- MODULE MCChecker -----------------------------
EXTENDS Checker

CONSTANTS a, b, c

I(op, name, types) == [op |-> op, name |-> name, types |-> types]
Import(f) == I("import", f, {})
Class(f, types) == I("class", f, types)
Fn(f, types) == I("fn", f, types)
Let(f) == I("let", f, {})
Odd(f) == I("export", f, {})

(* Any three statements; files that may be anything an import can meet; and *)
(* files that end the imports or lead them back.                            *)
Outer == {<<i, j, k>> : i, j, k \in
           {Import(b), Import(c), Class(a, {}), Class(a, {a}), Class(a, {b}), Fn(a, {a}), Fn(a, {b}),
            Let(b), Odd(a)}}
Middle == {Missing, Broken, <<>>, <<Class(b, {})>>, <<Fn(b, {})>>, <<Odd(b), Class(b, {})>>,
           <<Import(c), Class(b, {c})>>, <<Class(b, {c}), Import(c)>>, <<Fn(b, {c}), Import(c)>>,
           <<Import(c), Let(c), Class(b, {})>>, <<Import(a), Class(b, {})>>}
Inner == {Missing, Broken, <<>>, <<Class(c, {})>>, <<Fn(c, {})>>, <<Import(a), Class(c, {})>>,
          <<Import(b), Class(c, {})>>, <<Import(c)>>}

MCDisks == {[f \in File |-> CASE f = a -> x [] f = b -> y [] f = c -> z] :
              x \in Outer, y \in Middle, z \in Inner}

=============================================================================
