------------------------------ MODULE MCLoader ------------------------------
EXTENDS Loader

CONSTANTS m1, m2, m3, m4, f

Layers == [m \in Module |-> CASE m = m1 -> 4 [] m = m2 -> 3 [] m = m3 -> 2 [] m = m4 -> 1]

(* Import lists: none, each module, and each pair of modules in both orders. *)
Wants(m) == [from |-> m, names |-> {f}]
Lists(S) == {<<>>} \cup {<<Wants(m)>> : m \in S}
            \cup {<<Wants(p[1]), Wants(p[2])>> : p \in {q \in S \X S : q[1] # q[2]}}

(* Programs without a broken file.                                          *)
Whole(graphs, escapes) ==
  [readable : {Module}, exports : {[m \in Module |-> {f}]}, imports : graphs,
   escapes : escapes]

(* Every import graph of three modules, cycles and self imports included,   *)
(* with and without escaping functions; every layered one of four.          *)
Three == Module \ {m4}
AnyGraph ==
  Whole({g \in [Module -> Lists(Three)] : m4 \in Module => g[m4] = <<>>}, BOOLEAN)

LayeredGraph ==
  Whole({g \in [Module -> Lists(Module)] :
           \A m \in Module : \A i \in DOMAIN g[m] : Layers[g[m][i].from] < Layers[m]},
        {FALSE})

(* Three modules with broken files too: any of the files unreadable or      *)
(* without the export, import statements without names, one list of two.    *)
AnyFiles ==
  {p \in [readable : {Module \ S : S \in SUBSET Three},
          exports : [Module -> {{}, {f}}],
          imports : [Module -> {<<>>, <<Wants(m2), Wants(m3)>>, <<[from |-> m2, names |-> {}]>>}
                               \cup {<<Wants(m)>> : m \in Three}],
          escapes : {FALSE}] :
     p.exports[m4] = {} /\ p.imports[m4] = <<>>}

AnyProgram == AnyGraph \cup LayeredGraph \cup AnyFiles

=============================================================================
