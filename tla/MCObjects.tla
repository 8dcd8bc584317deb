----------------------------- MODULE MCObjects -----------------------------
EXTENDS Objects

(* The orders the programs of a run use.  AllOrders: every order of every  *)
(* set of keys.  SomeOrders: none, one key, two keys in both orders, and   *)
(* three with the last key first.                                          *)
AllOrders == UNION {SetToSeqs(S) : S \in SUBSET Key}
SomeOrders == {<<>>, <<2>>, <<1, 2>>, <<2, 1>>, <<3, 1, 2>>}

(* References and values are opaque to every definition of Objects. *)
Symmetry == Permutations(Ref) \cup Permutations(Value)

=============================================================================
