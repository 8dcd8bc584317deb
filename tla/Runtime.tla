------------------------------ MODULE Runtime ------------------------------
(***************************************************************************)
(* A module of the language from its load to its run: expressions are      *)
(* translated once (core/src/loader.rs) and evaluated against any state;   *)
(* or the statements of Arrays are run.                                    *)
(***************************************************************************)
EXTENDS Arrays, Expressions

CONSTANTS
  Sources,    (* The expressions.                                          *)
  Stores      (* The values of the variables they are evaluated with; an   *)
              (* array is the one that holds the numbers 0 and 1.          *)

VARIABLES
  source,     (* The expression, if it is one.                             *)
  code,       (* What it was translated to.                                *)
  result      (* Its value.                                                *)

vars == <<arraysVars, source, code, result>>

None == <<"none">>
NotYet == [status |-> "not yet"]

-----------------------------------------------------------------------------
Init ==
  /\ code = NotYet /\ result = NotYet
  /\ \/ source = None /\ ArraysInit
     \/ /\ source \in Sources /\ store \in Stores
        /\ heap = <<<<Number(0), Number(1)>>>>
        /\ stack = <<>> /\ begun = <<>> /\ outcome = "loading"
        /\ program = [mentions |-> {}, statements |-> 0]

Run == ArraysNext /\ UNCHANGED <<source, code, result>>

Translate ==
  /\ source # None /\ code = NotYet
  /\ code' = Fold(source)
  /\ UNCHANGED <<arraysVars, source, result>>

Evaluate ==
  /\ code.status = "ok" /\ result = NotYet
  /\ result' = Eval(code.value, store, heap)
  /\ UNCHANGED <<arraysVars, source, code>>

Next == Run \/ Translate \/ Evaluate

Spec == Init /\ [][Next]_vars

-----------------------------------------------------------------------------
RECURSIVE Subexpressions(_)
Subexpressions(e) ==
  {e} \cup IF e[1] \in {"value", "variable"} THEN {}
           ELSE UNION {Subexpressions(e[i]) : i \in 2 .. Len(e)}

(* What an expression that is translated is worth is what it would be       *)
(* worth as it was written, in every state.  An expression is refused       *)
(* only for a sum in it that is worth nothing in any state: but also if it  *)
(* would never be evaluated.                                                *)
FoldedAlike ==
  /\ result # NotYet => result = Eval(source, store, heap)
  /\ code.status \in {"error", "panic"} =>
       \E e \in Subexpressions(source) :
         e[1] \in Sums /\ \A s \in Stores : Eval(e, s, heap).status \in {"error", "panic"}

=============================================================================
