------------------------------- MODULE Control -------------------------------
(***************************************************************************)
(* How return and break find their way (eval_body and its callers in       *)
(* core/src/interpreter.rs).  A body of statements runs in the innermost   *)
(* scope of Environment.scopes.  A return statement leaves its value in    *)
(* the interrupted field of the innermost Call scope, a break marks the    *)
(* innermost Loop scope of the same call, and the body it stands in ends;  *)
(* every other body ends only if its own scope is marked when one of its   *)
(* statements completes.  No result of eval_body says why a body ended.    *)
(* The scopes are those of one module: another one that runs meanwhile has *)
(* an environment of its own.                                              *)
(*                                                                         *)
(* The program is any program: at each point the model lets the body run   *)
(* any statement that can stand there.  A level of the variable levels is  *)
(* a scope with the body or the loop that runs in it.                      *)
(***************************************************************************)
EXTENDS Naturals, Sequences, SequencesExt

CONSTANTS
  Value,     (* Values of the language, opaque here.          *)
  Void,      (* ValueHolder::Void.                            *)
  Unmarked,  (* interrupted is None.                          *)
  MaxLevels  (* Bound on the nesting of the programs modelled. *)

ASSUME ValueAssumption == Void \in Value /\ Unmarked \notin Value

VARIABLES
  levels,  (* The scopes, the innermost last, with what runs in them.       *)
  result   (* The value of the last function call that returned.            *)

vars == <<levels, result>>

(* stmt: where the body is.  "none": between statements, or before the      *)
(* first; "expression" and "return": evaluating the expression of a         *)
(* statement; "block": in the block of an if or in a loop; "head": the      *)
(* level of a loop, between iterations; "over": the program has ended.      *)
Level == [kind : {"Program", "Call", "Loop", "Regular"},
          interrupted : Value \cup {Unmarked},
          stmt : {"none", "expression", "return", "block", "head", "over"}]

Enter(kind, stmt) == [kind |-> kind, interrupted |-> Unmarked, stmt |-> stmt]

Top == Last(levels)
Marked(i) == levels[i].interrupted # Unmarked

(* The innermost level of a kind, in a set that is empty if there is none.  *)
Indices(kind) == {i \in DOMAIN levels : levels[i].kind = kind}
Innermost(kind) == {i \in Indices(kind) : \A j \in Indices(kind) : j <= i}

Init ==
  /\ levels = <<Enter("Program", "none")>>
  /\ result = Void

(* These levels, with the innermost one's statement changed. *)
At(ls, stmt) == [ls EXCEPT ![Len(ls)].stmt = stmt]
Mark(i, v) == [levels EXCEPT ![i].interrupted = v]

(***************************************************************************)
(* Bodies.                                                                 *)
(***************************************************************************)

(* A mistake for the properties to find, here and below with names that     *)
(* start with Wrong: exit_scope is called twice when a call returns.        *)
WrongEndBody(ls, v) ==
  CASE Last(ls).kind = "Regular" -> levels' = Front(ls) /\ UNCHANGED result
    [] Last(ls).kind = "Loop"    -> levels' = At(ls, "head") /\ UNCHANGED result
    [] Last(ls).kind = "Call"    -> levels' = Front(Front(ls)) /\ result' = v
    [] Last(ls).kind = "Program" -> levels' = At(ls, "over") /\ UNCHANGED result

(* The innermost body ends with value v, its scope marked or not: a block's *)
(* scope is left (and the if statement that holds it goes on to complete),  *)
(* a loop is back at its head, a call returns.                              *)
EndBody(ls, v) ==
  CASE Last(ls).kind = "Regular" -> levels' = Front(ls) /\ UNCHANGED result
    [] Last(ls).kind = "Loop"    -> levels' = At(ls, "head") /\ UNCHANGED result
    [] Last(ls).kind = "Call"    -> levels' = Front(ls) /\ result' = v
    [] Last(ls).kind = "Program" -> levels' = At(ls, "over") /\ UNCHANGED result

(* A completed block does not look at the mark. *)
WrongComplete ==
  /\ Top.stmt \in {"expression", "block"}
  /\ IF Marked(Len(levels)) /\ Top.stmt # "block"
       THEN EndBody(levels, Top.interrupted)
       ELSE levels' = At(levels, "none") /\ UNCHANGED result

(* A statement other than return and break completes: the body goes on,     *)
(* unless its scope was marked meanwhile.                                   *)
Complete ==
  /\ Top.stmt \in {"expression", "block"}
  /\ IF Marked(Len(levels))
       THEN EndBody(levels, Top.interrupted)
       ELSE levels' = At(levels, "none") /\ UNCHANGED result

(* return v: the innermost call is marked, past loops and blocks, and the   *)
(* body ends; outside of functions there is none and the body goes on.      *)
Return(v) ==
  /\ Top.stmt = "return"
  /\ IF Marked(Len(levels))           THEN EndBody(levels, Top.interrupted)
     ELSE IF Indices("Call") = {}     THEN levels' = At(levels, "none") /\ UNCHANGED result
     ELSE \E i \in Innermost("Call") : EndBody(Mark(i, v), v)

(* The search for the loop does not stop at the call. *)
WrongBreakable == Innermost("Loop")

(* The loop a break finds: the innermost one, unless a call is nearer.      *)
Breakable == {i \in Innermost("Loop") : \A j \in Indices("Call") : j < i}

(* break: that loop is marked and the body ends; without one it goes on.    *)
Break ==
  /\ Top.stmt = "none"
  /\ IF Marked(Len(levels)) THEN EndBody(levels, Top.interrupted)
     ELSE IF Breakable = {}  THEN UNCHANGED vars
     ELSE \E i \in Breakable : EndBody(Mark(i, Void), Void)

(* Out of statements. *)
Finish ==
  /\ Top.stmt = "none"
  /\ EndBody(levels, Void)

(***************************************************************************)
(* Statements.                                                             *)
(***************************************************************************)

(* A statement begins: an expression, a definition, an if or a loop, whose  *)
(* expression comes first; or a return.                                     *)
Start(stmt) ==
  /\ Top.stmt = "none"
  /\ stmt \in {"expression", "return"}
  /\ levels' = At(levels, stmt)
  /\ UNCHANGED result

(* Code on top that can go on to run a body in a new scope. *)
Room(stmts) == Top.stmt \in stmts /\ Len(levels) < MaxLevels

(* A function, a method or an array's find predicate is called while an     *)
(* expression is evaluated: that of a statement or the condition of a while *)
(* (the field of a class cannot call one).                                  *)
CallFunction ==
  /\ Room({"expression", "return", "head"})
  /\ Top.stmt = "head" => ~Marked(Len(levels))
  /\ levels' = Append(levels, Enter("Call", "none"))
  /\ UNCHANGED result

(* eval_if, of the block or of its alternative. *)
EnterBlock ==
  /\ Room({"expression"})
  /\ levels' = Append(At(levels, "block"), Enter("Regular", "none"))
  /\ UNCHANGED result

(* eval_for and eval_while: one scope for all the iterations. *)
EnterLoop ==
  /\ Room({"expression"})
  /\ levels' = Append(At(levels, "block"), Enter("Loop", "head"))
  /\ UNCHANGED result

(* The next iteration, if the last one did not break the loop. *)
Iterate ==
  /\ Top.stmt = "head" /\ ~Marked(Len(levels))
  /\ levels' = At(levels, "none")
  /\ UNCHANGED result

(* The loop is broken, or its range, array or condition is done. *)
LeaveLoop ==
  /\ Top.stmt = "head"
  /\ levels' = Front(levels)
  /\ UNCHANGED result

(* An error while hoisting or in an expression goes through every body,     *)
(* call and loop and ends the program; the scopes it leaves are not used.   *)
Fail ==
  /\ Top.stmt \in {"none", "expression", "return", "head"}
  /\ levels' = At(levels, "over")
  /\ UNCHANGED result

(* The program has ended. *)
Exited == Top.stmt = "over" /\ UNCHANGED vars

Next ==
  \/ \E stmt \in {"expression", "return"} : Start(stmt)
  \/ Complete \/ Break \/ Finish
  \/ \E v \in Value : Return(v)
  \/ CallFunction \/ EnterBlock \/ EnterLoop \/ Iterate \/ LeaveLoop
  \/ Fail
  \/ Exited

Spec == Init /\ [][Next]_vars

-----------------------------------------------------------------------------
(***************************************************************************)
(* Properties.                                                             *)
(***************************************************************************)

(* Levels have their types and nest as the syntax does: the program at the  *)
(* bottom, the scope of a block or of a loop over the statement that holds  *)
(* it, that of a call over an expression, a body in progress under each;    *)
(* so exit_scope always finds the scope that its enter_scope pushed.        *)
Holds(lower, upper) ==
  CASE upper.kind = "Call"                -> lower.stmt \in {"expression", "return", "head"}
    [] upper.kind \in {"Loop", "Regular"} -> lower.stmt = "block"
    [] OTHER                              -> FALSE

Nested(ls) ==
  /\ ls \in Seq(Level)
  /\ ls # << >> /\ ls[1].kind = "Program"
  /\ \A i \in DOMAIN ls : i + 1 \in DOMAIN ls => Holds(ls[i], ls[i + 1])
  /\ \A i \in DOMAIN ls : ls[i].stmt = "head" => ls[i].kind = "Loop"

TypeOK == Nested(levels) /\ result \in Value

(* A marked scope never begins another statement of its own body, nor a     *)
(* loop another iteration, whatever was marked, by whom and how deep: the   *)
(* test in eval_body comes after each statement of each body.               *)
MarkedStops == \A i \in DOMAIN levels : Marked(i) => levels[i].stmt # "none"

(* A call is a frontier: nothing that runs in a function marks, changes or  *)
(* takes away a scope of its callers, not even with a break outside of its  *)
(* own loops.                                                               *)
Frontiers ==
  \A call \in Indices("Call") : \A i \in 1 .. call - 1 :
    i \in DOMAIN levels' /\ levels'[i] = levels[i]

CallsAreFrontiers == [][Frontiers]_vars

(* A call that a nested return marked returns that value, however many      *)
(* blocks and loops the body has to leave in between.                       *)
Arrives ==
  Top.kind = "Call" /\ Marked(Len(levels)) /\ Len(levels') < Len(levels) =>
    result' = Top.interrupted

ReturnArrives == [][Arrives]_vars

(* After a return statement no other statement of the same call begins, as  *)
(* core/tests/searching.nlf expects of the return in its for loop.          *)
ReturnStops ==
  [][\A stmt \in {"expression", "return"} :
       Start(stmt) => \A i \in Innermost("Call") : ~Marked(i)]_vars

=============================================================================
