------------------------------ MODULE Resolver ------------------------------
(***************************************************************************)
(* Variables (core/src/translator.rs, Environment and hoist_declarations   *)
(* in core/src/interpreter.rs).  The translator passes once over the text  *)
(* and replaces each name by the slot the name has in its scope and the    *)
(* number of scopes to go up to find that scope.  The interpreter goes up  *)
(* that many of its own scopes, which it enters in other places and at     *)
(* other times, and uses the slot there.  A function takes the scope it    *)
(* was created in with it; the scope of a loop is one for all iterations.  *)
(*                                                                         *)
(* A text is a sequence of items; fn, lambda, if, while and for open a     *)
(* body that the matching end closes.  Return, break and the contents of   *)
(* expressions are left to module Control.                                 *)
(***************************************************************************)
EXTENDS Integers, Sequences, FiniteSets, SequencesExt, FiniteSetsExt

CONSTANTS
  Name,       (* Names of variables.                                       *)
  Literal,    (* An expression without variables, in place of a name.      *)
  Texts,      (* The texts to run.                                         *)
  MaxScopes   (* Bound on the scopes a run enters.                         *)

(* let name = other; name = other; fn name(other) {; let name = (other) => *)
(* {; name(other); if other {; while other {; for name in other {; }.      *)
Op == {"let", "set", "fn", "lambda", "call", "if", "while", "for", "end"}
Item == [op : Op, name : Name \cup {Literal}, other : Name \cup {Literal}]

(* The bodies that are open behind item p of a text. *)
Opening == {"fn", "lambda", "if", "while", "for"}
Depth(t, p) ==
  Cardinality({q \in 1 .. p : t[q].op \in Opening}) - Cardinality({q \in 1 .. p : t[q].op = "end"})

(* Texts come from the parser: what is opened is closed.                    *)
ASSUME LiteralAssumption == Literal \notin Name
(* ... and no name that can be written is a place, as those of lambdas are.  *)
ASSUME NameAssumption == \A n \in Name \cup {Literal} : n \notin Nat
ASSUME TextsAssumption ==
  \A t \in Texts :
    /\ t \in Seq(Item)
    /\ \A p \in DOMAIN t : Depth(t, p) >= 0
    /\ Depth(t, Len(t)) = 0

VARIABLES
  text,        (* The text at hand; never changes.                         *)
  tables,      (* The translator's stack of scopes.                        *)
  code,        (* The items translated so far.                             *)
  redeclared,  (* Whether some scope has declared a name twice.            *)
  heap,        (* All the scopes of the run, in the order of their entry.  *)
  active,      (* Environment.scopes, as indices of heap, the last on top. *)
  pc,          (* The item the run is at.                                  *)
  status       (* Translating, running, or how it ended.                   *)

vars == <<text, tables, code, redeclared, heap, active, pc, status>>

(* What a name stands for: the declaration at an item of the text.  An item *)
(* that opens a function declares there its own name again and its          *)
(* parameter; a lambda has a name nobody can write in the scope around it.  *)
Binding(at, role) == [at |-> at, role |-> role]
Nothing == Binding(0, "none")

-----------------------------------------------------------------------------
(***************************************************************************)
(* The translator.                                                         *)
(***************************************************************************)

(* A table: the item that opened the scope (0: the program), and for each   *)
(* name its slot and what it stands for.                                    *)
Table(open) == [open |-> open, symbols |-> [n \in {} |-> Nothing]]

(* A mistake for the properties to find, here and below with names that     *)
(* start with Wrong: the first slot is left out when they are counted.      *)
WrongNextSlot(table) ==
  IF DOMAIN table.symbols = {} THEN 0 ELSE Cardinality(DOMAIN table.symbols) - 1

(* map.len(), which a second declaration of a name does not increase.       *)
NextSlot(table) == Cardinality(DOMAIN table.symbols)

(* Context::set, in the innermost table.                                    *)
Declare(ts, name, binding) ==
  LET table  == Last(ts)
      symbol == [slot |-> NextSlot(table), binding |-> binding]
  IN  Append(Front(ts), [table EXCEPT !.symbols =
        [n \in DOMAIN @ \cup {name} |-> IF n = name THEN symbol ELSE @[n]]])

Twice(ts, name) == name \in DOMAIN Last(ts).symbols

(* Context::get: the innermost table with the name and the hops to it.      *)
Holders(ts, name) == {i \in DOMAIN ts : name \in DOMAIN ts[i].symbols}
Known(ts, name) == name = Literal \/ Holders(ts, name) # {}

NoRef == [slot |-> -1, depth |-> 0, binding |-> Nothing]

Resolve(ts, name) ==
  IF Holders(ts, name) = {} THEN NoRef
  ELSE LET i == Max(Holders(ts, name))
       IN  [slot    |-> ts[i].symbols[name].slot,
            depth   |-> Len(ts) - i,
            binding |-> ts[i].symbols[name].binding]

(* A declared name, as the declaration itself refers to it. *)
Declared(ts, name) == [Resolve(ts, name) EXCEPT !.depth = 0]

At == Len(code) + 1
Now == text[At]
Translating(op) == status = "translating" /\ At \in DOMAIN text /\ Now.op = op

Emit(ts, target, other, param) ==
  /\ tables' = ts
  /\ code' = Append(code, [op |-> Now.op, inside |-> Last(tables).open,
                           target |-> target, other |-> other, param |-> param])
  /\ UNCHANGED <<text, heap, active, pc, status>>

(* The name is not known and translate fails. *)
Unknown(ts, name) ==
  /\ ~Known(ts, name)
  /\ status' = "unresolved"
  /\ UNCHANGED <<text, tables, code, redeclared, heap, active, pc>>

(* The scope of a function: its own name has slot 0, its parameter slot 1.  *)
Function(ts, name) == Declare(Append(ts, Table(At)), name, Binding(At, "self"))

(* The name is declared before the expression is translated. *)
TranslateLet ==
  /\ Translating("let")
  /\ LET ts == Declare(tables, Now.name, Binding(At, "own"))
     IN  \/ /\ Known(ts, Now.other)
            /\ Emit(ts, Declared(ts, Now.name), Resolve(ts, Now.other), NoRef)
            /\ redeclared' = (redeclared \/ Twice(tables, Now.name))
         \/ Unknown(ts, Now.other)

TranslateSet ==
  /\ Translating("set")
  /\ \/ /\ Known(tables, Now.name) /\ Known(tables, Now.other)
        /\ Emit(tables, Resolve(tables, Now.name), Resolve(tables, Now.other), NoRef)
        /\ UNCHANGED redeclared
     \/ Unknown(tables, Now.name)
     \/ Unknown(tables, Now.other)

TranslateFn ==
  /\ Translating("fn")
  /\ LET around == Declare(tables, Now.name, Binding(At, "own"))
         body   == Function(around, Now.name)
         ts     == Declare(body, Now.other, Binding(At, "param"))
     IN  /\ Emit(ts, Declared(around, Now.name), NoRef, Declared(ts, Now.other))
         /\ redeclared' = (redeclared \/ Twice(tables, Now.name) \/ Twice(body, Now.other))

(* The lambda itself, named after its place, takes a slot that stays empty. *)
TranslateLambda ==
  /\ Translating("lambda")
  /\ LET let    == Declare(tables, Now.name, Binding(At, "own"))
         around == Declare(let, At, Binding(At, "lambda"))
         ts     == Declare(Function(around, At), Now.other, Binding(At, "param"))
     IN  /\ Emit(ts, Declared(let, Now.name), NoRef, Declared(ts, Now.other))
         /\ redeclared' = (redeclared \/ Twice(tables, Now.name))

(* A callee that is not known stays a name, for the table of functions.     *)
TranslateCall ==
  /\ Translating("call")
  /\ \/ /\ Known(tables, Now.other)
        /\ Emit(tables, Resolve(tables, Now.name), Resolve(tables, Now.other), NoRef)
        /\ UNCHANGED redeclared
     \/ Unknown(tables, Now.other)

(* The condition of an if is outside of the scope of its block. *)
TranslateIf ==
  /\ Translating("if")
  /\ \/ /\ Known(tables, Now.other)
        /\ Emit(Append(tables, Table(At)), NoRef, Resolve(tables, Now.other), NoRef)
        /\ UNCHANGED redeclared
     \/ Unknown(tables, Now.other)

(* The condition of a while is translated outside of the loop's scope. *)
WrongTranslateWhile ==
  /\ Translating("while")
  /\ \/ /\ Known(tables, Now.other)
        /\ Emit(Append(tables, Table(At)), NoRef, Resolve(tables, Now.other), NoRef)
        /\ UNCHANGED redeclared
     \/ Unknown(tables, Now.other)

(* The condition of a while is inside the scope of the loop. *)
TranslateWhile ==
  /\ Translating("while")
  /\ LET ts == Append(tables, Table(At))
     IN  \/ /\ Known(ts, Now.other)
            /\ Emit(ts, NoRef, Resolve(ts, Now.other), NoRef)
            /\ UNCHANGED redeclared
         \/ Unknown(ts, Now.other)

(* The range or array of a for is outside, its variable inside.             *)
TranslateFor ==
  /\ Translating("for")
  /\ LET ts == Declare(Append(tables, Table(At)), Now.name, Binding(At, "own"))
     IN  \/ /\ Known(tables, Now.other)
            /\ Emit(ts, Declared(ts, Now.name), Resolve(tables, Now.other), NoRef)
            /\ UNCHANGED redeclared
         \/ Unknown(tables, Now.other)

TranslateEnd ==
  /\ Translating("end")
  /\ Emit(Front(tables), NoRef, NoRef, NoRef)
  /\ UNCHANGED redeclared

Translate ==
  \/ TranslateLet \/ TranslateSet \/ TranslateFn \/ TranslateLambda \/ TranslateCall
  \/ TranslateIf \/ TranslateWhile \/ TranslateFor \/ TranslateEnd

-----------------------------------------------------------------------------
(***************************************************************************)
(* The scopes of the run.                                                  *)
(***************************************************************************)

(* A value remembers what it was stored for.  fn: the item of the function  *)
(* it is, 0 for data; scope: the scope the function took with it.           *)
Value(binding, fn, scope) == [binding |-> binding, fn |-> fn, scope |-> scope]
Void == Value(Nothing, 0, 0)
Missing == Value(Nothing, -1, 0)

(* A scope: what opened it, the scope on top when it was entered, the scope *)
(* its function took along (0: it is not a call), the item to go on with,   *)
(* and its slots.                                                           *)
Scope(open, captured, back, slots) ==
  [open |-> open, parent |-> IF active = << >> THEN 0 ELSE Last(active),
   captured |-> captured, back |-> back, slots |-> slots]

(* Up through the scope that entered the call. *)
WrongUp(i) == heap[i].parent

(* One scope up: out of a call to the scope its function was created in.    *)
Up(i) == IF heap[i].captured # 0 THEN heap[i].captured ELSE heap[i].parent

Target(depth) ==
  LET climb[d \in 0 .. depth] ==
        IF d = 0 THEN Last(active)
        ELSE IF climb[d - 1] = 0 THEN 0 ELSE Up(climb[d - 1])
  IN  climb[depth]

(* Environment::get; Missing is None.  A literal is data.                   *)
Get(ref) ==
  LET i == Target(ref.depth)
  IN  IF i = 0 \/ ref.slot + 1 \notin DOMAIN heap[i].slots THEN Missing
      ELSE heap[i].slots[ref.slot + 1]

Eval(name, ref) == IF name = Literal THEN Void ELSE Get(ref)

(* Environment::set with define: slots grow with Void to hold this one.     *)
Put(slots, ref, value) ==
  [s \in 1 .. Max({Len(slots), ref.slot + 1}) |->
     IF s = ref.slot + 1 THEN [value EXCEPT !.binding = ref.binding]
     ELSE IF s \in DOMAIN slots THEN slots[s] ELSE Void]

(* The functions declared in the body that an item opens.                   *)
FnsIn(open) == {p \in DOMAIN code : code[p].op = "fn" /\ code[p].inside = open}

(* Functions stored in the order of the text, so the last one where two     *)
(* share a slot.                                                            *)
Stored(slots, fns, i) ==
  LET Takes(p, s) == code[p].target.slot + 1 = s
  IN  [s \in 1 .. Max({Len(slots)} \cup {code[p].target.slot + 1 : p \in fns}) |->
         IF \E p \in fns : Takes(p, s)
         THEN LET last == Max({p \in fns : Takes(p, s)}) IN Value(code[last].target.binding, last, i)
         ELSE IF s \in DOMAIN slots THEN slots[s] ELSE Void]

(* Hoisting starts from no slots: what the caller stored is lost.           *)
WrongHoist(slots, open, i) == Stored(<< >>, FnsIn(open), i)

(* hoist_declarations: the functions of a body that begins, stored with its *)
(* scope i.                                                                 *)
Hoist(slots, open, i) == Stored(slots, FnsIn(open), i)

EndOf(open) == CHOOSE e \in DOMAIN code : code[e].op = "end" /\ code[e].inside = open

Here == code[pc]
Running(op) == status = "running" /\ pc \in DOMAIN code /\ Here.op = op
Source == text[pc].other

Goto(item) == pc' = item /\ UNCHANGED <<text, tables, code, redeclared, status>>

(* The run ends, with an error or without. *)
Ends(how) ==
  /\ status' = how
  /\ UNCHANGED <<text, tables, code, redeclared, heap, active, pc>>

InScope(i, slots) == heap' = [heap EXCEPT ![i].slots = slots]

(* A new scope on top, with the functions of its body.                      *)
Enter(open, captured, back, slots, hoisted) ==
  LET i == Len(heap) + 1
  IN  /\ i <= MaxScopes
      /\ heap' = Append(heap, Scope(open, captured, back,
                              IF hoisted THEN Hoist(slots, open, i) ELSE slots))
      /\ active' = Append(active, i)

-----------------------------------------------------------------------------
(***************************************************************************)
(* The run.                                                                *)
(***************************************************************************)

Init ==
  /\ text \in Texts
  /\ tables = <<Table(0)>>
  /\ code = << >>
  /\ redeclared = FALSE
  /\ heap = << >>
  /\ active = << >>
  /\ pc = 0
  /\ status = "translating"

(* The text is translated: the scope of the program is entered.             *)
StartProgram ==
  /\ status = "translating" /\ At \notin DOMAIN text
  /\ Enter(0, 0, 0, << >>, TRUE)
  /\ pc' = 1
  /\ status' = "running"
  /\ UNCHANGED <<text, tables, code, redeclared>>

RunLet ==
  /\ Running("let")
  /\ LET value == Eval(Source, Here.other)
     IN  \/ /\ value # Missing
            /\ InScope(Last(active), Put(heap[Last(active)].slots, Here.target, value))
            /\ Goto(pc + 1)
            /\ UNCHANGED active
         \/ value = Missing /\ Ends("failed")

(* An assignment goes to a slot that exists, or fails.                      *)
RunSet ==
  /\ Running("set")
  /\ LET value == Eval(Source, Here.other)
         i     == Target(Here.target.depth)
     IN  IF value = Missing \/ Get(Here.target) = Missing
           THEN Ends("failed")
           ELSE /\ InScope(i, Put(heap[i].slots, Here.target, value))
                /\ Goto(pc + 1)
                /\ UNCHANGED active

(* Hoisted already. *)
RunFn ==
  /\ Running("fn")
  /\ Goto(EndOf(pc) + 1)
  /\ UNCHANGED <<heap, active>>

RunLambda ==
  /\ Running("lambda")
  /\ InScope(Last(active), Put(heap[Last(active)].slots, Here.target,
                               Value(Nothing, pc, Last(active))))
  /\ Goto(EndOf(pc) + 1)
  /\ UNCHANGED active

(* The argument is evaluated, then the callee; the call has a scope with    *)
(* the function itself and the argument.                                    *)
RunCall ==
  /\ Running("call")
  /\ LET argument == Eval(Source, Here.other)
         callee   == IF Here.target = NoRef THEN Missing ELSE Get(Here.target)
     IN  IF argument = Missing \/ callee.fn <= 0
           THEN Ends("failed")
           ELSE LET item == callee.fn
                    self == [slot |-> 0, depth |-> 0, binding |-> Binding(item, "self")]
                IN  /\ Enter(item, callee.scope, pc + 1,
                             Put(Put(<< >>, self, callee), code[item].param, argument), TRUE)
                    /\ Goto(item + 1)

(* The block is run or not (an alternative is one more if, not in the text). *)
RunIf ==
  /\ Running("if")
  /\ \/ Eval(Source, Here.other) = Missing /\ Ends("failed")
     \/ /\ Eval(Source, Here.other) # Missing
        /\ Enter(pc, 0, EndOf(pc) + 1, << >>, TRUE)
        /\ Goto(pc + 1)
     \/ /\ Eval(Source, Here.other) # Missing
        /\ Goto(EndOf(pc) + 1)
        /\ UNCHANGED <<heap, active>>

(* The head of a loop: its scope is on top, between iterations.             *)
AtHead == heap[Last(active)].open = pc

(* A loop begins: a for evaluates its range, then both enter the scope.     *)
BeginLoop ==
  /\ Running("for") \/ Running("while")
  /\ ~AtHead
  /\ IF Here.op = "for" /\ Eval(Source, Here.other) = Missing
       THEN Ends("failed")
       ELSE /\ Enter(pc, 0, EndOf(pc) + 1,
                     IF Here.op = "for" THEN Put(<< >>, Here.target, Void) ELSE << >>, FALSE)
            /\ Goto(pc)

(* A while evaluates its condition in the scope; an iteration empties all   *)
(* the slots, sets the variable of a for, and hoists.                       *)
Iterate ==
  /\ Running("for") \/ Running("while")
  /\ AtHead
  /\ IF Here.op = "while" /\ Eval(Source, Here.other) = Missing
       THEN Ends("failed")
       ELSE LET i     == Last(active)
                empty == [s \in DOMAIN heap[i].slots |-> Void]
                slots == IF Here.op = "for" THEN Put(empty, Here.target, Void) ELSE empty
            IN  /\ InScope(i, Hoist(slots, pc, i))
                /\ Goto(pc + 1)
                /\ UNCHANGED active

(* The scope is not left. *)
WrongLeave(item) == Goto(item) /\ UNCHANGED <<heap, active>>

(* The scope on top is left. *)
Leave(item) ==
  /\ active' = Front(active)
  /\ Goto(item)
  /\ UNCHANGED heap

LeaveLoop ==
  /\ Running("for") \/ Running("while")
  /\ AtHead
  /\ Here.op = "while" => Eval(Source, Here.other) # Missing
  /\ Leave(EndOf(pc) + 1)

(* The end of a body: of a loop, back to its head; else the scope is left,  *)
(* and a call goes on behind the item it came from.                         *)
RunEnd ==
  /\ Running("end")
  /\ IF code[Here.inside].op \in {"for", "while"}
       THEN Goto(Here.inside) /\ UNCHANGED <<heap, active>>
       ELSE Leave(heap[Last(active)].back)

EndProgram == status = "running" /\ pc \notin DOMAIN code /\ Ends("done")

(* Any expression may fail for a reason of its own. *)
Fail == status = "running" /\ Ends("failed")

Run ==
  \/ RunLet \/ RunSet \/ RunFn \/ RunLambda \/ RunCall \/ RunIf
  \/ BeginLoop \/ Iterate \/ LeaveLoop \/ RunEnd \/ EndProgram \/ Fail

Over == status \in {"done", "unresolved", "failed"}

(* The process has ended. *)
Exited == Over /\ UNCHANGED vars

Next == Translate \/ StartProgram \/ Run \/ Exited

Spec == Init /\ [][Next]_vars

-----------------------------------------------------------------------------
(***************************************************************************)
(* Properties.                                                             *)
(***************************************************************************)

Refs == [slot : Nat \cup {-1}, depth : Nat,
         binding : [at : Nat, role : {"own", "self", "param", "lambda", "none"}]]

(* The state has its types; the scopes are entered and left as the text     *)
(* nests: the scope on top is the one the text says around the item.        *)
TypeOK ==
  /\ text \in Seq(Item)
  /\ \A p \in DOMAIN code : {code[p].target, code[p].other, code[p].param} \subseteq Refs
  /\ \A i \in DOMAIN heap :
       /\ heap[i].open \in 0 .. Len(text)
       /\ {heap[i].parent, heap[i].captured} \subseteq 0 .. i
  /\ active \in Seq(DOMAIN heap)
  /\ status = "running" /\ pc \in DOMAIN code =>
       heap[Last(active)].open = Here.inside \/ heap[Last(active)].open = pc

(* The references the item at pc follows from the scope on top.             *)
Reads ==
  \/ Here.op \in {"let", "set", "call", "if"}
  \/ Here.op = "for" /\ ~AtHead
  \/ Here.op = "while" /\ AtHead

Followed ==
  IF status # "running" \/ pc \notin DOMAIN code THEN {}
  ELSE ((IF Reads THEN {Here.other} ELSE {})
        \cup (IF Here.op \in {"set", "call"} THEN {Here.target} ELSE {})) \ {NoRef}

(* The scope of the text where a binding is declared.                       *)
DeclaredIn(binding) ==
  IF binding.role \in {"self", "param"} \/ code[binding.at].op = "for"
    THEN binding.at ELSE code[binding.at].inside

(* Going up as many scopes as the translator counted leads to a scope that  *)
(* was opened where the text declares the name: from any call, however it   *)
(* was reached and whoever's scopes are active then.                        *)
HopsLand ==
  \A r \in Followed :
    LET i == Target(r.depth) IN i # 0 /\ heap[i].open = DeclaredIn(r.binding)

(* Functions, their parameters and the variables of loops are stored before *)
(* any code that can name them runs; a let when the run gets there.          *)
Given(binding) == binding.role # "own" \/ code[binding.at].op \in {"fn", "for"}

(* What is found there was stored for that declaration and for no other;    *)
(* or nothing was yet, but then it is a let: hoisting a function early or   *)
(* entering a body again never leaves a function or parameter unset.  In    *)
(* texts that declare no name twice in a scope.                             *)
ReadsOwn ==
  ~redeclared =>
    \A r \in Followed :
      \/ Get(r).binding = r.binding
      \/ Get(r).binding = Nothing /\ ~Given(r.binding)

(* Once stored, a variable keeps a value of its own: no other declaration,  *)
(* call or assignment takes its slot away, until its loop goes round.       *)
Keeps ==
  \A i \in DOMAIN heap : \A s \in DOMAIN heap[i].slots :
    /\ heap[i].slots[s].binding # Nothing
    /\ ~(Iterate /\ i = Last(active))
    => s \in DOMAIN heap'[i].slots /\ heap'[i].slots[s].binding = heap[i].slots[s].binding

ValuesStay == [][~redeclared => Keeps]_vars

=============================================================================
