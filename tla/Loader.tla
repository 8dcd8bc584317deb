------------------------------- MODULE Loader -------------------------------
(***************************************************************************)
(* Modules of a program (core/src/loader.rs) and the lazy references       *)
(* through which a running module reaches another (eval_expr and           *)
(* eval_runtime_function in core/src/interpreter.rs).                      *)
(*                                                                         *)
(* The interpreter is one thread.  Its Rust call stack is the variable     *)
(* stack, the innermost call last.  It first loads: the main module and,   *)
(* depth first, every module imported from there are parsed and their      *)
(* imports checked, cycles cut by registering a module before its imports  *)
(* are visited.  Then it executes: the main module's statements run, and   *)
(* another module's when the first variable that refers to it is read.     *)
(* While a module's statements run, the interpreter holds the mutex of the *)
(* module (the guard is a temporary of the call of interpret), which is    *)
(* not reentrant: whoever needs it further up the stack waits for ever.    *)
(***************************************************************************)
EXTENDS Naturals, Sequences, SequencesExt

CONSTANTS
  Module,    (* Canonical paths of files.                                     *)
  Main,      (* The file given to run_main.                                   *)
  Name,      (* Names a module may export.                                    *)
  Programs,  (* What the files may contain: see Program.                      *)
  Layer,     (* Layer[m]: a numbering of the modules.  Where a program is     *)
             (* Layered, modules import only from lower layers: no cycles.    *)
  MaxStack   (* Bound on the call stack of the programs modelled.             *)

ASSUME MainAssumption == Main \in Module
ASSUME LayerAssumption == Layer \in [Module -> Nat]

(* The part of a program's files that matters here: which files exist and   *)
(* get through the lexer, the parser and the translator, the names each     *)
(* exports, and its import statements in order; and whether its functions   *)
(* escape: whether one, or one that captured it, is ever stored where a     *)
(* module that does not import its module, directly or through others,      *)
(* finds it later (in an array it exports, a variable its function sets).   *)
Import == [from : Module, names : SUBSET Name]
Program == [readable : SUBSET Module,
            exports  : [Module -> SUBSET Name],
            imports  : [Module -> Seq(Import)],
            escapes  : BOOLEAN]

ASSUME ProgramsAssumption == Programs \subseteq Program

VARIABLES
  program,     (* The program at hand; never changes.                         *)
  registered,  (* ProgramContext.modules: the modules with an entry.          *)
  exports,     (* Module.exports, empty until _load fills it.                 *)
  loaded,      (* The modules whose statements _load has stored.              *)
  context,     (* The modules whose context is set: is_loaded() is true.      *)
  finished,    (* The modules whose statements have run to the end.           *)
  stack,       (* The calls in progress, the innermost last.                  *)
  outcome      (* How the process stands.                                     *)

vars == <<program, registered, exports, loaded, context, finished, stack, outcome>>

(* Calls in progress.  "load": _load of the module, at its next import;     *)
(* "fill": _execute of the module, at its next import; "run": interpret on  *)
(* its statements; "call": a function whose code is in the module; "check"  *)
(* and "read": a variable that refers to the module, before is_loaded() and *)
(* before the slot is read.                                                 *)
Frame == [at : {"load", "fill", "run", "call", "check", "read"},
          module : Module, next : Nat]

Call(at, m) == [at |-> at, module |-> m, next |-> 1]

Top == Last(stack)
AtTop(at) == stack # << >> /\ Top.at = at

(* The import statement the top call is at, if it is not done with them.    *)
Imports(m) == program.imports[m]
Current == Imports(Top.module)[Top.next]
MoreImports == Top.next \in DOMAIN Imports(Top.module)

(* Mistakes for the properties to find, here and below with names that start *)
(* with Wrong: the loop over the imports stays where it is, or skips one.    *)
WrongStuck == [stack EXCEPT ![Len(stack)].next = @]
WrongSkip == [stack EXCEPT ![Len(stack)].next = @ + 2]

Advance == [stack EXCEPT ![Len(stack)].next = @ + 1]
Replace(frame) == Append(Front(stack), frame)

(* The guard is dropped before interpret; calls of functions hold it too.   *)
WrongNoneHeld == {}
WrongHeldByCalls == {stack[i].module : i \in {j \in DOMAIN stack : stack[j].at \in {"run", "call"}}}

(* The mutexes held by the calls of interpret in progress.                  *)
Held == {stack[i].module : i \in {j \in DOMAIN stack : stack[j].at = "run"}}

(* A mutex the top call must acquire now: that of the module a variable     *)
(* refers to, or, to fill in an import, that of the importing module and,   *)
(* without releasing it, that of the imported one.                          *)
Acquires ==
  IF stack = << >> THEN {}
  ELSE CASE Top.at \in {"check", "read"} -> {Top.module}
         [] Top.at = "fill" /\ MoreImports /\ Current.names # {} ->
              {Top.module, Current.from}
         [] OTHER -> {}

SelfImport ==
  /\ AtTop("fill") /\ MoreImports
  /\ Current.names # {} /\ Current.from = Top.module

Waits == Acquires \cap Held # {} \/ SelfImport

Init ==
  /\ program \in Programs
  /\ registered = {}
  /\ exports = [m \in Module |-> {}]
  /\ loaded = {}
  /\ context = {}
  /\ finished = {}
  /\ stack = << >>
  /\ outcome = "starting"

Ends(how) ==
  /\ outcome' = how
  /\ stack' = << >>

(***************************************************************************)
(* Loading.                                                                *)
(***************************************************************************)

(* parse_module_source of a module without an entry: the entry is made,     *)
(* then _load parses the file, or fails, and collects its exports, before   *)
(* the first import.                                                        *)
ParseModule(m) ==
  /\ m \notin registered
  /\ registered' = registered \cup {m}
  /\ IF m \in program.readable
       THEN /\ exports' = [exports EXCEPT ![m] = program.exports[m]]
            /\ stack' = Append(stack, Call("load", m))
            /\ outcome' = "loading"
       ELSE Ends("load error") /\ UNCHANGED exports
  /\ UNCHANGED <<program, loaded, context, finished>>

LoadMain == outcome = "starting" /\ ParseModule(Main)

LoadImport == AtTop("load") /\ MoreImports /\ ParseModule(Current.from)

(* Modules whose load is not over are not checked: their statements are not *)
(* there yet.                                                               *)
WrongCheckImport ==
  /\ AtTop("load") /\ MoreImports
  /\ Current.from \in registered
  /\ IF Current.from \in loaded => Current.names \subseteq exports[Current.from]
       THEN stack' = Advance /\ UNCHANGED outcome
       ELSE Ends("load error")
  /\ UNCHANGED <<program, registered, exports, loaded, context, finished>>

(* The imported module has an entry, of this visit or of an earlier one     *)
(* that may not be over: the names are looked up in its exports.            *)
CheckImport ==
  /\ AtTop("load") /\ MoreImports
  /\ Current.from \in registered
  /\ IF Current.names \subseteq exports[Current.from]
       THEN stack' = Advance /\ UNCHANGED outcome
       ELSE Ends("load error")
  /\ UNCHANGED <<program, registered, exports, loaded, context, finished>>

(* Out of imports: the statements are stored and the call returns; the      *)
(* return from the main module's call starts its execution.                 *)
EndLoad ==
  /\ AtTop("load") /\ ~MoreImports
  /\ loaded' = loaded \cup {Top.module}
  /\ UNCHANGED <<program, registered, exports, finished>>
  /\ IF Len(stack) > 1
       THEN stack' = Front(stack) /\ UNCHANGED <<context, outcome>>
       ELSE /\ stack' = <<Call("fill", Main)>>
            /\ context' = context \cup {Main}
            /\ outcome' = "running"

(***************************************************************************)
(* Executing.                                                              *)
(***************************************************************************)

(* _execute fills the slots of an import statement's names with the lazy    *)
(* references found in the exports of the imported module.                  *)
FillImport ==
  /\ AtTop("fill") /\ MoreImports
  /\ ~Waits
  /\ IF Current.names \subseteq exports[Current.from]
       THEN stack' = Advance /\ UNCHANGED outcome
       ELSE Ends("load error")
  /\ UNCHANGED <<program, registered, exports, loaded, context, finished>>

StartRun ==
  /\ AtTop("fill") /\ ~MoreImports
  /\ stack' = Replace(Call("run", Top.module))
  /\ UNCHANGED <<program, registered, exports, loaded, context, finished, outcome>>

InCode == AtTop("run") \/ AtTop("call")

(* The code on top evaluates a variable its module imports.                 *)
UseImport ==
  /\ InCode
  /\ Len(stack) < MaxStack
  /\ \E i \in DOMAIN Imports(Top.module) :
       /\ Imports(Top.module)[i].names # {}
       /\ stack' = Append(stack, Call("check", Imports(Top.module)[i].from))
  /\ UNCHANGED <<program, registered, exports, loaded, context, finished, outcome>>

(* The context is left for later. *)
WrongCheckLoaded ==
  /\ AtTop("check")
  /\ ~Waits
  /\ stack' = IF Top.module \in context
                THEN Replace(Call("read", Top.module))
                ELSE Append(Replace(Call("read", Top.module)), Call("fill", Top.module))
  /\ UNCHANGED <<program, registered, exports, loaded, context, finished, outcome>>

(* is_loaded() is asked under the mutex; if the answer is no, the module is *)
(* executed: _execute, which asks again and would panic at a yes, sets the  *)
(* context before anything else.                                            *)
CheckLoaded ==
  /\ AtTop("check")
  /\ ~Waits
  /\ LET m == Top.module
     IN  IF m \in context
           THEN stack' = Replace(Call("read", m)) /\ UNCHANGED context
           ELSE /\ stack' = Append(Replace(Call("read", m)), Call("fill", m))
                /\ context' = context \cup {m}
  /\ UNCHANGED <<program, registered, exports, loaded, finished, outcome>>

(* The value of the variable is in the first scope of the module.           *)
ReadSlot ==
  /\ AtTop("read")
  /\ ~Waits
  /\ stack' = Front(stack)
  /\ UNCHANGED <<program, registered, exports, loaded, context, finished, outcome>>

(* The modules that m imports, directly or through others, and m itself.    *)
Behind(m) ==
  LET closed == {S \in SUBSET Module :
                   /\ m \in S
                   /\ \A n \in S : \A i \in DOMAIN Imports(n) : Imports(n)[i].from \in S}
  IN  {n \in Module : \A S \in closed : n \in S}

InnermostRun(i) ==
  /\ stack[i].at = "run"
  /\ \A j \in DOMAIN stack : stack[j].at = "run" => j <= i

(* The modules whose functions the code on top may hold.  The statements of *)
(* a module start with nothing: what the calls on top of them are given,    *)
(* return, capture and read, through however many functions of other        *)
(* modules it is handed, comes from the module itself and those it imports, *)
(* directly or through others; or, where functions escape, from anywhere.   *)
Callable ==
  {m \in context :
     \/ program.escapes
     \/ \E i \in DOMAIN stack : InnermostRun(i) /\ m \in Behind(stack[i].module)}

CallFunction ==
  /\ InCode
  /\ Len(stack) < MaxStack
  /\ \E m \in Callable : stack' = Append(stack, Call("call", m))
  /\ UNCHANGED <<program, registered, exports, loaded, context, finished, outcome>>

Return ==
  /\ AtTop("call")
  /\ stack' = Front(stack)
  /\ UNCHANGED <<program, registered, exports, loaded, context, finished, outcome>>

(* interpret returns and the mutex is released; the main module's return    *)
(* is the end of the program.                                               *)
EndRun ==
  /\ AtTop("run")
  /\ finished' = finished \cup {Top.module}
  /\ IF Len(stack) > 1 THEN stack' = Front(stack) /\ UNCHANGED outcome
                       ELSE Ends("done")
  /\ UNCHANGED <<program, registered, exports, loaded, context>>

(* An error in the code on top goes through every call: nothing catches it. *)
Fail ==
  /\ InCode
  /\ Ends("runtime error")
  /\ UNCHANGED <<program, registered, exports, loaded, context, finished>>

Over == outcome \in {"done", "load error", "runtime error"}

(* The process has ended. *)
Exited == Over /\ UNCHANGED vars

Load == LoadMain \/ LoadImport \/ CheckImport \/ EndLoad

Next ==
  \/ Load
  \/ FillImport \/ StartRun
  \/ UseImport \/ CheckLoaded \/ ReadSlot
  \/ CallFunction \/ Return \/ EndRun \/ Fail
  \/ Exited

(* The thread does not stop while it is loading. *)
Spec == Init /\ [][Next]_vars /\ WF_vars(Load)

-----------------------------------------------------------------------------
(***************************************************************************)
(* Properties.                                                             *)
(***************************************************************************)

(* A stack of well-formed calls, each at an import its module has or past   *)
(* the last one.                                                            *)
Calls(s) ==
  /\ s \in Seq(Frame)
  /\ \A i \in DOMAIN s : s[i].next \in 1 .. Len(Imports(s[i].module)) + 1

(* The state has its types, and a call never looks for an import beyond the *)
(* end of its module's list.                                                *)
TypeOK ==
  /\ program \in Programs
  /\ registered \in SUBSET Module
  /\ exports \in [Module -> SUBSET Name]
  /\ loaded \in SUBSET Module
  /\ context \in SUBSET Module
  /\ finished \in SUBSET Module
  /\ Calls(stack)
  /\ outcome \in {"starting", "loading", "running"} \cup
                 {"done", "load error", "runtime error"}

(* The modules a reader of the files would say the program consists of.     *)
Closed(S) ==
  /\ Main \in S
  /\ \A m \in S \cap program.readable :
       \A i \in DOMAIN Imports(m) : Imports(m)[i].from \in S

Reachable == {m \in Module : \A S \in SUBSET Module : Closed(S) => m \in S}

(* A file that cannot be loaded, or that imports a name nobody exports.     *)
Broken(m) ==
  \/ m \notin program.readable
  \/ \E i \in DOMAIN Imports(m) :
       ~ Imports(m)[i].names \subseteq program.exports[Imports(m)[i].from]

(* Loading reaches the verdict the files deserve, cycles or not: an error   *)
(* only for a program with a broken module, and execution only of a program *)
(* without one, when each of its modules and no other has been loaded; so   *)
(* filling in the imports cannot fail nor find a module without statements. *)
LoadVerdict ==
  /\ outcome = "load error" => \E m \in Reachable : Broken(m)
  /\ context # {} =>
       /\ \A m \in Reachable : ~Broken(m)
       /\ registered = Reachable
       /\ loaded = Reachable

(* A module is executed at most once: no two executions of it are in        *)
(* progress and none is when one has finished, so _execute does not panic   *)
(* with "Module is already loaded".                                         *)
Executions(m) == {i \in DOMAIN stack : stack[i].at \in {"fill", "run"} /\ stack[i].module = m}

ExecutedOnce ==
  \A m \in Module : \A i, j \in Executions(m) : i = j /\ m \notin finished

(* A lazy reference is read when all the statements of the module have run: *)
(* no program sees a module half way, nor a slot that is not filled yet.    *)
ReadsSettled == [][ReadSlot => Top.module \in finished]_vars

(* Programs whose modules import only from lower layers and keep their      *)
(* functions from escaping.                                                 *)
Layered(p) ==
  /\ ~p.escapes
  /\ \A m \in Module : \A i \in DOMAIN p.imports[m] : Layer[p.imports[m][i].from] < Layer[m]

(* The thread of such a program never waits for a mutex that it holds       *)
(* itself, however deep its calls go: neither callbacks nor imports         *)
(* executed in the middle of a call need a module whose statements are      *)
(* still running.                                                           *)
NoSelfWait == Layered(program) => ~Waits

(* Loading ends, whatever the files import from each other. *)
LoadEnds == <>(outcome \notin {"starting", "loading"})

=============================================================================
