------------------------------ MODULE Checker ------------------------------
(***************************************************************************)
(* The type checker and the symbol index across files                      *)
(* (core/src/type_checker.rs, get_symbol_index in core/src/analysis.rs).   *)
(* The index of a text needs its types; its types need the index of every  *)
(* text it imports, which is read from the disk and made anew each time it *)
(* is asked for: once to hoist the types of the import, and once more for  *)
(* every variable that is defined by an imported name.  Nothing remembers  *)
(* what is being indexed.                                                  *)
(*                                                                         *)
(* A file declares one class or function, by its own name.  What a class   *)
(* or a function contains is reduced to the types it mentions.             *)
(***************************************************************************)
EXTENDS Integers, Sequences, FiniteSets, SequencesExt

CONSTANTS
  File,       (* The files, and the names they declare.                    *)
  Missing,    (* In place of a text: no such file.                         *)
  Broken,     (* In place of a text: it does not parse.                    *)
  Disks,      (* The contents of the disk: [File -> text].                 *)
  MaxDepth    (* Calls of get_symbol_index that fit on the Rust stack.     *)

(* import { name } from name; class and fn that mention types; let = name;  *)
(* and export let.                                                          *)
Item == [op : {"import", "class", "fn", "let", "export"}, name : File, types : SUBSET File]

ASSUME CheckerAssumption ==
  /\ MaxDepth \in Nat \ {0}
  /\ Missing # Broken
  /\ \A d \in Disks : \A f \in File :
       \/ d[f] \in {Missing, Broken}
       \/ /\ d[f] \in Seq(Item)
          /\ \A i \in DOMAIN d[f] : IF d[f][i].op \in {"class", "fn"} THEN d[f][i].name = f ELSE d[f][i].types = {}

VARIABLES
  disk,      (* The texts; never changes.                                  *)
  root,      (* The file whose index is asked for.                         *)
  stack,     (* The calls of get_symbol_index, the last on top.            *)
  answer,    (* What the last of them returned, until it is used.          *)
  outcome    (* Of the call for root.                                      *)

vars == <<disk, root, stack, answer, outcome>>

-----------------------------------------------------------------------------
Frame(file) == [file |-> file, phase |-> "parse", at |-> 1, known |-> {}]

Top == Last(stack)
Text == disk[Top.file]
Now == Text[Top.at]

(* The top call is in a phase, at an item or at the end of the text. *)
In(phase) == outcome = "running" /\ answer = "awaited" /\ Top.phase = phase
AtItem(phase, ops) == In(phase) /\ Top.at \in DOMAIN Text /\ Now.op \in ops
AtEnd(phase) == In(phase) /\ Top.at > Len(Text)
Answered(phase) == outcome = "running" /\ answer # "awaited" /\ Top.phase = phase

Becomes(frame) ==
  /\ stack' = Append(Front(stack), frame)
  /\ UNCHANGED <<disk, root, answer, outcome>>

Stops(how) == outcome' = how /\ UNCHANGED <<disk, root, stack, answer>>

(* The same item again. *)
WrongAdvance(known) ==
  /\ stack' = Append(Front(stack), [Top EXCEPT !.known = @ \cup known])
  /\ answer' = "awaited"
  /\ UNCHANGED <<disk, root, outcome>>

(* The next item, with the answer used. *)
Advance(known) ==
  /\ stack' = Append(Front(stack), [Top EXCEPT !.at = @ + 1, !.known = @ \cup known])
  /\ answer' = "awaited"
  /\ UNCHANGED <<disk, root, outcome>>

Call(file) ==
  IF Len(stack) = MaxDepth THEN Stops("overflows")
  ELSE /\ stack' = Append(stack, Frame(file))
       /\ UNCHANGED <<disk, root, answer, outcome>>

(* get_symbol_index returns: Some or None. *)
Return(what) ==
  /\ stack' = Front(stack)
  /\ IF Len(stack) = 1 THEN outcome' = what /\ UNCHANGED answer
     ELSE answer' = what /\ UNCHANGED outcome
  /\ UNCHANGED <<disk, root>>

(* The kind of the export is not looked at. *)
WrongDeclares(text, op) == \E i \in DOMAIN text : text[i].op \in {"class", "fn"}

(* find_export: the first one with the name. *)
Declares(text, op) ==
  \E i \in DOMAIN text : /\ text[i].op = op
                         /\ \A j \in 1 .. (i - 1) : text[j].op \notin {"class", "fn"}

Exported(text) == \E i \in DOMAIN text : text[i].op \in {"class", "fn"}

-----------------------------------------------------------------------------
(***************************************************************************)
(* The call on top.                                                        *)
(***************************************************************************)

Parse ==
  /\ In("parse")
  /\ IF Text = Broken THEN Return("none") ELSE Becomes([Top EXCEPT !.phase = "hoist"])

(* resolve_type_ref: the type has been hoisted. *)
Resolves(item, known) == item.types \subseteq known

(* A class is known before it is checked. *)
WrongHoistClass ==
  /\ AtItem("hoist", {"class"})
  /\ IF Resolves(Now, Top.known \cup {Top.file}) THEN Advance({Top.file}) ELSE Return("none")

(* A class is checked before it is known, and before what follows it is.    *)
HoistClass ==
  /\ AtItem("hoist", {"class"})
  /\ IF Resolves(Now, Top.known) THEN Advance({Top.file}) ELSE Return("none")

HoistImport ==
  /\ AtItem("hoist", {"import"})
  /\ IF disk[Now.name] = Missing THEN Return("none") ELSE Call(Now.name)

(* The index of the import is unwrapped (357); an export that is not there  *)
(* is an error of the importer.                                             *)
HoistImported ==
  /\ Answered("hoist")
  /\ LET text == disk[Now.name]
     IN  \/ answer = "none" /\ Stops("panics")
         \/ /\ answer = "some" /\ ~Exported(text)
            /\ stack' = Front(stack)
            /\ IF Len(stack) = 1 THEN outcome' = "none" /\ answer' = "awaited"
               ELSE answer' = "none" /\ UNCHANGED outcome
            /\ UNCHANGED <<disk, root>>
         \/ /\ answer = "some" /\ Exported(text)
            /\ Advance(IF Declares(text, "class") THEN {Now.name} ELSE {})

HoistOther == AtItem("hoist", {"fn", "let", "export"}) /\ Advance({})

EndHoist == AtEnd("hoist") /\ Becomes([Top EXCEPT !.phase = "check", !.at = 1])

Check ==
  /\ AtItem("check", {"import", "class", "fn", "let", "export"})
  /\ IF Resolves(Now, Top.known) THEN Advance({}) ELSE Return("none")

(* The scope builder knows exports of functions and classes only. *)
EndCheck ==
  /\ AtEnd("check")
  /\ IF \E i \in DOMAIN Text : Text[i].op = "export" THEN Stops("panics")
     ELSE Becomes([Top EXCEPT !.phase = "infer", !.at = 1])

(* find_variable_type: the statement that imports the name, if it has been  *)
(* passed; the import is resolved, read and indexed again.                  *)
Imports(name) == \E i \in 1 .. (Top.at - 1) : Text[i].op = "import" /\ Text[i].name = name

Infer ==
  /\ AtItem("infer", {"import", "class", "fn", "let"})
  /\ IF Now.op = "let" /\ Imports(Now.name) /\ disk[Now.name] # Missing THEN Call(Now.name)
     ELSE Advance({})

(* No type is inferred when there is no index; nothing else happens. *)
Inferred == Answered("infer") /\ Advance({})

EndInfer == AtEnd("infer") /\ Return("some")

-----------------------------------------------------------------------------
Init ==
  /\ disk \in Disks
  /\ root \in {f \in File : disk[f] # Missing}
  /\ stack = <<Frame(root)>>
  /\ answer = "awaited"
  /\ outcome = "running"

Next == \/ Parse
        \/ HoistClass
        \/ HoistImport
        \/ HoistImported
        \/ HoistOther
        \/ EndHoist
        \/ Check
        \/ EndCheck
        \/ Infer
        \/ Inferred
        \/ EndInfer

(* One thread, which nothing blocks. *)
Spec == Init /\ [][Next]_vars /\ WF_vars(Next)

-----------------------------------------------------------------------------
(***************************************************************************)
(* Properties.                                                             *)
(***************************************************************************)

ImportsOf(d, f) == IF d[f] \in {Missing, Broken} THEN {}
                   ELSE {d[f][i].name : i \in {j \in DOMAIN d[f] : d[f][j].op = "import"}}

(* The files that can be reached by imports from f, without and with f: the *)
(* least set with the imports of f and those of its own files.              *)
Below(d, f) ==
  LET closed == {fs \in SUBSET File : ImportsOf(d, f) \subseteq fs /\ \A g \in fs : ImportsOf(d, g) \subseteq fs}
  IN  {g \in File : \A fs \in closed : g \in fs}
Reach(d, f) == {f} \cup Below(d, f)
Cyclic(d, f) == \E g \in Reach(d, f) : g \in Below(d, g)

(* What a file exports: the first that it declares. *)
KindOf(d, f) ==
  LET declared == {i \in DOMAIN d[f] : d[f][i].op \in {"class", "fn"}}
  IN  IF d[f] \in {Missing, Broken} THEN "nothing"
      ELSE IF declared = {} THEN "nothing" ELSE d[f][Min(declared)].op

(* The types of some of the items of f. *)
Types(d, f, items) ==
  {d[f][j].name : j \in {k \in items : d[f][k].op = "import" /\ KindOf(d, d[f][k].name) = "class"}}
  \cup {f : k \in {j \in items : d[f][j].op = "class"}}

(* What a file can be blamed for.  The order of the text counts for its     *)
(* classes, which may only mention what stands before them, not even        *)
(* themselves; it does not for its functions.                               *)
Sound(d, f) ==
  /\ d[f] \notin {Missing, Broken}
  /\ \A i \in DOMAIN d[f] :
       LET item == d[f][i]
       IN  /\ item.op = "import" => KindOf(d, item.name) # "nothing"
           /\ item.op = "class" => item.types \subseteq Types(d, f, 1 .. (i - 1))
           /\ item.op = "fn" => item.types \subseteq Types(d, f, DOMAIN d[f])
           /\ item.op # "export"

(* There is an index exactly if no file in reach has a mistake and none     *)
(* reaches itself.  No index means that the file itself has a mistake: a    *)
(* mistake of another one takes the process down.  Only files that import   *)
(* each other use up the stack, however often a file is indexed.            *)
VerdictDeserved ==
  /\ outcome = "some" => ~Cyclic(disk, root) /\ \A f \in Reach(disk, root) : Sound(disk, f)
  /\ outcome = "none" => ~Sound(disk, root)
  /\ outcome = "overflows" => Cyclic(disk, root)
  /\ outcome = "panics" => \E f \in Reach(disk, root) : ~Sound(disk, f)

(* Indexing ends. *)
Ends == <>(outcome # "running")

=============================================================================
