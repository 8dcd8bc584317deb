---------------------------- MODULE MCDocuments ----------------------------
EXTENDS Documents

CONSTANTS main, lib, core, both, local, exporting, mistyped, circular, choking, embedded

(* A document that may import a file of the user and one of the runtime,   *)
(* or export nothing; the file, in order, with a wrong type, with an import *)
(* of the first document, or such that lexing it panics; the other.        *)
MCTextsOf == [u \in Uri |-> CASE u = main -> {both, local}
                              [] u = lib  -> {exporting, mistyped, circular, choking}
                              [] u = core -> {embedded}]
MCImports == [t \in Texts |-> CASE t = both -> {lib, core}
                               [] t = circular -> {main}
                               [] OTHER -> {}]
MCUses == [t \in Texts |-> IF t = both THEN <<lib, core>> ELSE <<>>]
(* The document is in its file, or in none yet. *)
MCDisks == {[u \in Uri |-> CASE u = main -> text [] u = lib -> exporting [] u = core -> embedded] :
              text \in {both, Closed}}

=============================================================================
