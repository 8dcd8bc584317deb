----------------------------- MODULE Documents -----------------------------
(***************************************************************************)
(* The language server (lsp/src/main.rs): the open documents behind an     *)
(* async lock, and the handlers of the client's notifications and          *)
(* requests.  Outside the repository: tower-lsp starts the handlers in the *)
(* order of the messages, has at most Concurrency of them going, runs them *)
(* in one task, so that they take turns only where they await, and drops   *)
(* the handler of a request that is cancelled; a panic in one ends the     *)
(* server.  The lock of tokio is fair: it is granted in the order in which *)
(* it is asked for.  The client opens a document before it edits it, sends *)
(* requests for open documents only, and writes the disk before it tells   *)
(* of a save.                                                              *)
(***************************************************************************)
EXTENDS Integers, Sequences, FiniteSets, SequencesExt, FiniteSetsExt

CONSTANTS
  Uri,            (* The documents.                                        *)
  Core,           (* Those of the runtime (nlf://core/...): in no file.    *)
  Closed,         (* In place of a text: not open, or not on disk.         *)
  TextsOf,        (* [Uri -> texts the document may have].                 *)
  Imports,        (* [text -> set of documents]: what it imports from,     *)
  Uses,           (* [text -> sequence of documents]: the imports it uses. *)
  Broken,         (* Texts that neither parse nor lax_parse accept,        *)
  Unplaced,       (* ... those of them whose error has no position (parser *)
                  (* .rs, 461: export at the end of the text),             *)
  Unfinished,     (* texts that parse rejects and lax_parse does not,      *)
  Untranslatable, (* texts that parse but do not translate,                *)
  Mistyped,       (* texts that by themselves do not pass check_types,     *)
  FatalToSave,    (* texts at which lex, parse or translate panics,        *)
  FatalToIndex,   (* texts at which lex, lax_parse, check_types or the     *)
                  (* builder of the index panics,                          *)
  Bare,           (* texts that lack the export their importers ask for.   *)
  Disks,          (* The contents the disk may have at first.              *)
  Opened,         (* The sets of documents that may be open at first.      *)
  Concurrency,    (* Handlers that are going at a time.                    *)
  Buffer,         (* Messages to the client that wait with nobody parked.  *)
  MaxMessages,    (* Bound on the messages of the client,                  *)
  MaxRequests     (* ... and on the requests among them.                   *)

Texts == UNION {TextsOf[u] : u \in Uri}
None == -1

ASSUME CoreAssumption == Core \subseteq Uri
ASSUME TextAssumption ==
  /\ IsFiniteSet(Uri) /\ Closed \notin Texts
  /\ Imports \in [Texts -> SUBSET Uri] /\ Uses \in [Texts -> Seq(Uri)]
  /\ \A t \in Texts : Range(Uses[t]) \subseteq Imports[t]
  /\ Unplaced \subseteq Broken /\ Broken \cap Unfinished = {}
  /\ \A u \in Core : \A t \in TextsOf[u] :
       Imports[t] = {} /\ t \notin Broken \cup Unfinished \cup Bare \cup Mistyped \cup FatalToIndex
ASSUME DiskAssumption == Disks \subseteq [Uri -> Texts \cup {Closed}]
ASSUME BoundAssumption == MaxMessages \in Nat

Edits == {"open", "change", "close"}
Requests == {"hover", "definition", "tokens", "completion"}

VARIABLES
  tasks,      (* The messages of the client, and how far their handlers are. *)
  editor,     (* The client's documents: text, and the message it came by.  *)
  documents,  (* Backend.documents, likewise.                               *)
  disk,       (* The files, and the texts of the runtime's own modules.     *)
  queue,      (* The tasks that wait for the lock, first come first.        *)
  outbox,     (* Messages on their way to the client.                       *)
  parked,     (* Tasks that wait for room in the outbox.                    *)
  shown,      (* The documents the client shows errors for.                 *)
  crash       (* The task that ended the server.                            *)

vars == <<tasks, editor, documents, disk, queue, outbox, parked, shown, crash>>

-----------------------------------------------------------------------------
(***************************************************************************)
(* Tasks, the lock and the outbox.                                         *)
(***************************************************************************)

Running == crash = None
At(i, pc) == i \in DOMAIN tasks /\ tasks[i].pc = pc
Goto(i, pc) == tasks' = [tasks EXCEPT ![i].pc = pc]
Going == {i \in DOMAIN tasks : tasks[i].pc # "done"}

(* A mistake for the properties to find, here and below with names that    *)
(* start with Wrong: a guard lives on over the next lock (main.rs, 55).    *)
WrongHolds(i) == At(i, "report") \/ At(i, "fetch")

(* A save reports what it found while its read guard is alive; every other *)
(* guard is dropped before the next await.                                 *)
Holds(i) == At(i, "report")

Granted(i) ==
  /\ Running /\ i \in Range(queue)
  /\ IF At(i, "apply") THEN Head(queue) = i /\ ~\E j \in DOMAIN tasks : Holds(j)
     ELSE \A k \in DOMAIN queue : At(queue[k], "apply") => \E l \in 1 .. k : queue[l] = i
(* The next in line stays in it. *)
WrongTook(i) == UNCHANGED queue

Took(i) == queue' = RemoveFirst(queue, i)

(* publish_diagnostics and show_message: the message is under way at once, *)
(* the sender goes on when there is room.                                  *)
Publish(i, message) ==
  /\ outbox' = Append(outbox, message)
  /\ parked' = IF Len(outbox) < Buffer THEN parked ELSE Append(parked, i)
Diagnostics(u, errors) == [uri |-> {u}, errors |-> errors]
Message == [uri |-> {}, errors |-> FALSE]

Resumes(i, pc) == Running /\ At(i, pc) /\ i \notin Range(parked)

Deliver ==
  /\ outbox # <<>>
  /\ shown' = [u \in Uri |-> IF u \in Head(outbox).uri THEN Head(outbox).errors ELSE shown[u]]
  /\ outbox' = Tail(outbox)
  /\ parked' = IF parked = <<>> THEN parked ELSE Tail(parked)
  /\ UNCHANGED <<tasks, editor, documents, disk, queue, crash>>

Panic(i) ==
  /\ crash' = i
  /\ UNCHANGED <<tasks, editor, documents, disk, queue, outbox, parked, shown>>

-----------------------------------------------------------------------------
(***************************************************************************)
(* The messages of the client, as the server takes them up: what is still  *)
(* on its way changes nothing.                                             *)
(***************************************************************************)

(* Diagnostics of a change are cleared before it is applied. *)
WrongClears(kind) == kind \in {"save", "change"}

(* Diagnostics of the save before are left alone. *)
WrongNeverClears(kind) == FALSE

(* The handlers that begin with a message to the client. *)
Clears(kind) == kind = "save"

Wanted(kind) == IF kind \in Edits THEN "apply" ELSE "read"

(* A handler runs to its first await. *)
Start(kind, u, text) ==
  LET i == Len(tasks) + 1
      others == {j \in Going : tasks[j].kind = "save" /\ tasks[j].uri = u}
  IN  /\ Running /\ i <= MaxMessages /\ Cardinality(Going) < Concurrency
      /\ tasks' = Append(tasks, [kind |-> kind, uri |-> u, text |-> text,
                                 pc |-> IF Clears(kind) THEN "clear" ELSE Wanted(kind),
                                 todo |-> <<>>, alone |-> kind = "save" /\ others = {}])
      /\ IF Clears(kind) THEN Publish(i, Diagnostics(u, FALSE)) /\ UNCHANGED queue
         ELSE queue' = Append(queue, i) /\ UNCHANGED <<outbox, parked>>
      /\ UNCHANGED <<documents, shown, crash>>

Typed(u, text) == editor' = [editor EXCEPT ![u] = [text |-> text, by |-> Len(tasks) + 1]]

Open(u) ==
  /\ editor[u].text = Closed
  /\ \E t \in TextsOf[u] : Start("open", u, t) /\ Typed(u, t)
  /\ UNCHANGED disk

Change(u) ==
  /\ editor[u].text # Closed /\ u \notin Core
  /\ \E t \in TextsOf[u] \ {editor[u].text} : Start("change", u, t) /\ Typed(u, t)
  /\ UNCHANGED disk

Close(u) ==
  /\ editor[u].text # Closed
  /\ Start("close", u, Closed) /\ Typed(u, Closed)
  /\ UNCHANGED disk

(* The client has written the file when it tells of a save. *)
Save(u) ==
  /\ editor[u].text # Closed /\ u \notin Core
  /\ Start("save", u, Closed)
  /\ disk' = [disk EXCEPT ![u] = editor[u].text]
  /\ UNCHANGED editor

Request(u) ==
  /\ editor[u].text # Closed
  /\ Cardinality({j \in DOMAIN tasks : tasks[j].kind \in Requests}) < MaxRequests
  /\ \E kind \in Requests : Start(kind, u, Closed)
  /\ UNCHANGED <<editor, disk>>

Cleared(i) ==
  /\ Resumes(i, "clear")
  /\ Goto(i, Wanted(tasks[i].kind))
  /\ queue' = Append(queue, i)
  /\ UNCHANGED <<editor, documents, disk, outbox, parked, shown, crash>>

(* The client cancels a request: its handler is dropped at an await. *)
Cancel(i) ==
  /\ Running /\ i \in Going /\ tasks[i].kind \in Requests
  /\ tasks' = [tasks EXCEPT ![i].pc = "done", ![i].todo = <<>>]
  /\ Took(i)
  /\ UNCHANGED <<editor, documents, disk, outbox, parked, shown, crash>>

-----------------------------------------------------------------------------
(***************************************************************************)
(* The notifications.                                                      *)
(***************************************************************************)

(* did_open, did_change, did_close.  A change of a closed document is lost. *)
Apply(i) ==
  /\ At(i, "apply") /\ Granted(i)
  /\ LET u == tasks[i].uri
     IN  documents' = IF tasks[i].kind = "change" /\ documents[u].text = Closed THEN documents
                      ELSE [documents EXCEPT ![u] = [text |-> tasks[i].text, by |-> i]]
  /\ Goto(i, "done") /\ Took(i)
  /\ UNCHANGED <<editor, disk, outbox, parked, shown, crash>>

Errors(text) == text \in Broken \cup Unfinished

(* did_save, from its lock to the message it sends. *)
ReadSave(i) ==
  /\ At(i, "read") /\ tasks[i].kind = "save" /\ Granted(i)
  /\ LET text == documents[tasks[i].uri].text
         fatal == {Closed} \cup Unplaced \cup FatalToSave
     IN  \/ /\ text \in fatal
            /\ Panic(i)
         \/ /\ text \notin fatal
            /\ Errors(text) \/ text \in Untranslatable
            /\ tasks' = [tasks EXCEPT ![i].pc = "report", ![i].text = text]
            /\ Publish(i, IF Errors(text) THEN Diagnostics(tasks[i].uri, TRUE) ELSE Message)
            /\ Took(i)
            /\ UNCHANGED <<editor, documents, disk, shown, crash>>
         \/ /\ text \notin fatal \cup Untranslatable /\ ~Errors(text)
            /\ tasks' = [tasks EXCEPT ![i].pc = "done", ![i].text = text]
            /\ Took(i)
            /\ UNCHANGED <<editor, documents, disk, outbox, parked, shown, crash>>

Reported(i) ==
  /\ Resumes(i, "report")
  /\ Goto(i, "done")
  /\ UNCHANGED <<editor, documents, disk, queue, outbox, parked, shown, crash>>

-----------------------------------------------------------------------------
(***************************************************************************)
(* The requests.                                                           *)
(***************************************************************************)

(* get_file_contents, for a document with a file. *)
Contents(u) == IF documents[u].text # Closed THEN documents[u].text ELSE disk[u]

(* get_symbol_index of a text, where S are the files that have an index:    *)
(* imports are read from the disk (hoist_types).                            *)
Sound(text, S) ==
  /\ text \notin {Closed} \cup Broken \cup Mistyped \cup FatalToIndex
  /\ \A v \in Imports[text] : v \in S /\ disk[v] \notin Bare

(* None: a mistake of the text, an import that is not there or has not what *)
(* is asked of it.  Where a text both fails and crashes, the first of its   *)
(* statements to do so decides: any.                                        *)
Fails(text, S) ==
  \/ text \in {Closed} \cup Broken \cup Mistyped
  \/ \E v \in Imports[text] : disk[v] = Closed \/ (v \in S /\ disk[v] \in Bare)

(* The index of an import is unwrapped (type_checker.rs, 357), and around a *)
(* cycle the stack runs over.                                               *)
Crashes(text, S) ==
  /\ text \notin {Closed} \cup Broken
  /\ \/ text \in FatalToIndex
     \/ \E v \in Imports[text] : disk[v] # Closed /\ v \notin S

(* The files that have an index: their imports have one first, so nothing   *)
(* on a cycle does.                                                         *)
Indexed ==
  {u \in Uri : \A S \in SUBSET Uri : (\A v \in Uri : Sound(disk[v], S) => v \in S) => u \in S}

(* Where the request points: at an import, at something else, at nothing.   *)
(* Semantic tokens are for the whole text.                                  *)
Pointed(kind, text) ==
  IF kind = "tokens" THEN {Uses[text]} ELSE {<<>>} \cup {<<u>> : u \in Range(Uses[text])}

(* The next import to resolve, or the end of the handler. *)
Continue(i, todo) ==
  IF todo # <<>> THEN
    /\ tasks' = [tasks EXCEPT ![i].pc = "probe", ![i].todo = todo]
    /\ queue' = Append(RemoveFirst(queue, i), i)
  ELSE
    /\ tasks' = [tasks EXCEPT ![i].pc = "done", ![i].todo = <<>>]
    /\ Took(i)

(* hover, goto_definition, semantic_tokens_full and completion up to their  *)
(* first import.  The name of a core document is not the path of a file.    *)
ReadRequest(i) ==
  /\ At(i, "read") /\ tasks[i].kind \in Requests /\ Granted(i)
  /\ LET u == tasks[i].uri
         text == Contents(u)
         parses == u \notin Core /\ text # Closed
         S == Indexed
     IN  \/ /\ ~parses \/ Crashes(text, S)
            /\ Panic(i)
         \/ /\ parses /\ Fails(text, S)
            /\ Continue(i, <<>>)
            /\ UNCHANGED <<editor, documents, disk, outbox, parked, shown, crash>>
         \/ /\ parses /\ Sound(text, S)
            /\ \E todo \in Pointed(tasks[i].kind, text) :
                 IF todo = <<>> /\ tasks[i].kind = "completion" THEN
                   Goto(i, "show") /\ Publish(i, Message) /\ Took(i)
                 ELSE Continue(i, todo) /\ UNCHANGED <<outbox, parked>>
            /\ UNCHANGED <<editor, documents, disk, shown, crash>>

Shown(i) ==
  /\ Resumes(i, "show")
  /\ Goto(i, "done")
  /\ UNCHANGED <<editor, documents, disk, queue, outbox, parked, shown, crash>>

(* Hovering an import that is gone is taken for impossible as well. *)
WrongInsists(kind) == kind \in {"tokens", "completion", "hover"}

(* semantic_tokens_full unwraps, completion panics when an import is not    *)
(* resolved; hover says so and goto_definition has no answer.               *)
Insists(kind) == kind \in {"tokens", "completion"}

(* resolve_import from the text of the import on, and what follows it.      *)
Resolved(i, text) ==
  LET S == Indexed
      found == Sound(text, S) /\ text \notin Bare
      rest == IF found /\ tasks[i].kind = "tokens" THEN Tail(tasks[i].todo) ELSE <<>>
      lost == Fails(text, S) \/ text \in Bare
  IN  \/ /\ Crashes(text, S) \/ (lost /\ Insists(tasks[i].kind))
         /\ Panic(i)
      \/ /\ found \/ (lost /\ ~Insists(tasks[i].kind))
         /\ Continue(i, rest)
         /\ UNCHANGED <<editor, documents, disk, outbox, parked, shown, crash>>

(* The import is looked up among the documents; the guard of the condition  *)
(* is gone when the text is fetched.  Its file is found (main.rs, 45): it   *)
(* was when the text was indexed, and files do not go away.                 *)
Probe(i) ==
  /\ At(i, "probe") /\ Granted(i)
  /\ LET u == Head(tasks[i].todo)
     IN  IF documents[u].text = Closed THEN Resolved(i, disk[u])
         ELSE /\ Goto(i, "fetch")
              /\ queue' = Append(RemoveFirst(queue, i), i)
              /\ UNCHANGED <<editor, documents, disk, outbox, parked, shown, crash>>

Fetch(i) ==
  /\ At(i, "fetch") /\ Granted(i)
  /\ LET u == Head(tasks[i].todo)
     IN  IF documents[u].text = Closed /\ (u \in Core \/ disk[u] = Closed) THEN Panic(i)
         ELSE Resolved(i, Contents(u))

-----------------------------------------------------------------------------
Init ==
  /\ tasks = <<>>
  /\ disk \in Disks
  /\ \E opened \in Opened :
       editor = [u \in Uri |-> [text |-> IF u \in opened THEN disk[u] ELSE Closed, by |-> 0]]
  /\ documents = editor
  /\ queue = <<>> /\ outbox = <<>> /\ parked = <<>>
  /\ shown = [u \in Uri |-> FALSE]
  /\ crash = None

Client == \E u \in Uri : \/ Open(u)
                         \/ Change(u)
                         \/ Close(u)
                         \/ Save(u)
                         \/ Request(u)

Handler(i) == \/ Cleared(i)
              \/ Apply(i)
              \/ ReadSave(i)
              \/ Reported(i)
              \/ ReadRequest(i)
              \/ Shown(i)
              \/ Probe(i)
              \/ Fetch(i)

Next == \/ Client
        \/ Deliver
        \/ \E i \in DOMAIN tasks : Handler(i) \/ Cancel(i)

(* The runtime polls every handler that can go on, and the client reads    *)
(* what it is sent.  Nothing makes the client send or cancel.              *)
Fairness == WF_vars(Deliver) /\ WF_vars(\E i \in DOMAIN tasks : Handler(i))

Spec == Init /\ [][Next]_vars /\ Fairness

-----------------------------------------------------------------------------
(***************************************************************************)
(* Properties.                                                             *)
(***************************************************************************)

Id == 0 .. MaxMessages
Task == [kind : Edits \cup Requests \cup {"save"}, uri : Uri, text : Texts \cup {Closed},
         pc : {"clear", "apply", "read", "probe", "fetch", "report", "show", "done"},
         todo : Seq(Uri), alone : BOOLEAN]

(* Types; who waits for the lock is at an await of it and waits once, and   *)
(* nobody else does; a guard that outlives an await is never left over.     *)
TypeOK ==
  /\ tasks \in Seq(Task) /\ Len(tasks) <= MaxMessages
  /\ editor \in [Uri -> [text : Texts \cup {Closed}, by : Id]]
  /\ documents \in [Uri -> [text : Texts \cup {Closed}, by : Id]]
  /\ disk \in [Uri -> Texts \cup {Closed}]
  /\ shown \in [Uri -> BOOLEAN]
  /\ crash \in {None} \cup DOMAIN tasks
  /\ IsInjective(queue)
  /\ Range(queue) = {i \in DOMAIN tasks : tasks[i].pc \in {"apply", "read", "probe", "fetch"}}
  /\ \A i \in Range(parked) : tasks[i].pc \in {"clear", "report", "show", "done"}

(* The last message before i that edits u. *)
LastEdit(i, u) ==
  Max({0} \cup {j \in 1 .. (i - 1) : tasks[j].kind \in Edits /\ tasks[j].uri = u})

Reads(i) == IF tasks[i].pc = "read" THEN tasks[i].uri ELSE Head(tasks[i].todo)

(* Whatever the handlers do in between, a request and a save read their     *)
(* document, and a request the documents of its imports, as they were when  *)
(* it was sent or newer: no edit the client sent before is missing.         *)
SeesEdits ==
  \A i \in Range(queue) :
    Granted(i) /\ tasks[i].pc # "apply" => documents[Reads(i)].by >= LastEdit(i, Reads(i))

Quiet == Running /\ outbox = <<>> /\ \A i \in DOMAIN tasks : tasks[i].pc = "done"

(* When every handler has ended, the server has the texts of the client,    *)
(* although edits are applied by handlers that wait for each other.         *)
ServerCatchesUp == Quiet => documents = editor

LastSave(u) == {i \in DOMAIN tasks : /\ tasks[i].kind = "save" /\ tasks[i].uri = u
                                    /\ \A j \in DOMAIN tasks : j > i =>
                                         tasks[j].kind # "save" \/ tasks[j].uri # u}

(* Once the server is quiet, the client shows errors for a document exactly *)
(* if the text that its last save found had some, whatever earlier saves    *)
(* reported; unless the save before it was still going (a late report of    *)
(* that one stays: it was cleared too early).                               *)
DiagnosticsFollow ==
  Quiet => \A u \in Uri : \A i \in LastSave(u) :
             tasks[i].alone => shown[u] = Errors(tasks[i].text)

ClosedSince(i, u) == documents[u].text = Closed /\ documents[u].by > i

ImportsOf(u) == IF disk[u] = Closed THEN {} ELSE Imports[disk[u]]

(* The files that u imports, and those that they import, and so on. *)
Below(u) ==
  {v \in Uri : \A S \in SUBSET Uri : (\A w \in S \cup {u} : ImportsOf(w) \subseteq S) => v \in S}

(* A mistake made in the file u itself. *)
Mistaken(u) ==
  \/ disk[u] \in {Closed} \cup Broken \cup Mistyped \cup FatalToIndex
  \/ \E v \in ImportsOf(u) : disk[v] \in Bare

(* Somewhere at or below u is a mistake, or a file that imports itself. *)
Blamed(u) == \E v \in {u} \cup Below(u) : Mistaken(v) \/ v \in Below(v)

(* There is a file that text imports, and something is wrong there. *)
BadImport(text) == \E v \in Imports[text] : disk[v] # Closed /\ Blamed(v)

(* What a handler that ended the server was at. *)
Cause(i) ==
  LET u == tasks[i].uri
      text == Contents(u)
      late == Head(tasks[i].todo)
      import == Contents(late)
  IN  CASE tasks[i].kind = "save" ->
             ClosedSince(i, u) \/ documents[u].text \in Unplaced \cup FatalToSave
        [] tasks[i].kind # "save" /\ tasks[i].pc = "read" ->
             u \in Core \/ text \in FatalToIndex \/ BadImport(text)
        [] OTHER ->
             \/ late \in Core /\ ClosedSince(i, late)
             \/ import \in FatalToIndex \/ BadImport(import)
             \/ /\ tasks[i].kind \in {"tokens", "completion"}
                /\ \/ import \in Broken \cup Mistyped \cup Bare
                   \/ \E v \in Imports[import] : disk[v] \in {Closed} \cup Bare

(* What ends the server: a save that a later close overtook, or of a text   *)
(* whose error has no position, or that panics; a request for a document of *)
(* the runtime, or for a text whose analysis panics or that imports a file  *)
(* with a mistake, a missing file or a cycle at any distance below it; an   *)
(* import of that kind when it is resolved; an import of semantic tokens or *)
(* a completion that has lost its export or its index since the disk was    *)
(* read; a document of the runtime closed while an import of it is          *)
(* resolved.  Nothing else, and nothing in any order of the other messages: *)
(* no mistake of the requested text alone and no import of it that is gone, *)
(* not even a close before the answer to a request for a document that is   *)
(* in no file.                                                              *)
CrashCauses == ~Running => Cause(crash)

(* Every message is dealt with: no handler waits forever for the lock, for  *)
(* room in the outbox or for its turn, unless the server has ended.         *)
HandlersEnd == <>[](~Running \/ Going = {})

=============================================================================
