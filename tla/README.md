# NLF in TLA+

NLF is a small scripting language: a lexer, a parser, a translator to an intermediate
representation, a tree-walking interpreter with a module loader and a standard library,
and a language server (Rust, workspace of `core`, `lsp`, `shared`, `macros`,
`addon-maker`). This directory holds TLA+ models of its parts, the TLC runs that check
them and the proofs that TLAPS checks.

    tlasany M.tla                         parse
    tlc -workers 2 -config X.cfg M        model-check
    tlapm M.tla                           check the proofs

`PROJECT.json` lists components, runs, mutants (plausible mistakes that each property
must find), the source lines behind every definition, findings, hazards and theorems.

## 1. Inventory

The pipeline of a file is `lexer::lex` → `parser::parse` → `translator::translate` →
`Module::load` / `Module::execute` → `interpreter::interpret`. The language server uses
`lex`, `lax_parse`, `explorer`, `analysis` and `type_checker` instead.

| Component | State it keeps | Operations | Interacts with |
|---|---|---|---|
| Object store (`interpreter.rs` `ObjectRef`, `shared/lib.rs` `SchemaStore`) | the schemas of the program; per object a schema id and values | new, get, set, fetch | one store per program, shared by all modules, by json and by addons |
| Module loader (`loader.rs`) | `ProgramContext.modules`; per module exports, imports, statements, context, under a mutex | load, execute, run_main | the interpreter executes modules when a lazy reference is read |
| Control flow (`interpreter.rs` `eval_body` and callers) | the stack of scopes with their `interrupted` marks | statements, blocks, loops, calls, return, break | calls nest through expressions, methods and `find` |
| Scopes and slots (`translator.rs`, `Environment`) | symbol tables while translating; slots of shared scopes at run time | declare, resolve, define, assign, read, capture | closures keep scopes alive |
| Prototypes and arrays (`prototypes.rs`, `ArrayRef`) | shared arrays | push, reverse, write, read, find, loops | find calls back into functions; loops run bodies that change the array |
| Lexer, parser, Pratt parser | a cursor | one pass | errors with positions |
| Explorer, analysis, type checker | per text a `SymbolIndex` of scopes and symbols, and types; made anew each time | index a text, find a definition, infer a type | recursion over imports, read from the disk |
| Language server (`lsp/main.rs`) | the open documents, behind an async lock | did_open/change/save/close, hover, definition, tokens, completion | handlers take turns where they await; messages to the client through a bounded channel |
| Addons, standard library, errors, test runner | libraries, registration tables | wrappers of I/O | raw pointers to contexts in callbacks |

What is hard. The interpreter is one thread, so the hard behaviours are not data races but
*re-entry*: a module executed in the middle of an expression of another one while mutexes
are held; a `return` that has to find its way through bodies that do not know why an inner
body ended; a schema shared by objects built in different orders; scopes shared by closures.
Only the language server has real concurrency. Nothing is persisted, so there is no crash
recovery. `PROJECT.json` lists each hazard at its line.

What makes each component correct:

- *object store*: an object is a map of its own; interning never changes another object.
- *loader*: loading ends with the verdict the files deserve, a module runs once, whoever
  reads an exported name sees a module that has run to its end, and a thread never waits for
  a mutex it holds.
- *control flow*: return ends its call with its value, break its loop, neither touches callers.
- *scopes*: a variable reads and writes what its name denotes in the text.
- *arrays and expressions*: a loop goes over what it began with; equality is about contents;
  what is folded at load is what evaluation would give.
- *lexer and parser*: what was written is what is read, by the strict and by the lax parser.
- *analysis and type checker*: they end, blame the right file, and find the declaration that
  the run uses.
- *language server*: answers refer to the current text; no handler takes the server down.

## 2. Plan

| # | Module(s) | What | State |
|---|---|---|---|
| 1 | `Objects`, `ObjectMaps`, `ObjectsProofs` | object store, refinement to maps | done |
| 2 | `Loader`, `LoaderProofs` | loading and executing modules | done |
| 3 | `Control`, `ControlProofs` | return and break | done |
| 4 | `Resolver`, `ResolverProofs` | slots and hops of the translator against the scopes of the run | done, classes and imports left |
| 5 | `Documents`, `DocumentsProofs` | the language server: handlers, lock, outbox | done |
| 6 | `Checker`, `CheckerProofs` | types and symbols over import graphs | done |
| 7 | `Symbols`, `SymbolsProofs` | scopes, definitions and types the editor finds, against the run's | done, members left |
| 8 | `Lexer`, `Parser`, `Frontend` | a text to its trees, strict and lax | done |
| 9 | `Values`, `Expressions`, `Arrays`, `Runtime`, `ArraysProofs` | values and operators; folding and evaluation; shared arrays | done, methods of strings left |
| 10 | `ResolverProofs` | `ReadsOwn` and `ValuesStay`: names of a scope have slots of their own | done |
| 11 | `SymbolsProofs` | `FindsDeclaration`, `FindsMore`, `TypesFollow` from the nesting of the bodies | done |
| 12 | classes, addons | fields evaluated once; callbacks and contexts | |

`Frontend` composes `Lexer` and `Parser`, `Runtime` composes `Arrays` and `Expressions` over
`Values`; `Loader`, `Control` and `Resolver` cut the interpreter along the state that each
needs and stand for themselves.

Abstract specification: `ObjectMaps`. Elsewhere the reference is stated next to the property:
the declarations the run uses in `Symbols`, the printed program in `Frontend`, paths into
arrays in `Arrays`. `Expressions`, `Runtime`, `Lexer`, `Parser` and `Frontend` use recursive
operators over trees and stay with TLC. Each module of proofs begins with the few facts about
stacks and numbers that it needs.

## 3. What is modelled

### Objects (`Objects.tla`, `ObjectMaps.tla`)

`schemas` is `SchemaStore.schemas`, `object[o]` the `Object` behind a reference. `New` is
`ObjectRef::new` (literals, class instances, `binding`, `addon`), `Set` is `ObjectRef::set`
with both calls it makes, `Copy` a trip through json or an addon. `Matching` is the
`IndexSet` equality of `get_schema`, which ignores order; `Get` and `Fetch` go through the
schema like the code. `Literals` are the key orders the program's literals use. Values are
opaque; `Kept` are those that a conversion returns unchanged, and `Copy` is only about
objects of such values (json drops functions and turns negative integers into 0).

*Runs.* `objects`: three keys, two values, two references, literals that list keys in
conflicting orders; enough for a shared schema met in two orders, for a write that pushes,
one that overwrites and one that reaches an existing schema. `objects_ordered`: all orders
available, but programs restricted to inserting in one order (`OrderedSpec`): there the
storage refines `ObjectMaps`. `objects_read_back`: without the restriction, the promise
fails (finding 1).

*Proved* (`ObjectsProofs`): from the assumptions on the constants only, the inductive
invariant `IInv` (`TypeOK`, `SchemaTable`, `OneValuePerKey`) gives `TypeCorrect`,
`InternedOnce` and `Safety`; `Overwriting`, `Adding` and `Copying` are steps from it. The
part that makes it inductive is that `Interned` only appends and `GetSchema` returns a schema
with *the same set* of keys, hence the same number. `Refinement` is the abstract
specification: `OrderedSpec => Maps!Spec`, each step of the store a step of `ObjectMaps`. It
needs one invariant more, that under `OrderedSpec` every schema lists its keys in order, so
that the same set of keys is the same sequence, and `NoMapAssumption`, that the mark of an
absent object is no map.

### Loader (`Loader.tla`)

The Rust call stack is the variable `stack`: `_load` of a module at its next import,
`_execute` filling imports, `interpret`, a function call, and a lazy reference before and
after `is_loaded()`. Each action is what happens between two points where another module
may be reached. `Held` are the mutexes held: the guard of `module_ref.lock()` in the
arguments of `interpret` lives until it returns. A program is a set of readable files, their
exports and imports, and whether function values may be stored where other modules find
them (`escapes`). Which functions the code on top may hold (`Callable`) is an
over-approximation: a module starts with nothing but its own functions and its imports, so
until the next one starts, whatever the functions on top are given, return, capture or hand
on to each other comes from the modules `Behind` it, those it imports directly or through
others, of whatever layer; or, with `escapes`, from any module.

*Run* `loader`: all import graphs over three modules with lists of up to two imports, all
layered ones over four, broken files, call stacks up to `MaxStack` = 7. Seven calls are
enough for a module executed in the middle of a function called back by a module executed in
the middle of another. `LoadEnds` needs weak fairness of the loading steps only: the thread
that loads is not blocked by anything (`ParseModule`, `CheckImport` and `EndLoad` take only
mutexes that nobody holds then) and the scheduler runs it. Nothing is assumed of the program
once it runs. The run does not check for deadlock: a thread that waits for its own mutex
*is* a deadlock, and programs with cycles can reach it (a module whose top-level code uses
a name of a module that imports it back). `NoSelfWait` says which programs cannot.

*Proved* (`LoaderProofs`), for any files, import graph and depth of calls: `TypeCorrect`;
`Once`, `Settled` and `Verdict`, the invariants about how often, how far and whether modules
are executed; and `LayeredNeverWaits`. The first three follow the stack: what a module has
done is what the frames that are about it say, and a registered module has all it needs
registered or in a frame above. The invariant of the last one orders the stack: a read or an
execution is always of a lower layer than the running modules under it, because what code on
top can hold is of the innermost of them or from behind it (`BehindIsBelow`: in a layered
program what is behind a module is of lower layers).

### Control (`Control.tla`)

`levels` is `Environment.scopes` of one module, each with its `interrupted` mark and where
the body that runs in it stands. `Complete`, `Return`, `Break`, `Finish` are one turn of the
loop in `eval_body`; `EnterBlock`, `EnterLoop`, `Iterate`, `LeaveLoop`, `CallFunction` are
`eval_if`, `eval_for`/`eval_while` and `eval_runtime_function`. The program is arbitrary: any
statement that can stand somewhere may come next. An error (`Fail`) ends everything, because
nothing in the interpreter catches one.

*Runs.* `control`: six nested levels, enough for a call from a loop inside a call with a block
on either side. `control_return`: finding 2.

*Proved* (`ControlProofs`): `TypeCorrect` (nesting), `Stopping`, `Frontier`, `Arrival`, for
any nesting and any values.

### Resolver (`Resolver.tla`)

A text is a sequence of items (`let`, assignment, `fn`, lambda, call, `if`, `while`, `for`,
`end`). It is first translated, one item a step: `tables` is `Context.stack`, `code` the
result, each name replaced by a slot and a number of hops. Texts come from the parser, so
what they open they close (`TextsAssumption`). Then it runs: `heap` holds every
scope that was entered (they stay alive while a function refers to them), `active` is
`Environment.scopes`, `pc` the item. `Declare` and `Resolve` are `Context::set` and
`Context::get`; `Put`, `Get`, `Target` are `Environment::set` and `get`; `Hoist` is
`hoist_declarations` for functions (`Stored`: the last of those that share a slot stays), part
of every entry of a body. Values carry the
declaration they were stored for, which the code does not, to state the properties:
`HopsLand` (the hops end in a scope of the right place of the text), `ReadsOwn` (the slot
holds what was stored for that declaration, and functions, parameters and loop variables are
never unset), `ValuesStay` (nobody takes a slot away).

The last two are about texts that declare no name twice in a scope. With a second
declaration they fail: `SymbolTable::set` takes `map.len()` as the slot and the map does not
grow, so the next name shares a slot. No test or document says what a second declaration
does, so this is listed as a hazard only.

*Run* `resolver`: four families of texts with every choice of their names: a function in a
function that escapes from the call that created it; a loop that hands out a function over
its shared scope; a recursive function with a while and a block; a lambda beside functions,
one of them called before it is declared. Runs enter at most seven scopes, enough for two
nested loops' worth of scopes under two calls. The conditions of blocks and the number of
iterations are nondeterministic.

*Proved* (`ResolverProofs`), for any balanced texts, names and number of scopes: `TypeCorrect`,
`Landing` (`HopsLand`), `OwnRead` (`ReadsOwn`) and `ValuesKept` (`ValuesStay`). That the hops
land (`IInv`) has a proof in two halves, as the code has. Of the translator,
`Made`: its tables are of bodies in each other, the innermost is of the body that the next
item is in, every body that is no longer open is closed, and from each reference there is a
*way* out of as many bodies as it has hops to the body that declares the name. Of the run,
`Runs`: one scope up from any scope is a scope of the body around it in the text (for a call,
because the function was stored with the scope it was created in; for a block, because it is
entered where it stands), the scope on top is of the body that the item is in, and behind
every scope the run goes on in the body of the scope below. `Lands` then goes up the scopes
along the way. It is the invariant for every slot of every scope that makes calls fit: a
function value is in a slot only with a scope of the body that the function is in.

That the slots hold what they should (`NInv`) is proved on top, again in two halves, for texts
that declare no name twice in a scope. `Neat`, of the translator: each table gives its names
slots below their number, no slot twice, and lists all declarations that are in its body; so
two declarations of a body never have the same slot (`Apart`), whenever their tables were
left. `NameAssumption` says that the name a lambda gets, its place, is no name of the text.
`Keeping`, of the run: what a slot holds was stored for a declaration of the scope's body in
that slot (`Fixed`), and a scope that is entered, is one up from another, or is the scope of a
function value, has everything that is given to its body before code runs there (`Ready`:
functions by hoisting, the parameter and the function's own name by the call, the variable of
a `for` by the iteration). The one exception is a loop at its head that has not gone round:
its scope is entered with no functions stored, and it takes the translator's half to see that
the condition of a `while` cannot name one of them (`Refers`). Each action then stores for one
declaration of the body, in its own slot, and so leaves the other variables alone.

### Documents (`Documents.tla`)

`documents` is `Backend.documents`, `queue` the line before its lock, `tasks` every message
the client sent with the await its handler is at: `clear` and `report` are sends to the
client, `apply` waits for the lock to write, `read`, `probe` and `fetch` wait for it to read
(the last two in `resolve_import`). An action is what a handler does from one await to the
next: `Apply` the writing half of `did_open`, `did_change` and `did_close`; `ReadSave`
and `Reported` the halves of `did_save`; `ReadRequest`, `Probe`, `Fetch`, `Shown` hover,
definition, semantic tokens and completion. `Holds` says which guard outlives an await.
tower-lsp, tokio's lock and the client are outside the repository and modelled as the header
says: handlers start in the order of messages, at most `Concurrency` at a time, in one task;
a request may be cancelled at any await. A message stands for its arrival; a save writes the
file as its notification is taken up.

A text is analysed with its imports from the disk, as `get_symbol_index` does, which is what
makes `CrashCauses` interesting: `Indexed` are the files that have an index, the least set
such that each has no mistake of its own and imports only files of the set that export what
is asked for. A text whose own lexing, parsing or type check fails, or that imports a file
that is not there or lacks the export, has no index (`Fails`) and the handler answers with
nothing; a text that imports a file *without* an index takes the server down (`Crashes`: the
`unwrap` of `hoist_types`), as does one on a cycle of imports (the stack) and one at which an
analysis panics by itself (`FatalToIndex`; how a text comes to do so is in `Parser` and
`Checker`). Where a text has several faults its first statement decides, so both outcomes are
possible steps. The stack is taken to have room for imports without a cycle.

*Run* `documents`: a document that imports a file of the user and one of the runtime, or
nothing; the file in order, with a type error, importing the document back, or such that its
analysis panics; four messages of which one is a request, three handlers at a time, a
channel with room for one. Four messages are enough for an edit, a save and a close behind a
request, and for two saves around an edit. `HandlersEnd` assumes weak fairness of delivery to
the client and of the handlers together: the runtime polls what can go on, the client reads.
Nothing makes the client send anything. The server may be idle for ever or end in a panic, so
deadlock is not checked. `Disks` are two: the
first document is in its file, or has none yet. When the file imports the document back, the
import of an import is in order, missing, without the export, or a cycle, by what was saved.
`Broken` and `Unplaced` are empty there: to a save such a text is like one of `Unfinished` or
`FatalToSave`, to a request like one of `Mistyped`.

*Proved* (`DocumentsProofs`), for any documents, number of messages, handlers and room in the
channel, and any disks (`DiskAssumption`): `TypeCorrect`, `Fresher` (`SeesEdits`),
`CatchingUp`, `Diagnosing` and `Crashing`. The invariant `IInv` adds to `TypeOK` and
`CrashCauses`: where a handler can wait (`Stages`), that handlers apply their texts in the
order of messages although they take turns (`InTurn`, `Applied`: the queue of the lock is
first come, first served), what the outbox still holds decides what the client will show
(`Sent`, `SentOpen`), and how far a save has come when the next is read (`PastReading`,
`SavesFollow`). Whom a crash is blamed on is said by reachability, not by the analysis: at or
`Below` the imported file is one with a mistake, or one that is below itself (`Blamed`). That
a file without an index has such a one (`Unindexed`) is an argument by the least set below a
file, for which the documents are finitely many (`TextAssumption`).

### Checker (`Checker.tla`)

`stack` is the Rust stack of `get_symbol_index`, a frame for each call with its phase: parse,
hoist the types of imports and functions, check the statements, infer the types of variables.
`HoistImport` and `Infer` call it for an imported file; `answer` is what the call returned.
No index is remembered, so a file is indexed again for every variable defined by an import.
`outcome` is *some* index, *none*, a panic (an unwrap or a `todo!()`), or a full stack. Texts
are read from the disk; contents of functions and classes are reduced to the types they
mention.

*Run* `checker`: every text of three statements over a file that may be missing, broken,
wrong in each way, or import a third one or the first; so cycles of length one to three, and
mistakes one and two imports away. `Ends` assumes weak fairness of the one thread, which
nothing blocks.

*Proved* (`CheckerProofs`): `Deserved` (`VerdictDeserved`) for any files, texts and import
graphs, under the hypothesis `Deep`: the files are finitely many and the stack has room for a
call of each. Without it a chain of imports without a cycle could fill the stack, and the
verdict "files import each other" would be wrong of the code too. The invariant says of each
call on the stack which of its passes have found nothing wrong, and that each was made by the
one below it over an import; a full stack then names a file twice. `CheckerAssumption` is how
`Fit` reads a text: items other than functions and classes mention no types.

### Symbols (`Symbols.tla`)

`index` is the `SymbolIndex` that `TypedScopeBuilder` collects while `explorer.rs` walks the
tree; the `Walk` actions are its cases, `pending` the blocks it is in. `Infer` actions are
the second walk, of `TypedTreeSyntaxTransformer`, with `FindStatement` by position.
`FindDefinition` is the query behind hover, definition and completion; it climbs from the
scope of the place to what is around it. The reference is `Visible`: the declaration the
translator would resolve to (module `Resolver`). The places that carry the queries are
numbers, ten for each item; a scope covers the names in it, which `NamesCovered` shows of the
parser. Only bodies in braces are modelled.

`TextsAssumption` is what the parser guarantees of a text: every body is closed, and an else
stands where the body of an if ends. `InOwnElse` names what the editor does not find: the
scope of an else has the span of the block before it, so a name of the else is not found in
it, and neither is it from a loop or another else inside, which have no span of their own.

*Run* `symbols`: six families of texts with every choice of names: a lambda in a function, a
loop in a branch, a function in a loop beside one in an else, an else in an else, methods and
a class in a branch, a returned lambda. The properties are about texts that declare no name
twice; they name what the editor gets wrong, and show that there is nothing else.

*Proved* (`SymbolsProofs`): `FindsDeclared` (`FindsDeclaration`), `FindsNoMore` (`FindsMore`)
and `TypesFollowed` (`TypesFollow`), for any balanced texts and any names. A text is taken as
numbers: where bodies begin and end (`Nesting`, which `Nests` derives from the levels); which
bodies are around an item, which statements the walk is in there. The invariant (`Walked`)
says how the index fits the part of the text that was walked: every scope is of a body, has
the span the walk gives it and the nearest scope around for its parent; what it has is
declared in its body or is a use; every declaration passed has a symbol there; `pending` are
the statements around, with the scopes to return to. When the walk is over, the scope of a
place is that of the nearest block around it with a span of its own (`SeatIs`: spans of
blocks nest, so the smallest is the innermost, and the first of two alike that of the if and
not of its else); the climb comes to what the nearest scope around declares (`Climbing`, by
the numbers of the scopes, which fall); and a declaration that is visible is in one of the
scopes climbed just when no own else is between (`Sees`). The types are by induction over the
items: each is what follows from those before (`TypedTo`), `FindStatement` coming to the
statement of the definition, or, for an argument, to the innermost statement around it.

### Front end (`Lexer.tla`, `Parser.tla`, `Frontend.tla`)

`Lex` is one turn of the loop of `lex`, one action a branch, with the byte cursor and the
search by characters that `lex` mixes: `CharAt` counts characters, `Byte` bytes. `Parse` is
`parse` and `lax_parse`; every operator is a function of the parser, with what it reads and
the start and end it gives its node; `Power` is the table of binding powers and `Rest` the
loop of the Pratt parser. A number with a numeric character that is no ASCII digit
(`Numeral`) is a token of its own kind here, on which `Prefix` panics as `parse().unwrap()`
does (pratt.rs:49). `Frontend` lexes a text, or takes tokens or a program, and gives
them to both parsers. `Written` prints a program with the parentheses a reader would need.
What the lexer gets wrong is named in `Plain`: a keyword that begins a longer word, a
character of more bytes before a comment, a comment that ends the text, or that is followed
at once by what the loop then skips.

*Run* `frontend`: all texts of up to four pieces, and comments between pieces; all streams of
up to four tokens of sixteen kinds, and of three behind eight beginnings; all expressions two
operators deep, and programs of one compound or two simple statements. Two operators are
enough for every pair of levels on either side of each other, two statements for every way to
run on. The places of errors, what names and strings say, and equal keys of an object literal
are left out.

### Runtime (`Values.tla`, `Expressions.tla`, `Arrays.tla`, `Runtime.tla`)

`Values` has the conversions, comparisons and prototypes of values; an array is a place in
`heap`, so two names may share it and it may hold itself. A comparison or a text has room for
`Depth` arrays inside each other before the Rust stack ends. `Expressions` has `Fold`, what
`translate_expression` makes of an expression when a text is loaded, and `Eval`, `eval_expr`.
`Arrays` runs arbitrary programs: a statement is an action over any values that can be named
(`Mentioned`), the activities that other statements can happen inside are on `stack`: a loop
(over an array or a range), a `find` and its function, an assignment to an item between its
left and its right side. `Round`, `EndRound`, `Break`, `EndLoop` are `eval_for`; `Answer` and
`EndFind` the loop of `find`. `Begin...` settles what the code settles before the body runs:
both loops and `find` take a copy (`fetch`), an assignment to an item settles the array and
the index, not the length. Ranges are of integers from `Bottom` to `Top`; a build that checks
for overflow panics where another wraps, and both are possible steps.

*Run* `runtime`: two arrays of up to two items, activities two deep, programs of four
statements: enough to put an array into itself, into the other, compare both, and change one
under a loop or a `find`. Every pair of range ends from below to above all three-bit numbers
(the interpreter's have 32 bits; only the ends of the range matter). Pairs of all kinds of
values for the operators. Expressions of two operators, evaluated with five values of their
variable. `Depth` 5 is more than two finite arrays need, so a full stack means that an array
holds itself. Numbers are whole (no NaN, no fractions), one operation besides + stands for
the other four, which differ in the number alone; objects, functions and classes are no
values here; join, and the methods of strings and numbers, are left out.

*Proved* (`ArraysProofs`): `Rounding` (`RoundsSettled`), `Operators` (`OperatorsAgree`) and
`Equals` (`EqualMeansAlike`), for integers of any width, any programs and any number of arrays. What is left of a loop or a
`find` is the end of the course it began with, in the state `begun` had then; the activities
on the stack are proper parts of each other, so no step below disturbs it. `Operators` and
`Equals` speak of any heap that the invariant allows. For `Equals` three sequences are set side
by side, all by the room there is: what the comparison says of each pair (`Comparing`), the pairs
that nothing tells apart so far on (`Closing`), and the arrays with paths that long
(`Deepening`). A pair that is `same` is never told apart, whatever the room; one that is
`different` is not in the fixed point of `Closing`; one that overflows has two arrays with paths
as long as the room. The sequences only shrink, so they have settled after as many steps as
there are pairs, or arrays; that is why `Reached` need not go further, and why a path through
more arrays than there are goes round. `RoomAssumption` (`MaxArrays <= Depth`) is the price: the
stack has room for as many arrays in each other as there can be, so what overflows is an array
that holds itself, and not a deep one. The theorems have the hypothesis `Spelling`: the constant
operator `Spelled`, which stands for how numbers, truth values and arrays are written, gives a
text for each of them.

## 4. Findings

1. *Objects with the same keys in different orders are mixed up.* `get_schema` finds schemas
   by set of keys, the values stay in the order of the literal: after `{x, y}`, the literal
   `{y: 1, x: 2}` reads `x` = 1.
2. *A return inside a loop does not leave the loop.* Only the body in which it stands ends;
   the loop goes on and the last return wins; `while true { return 1 }` never ends.

## 5. Only model-checked, and not modelled

The theorems of `PROJECT.json` are proved for every value of the constants that the named
assumptions allow. Only model-checked are

- liveness under fairness: `LoadEnds`, `HandlersEnd`, `Ends` (out of the prover's reach);
- `FoldedAlike`, which is about trees of expressions (recursive operators over data);
- `LexesRight`, `ReadsBack`, `LaxCompletes`, `NamesCovered`: the modules `Lexer`, `Parser` and
  `Frontend` have recursive operators over texts and trees, as have `Expressions` and `Runtime`.

Not modelled:

- *addons*: the dynamic library, its tables and the raw pointer to a context are undefined
  behaviour in Rust when they go wrong, with nothing in the code to say which outcome;
- *standard library*: wrappers of files, processes, HTTP and time; only the way objects take
  through json is in `Objects`;
- *errors*, formatting and colours: text; *test runner and command line*: pure I/O;
- *number types* (`shared/numbers.rs`): dead code, nothing uses it;
- class definitions (fields, static methods), the methods of strings and numbers, member
  completion, lambdas without braces in `Symbols`.
