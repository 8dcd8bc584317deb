------------------------------- MODULE Arrays -------------------------------
(***************************************************************************)
(* Programs with arrays (core/src/interpreter.rs and                       *)
(* core/src/interpreter/prototypes.rs): arrays are shared by everything    *)
(* that holds them, and may be changed while loops go over them, while     *)
(* find asks its function about their items, and while the right side of   *)
(* an assignment to one of their items is evaluated.  Such activities are  *)
(* on the stack, the last one innermost; the statements in their bodies    *)
(* and functions are any.                                                  *)
(***************************************************************************)
EXTENDS Values, SequencesExt

CONSTANTS
  Var,        (* The variables.                                            *)
  Programs,   (* The values a program's text mentions, and how many        *)
              (* statements it runs.                                       *)
  Top,        (* The largest of the numbers that ranges go over.           *)
  MaxArrays,  (* Bounds on the arrays, on their lengths, on the stack, and *)
  MaxLength,  (* on the rounds of a range without an end.                  *)
  MaxStack,
  MaxRounds

(* A value that is not an array. *)
Plain(v) ==
  \/ v = Void \/ v = Bool(TRUE) \/ v = Bool(FALSE)
  \/ Is("number", v) /\ v[2] \in Int /\ v = Number(v[2])
  \/ Is("string", v) /\ v[2] \in Seq(Int) /\ v = Text(v[2])

ASSUME TopAssumption == Top \in Nat

(* All the arrays fit on the stack in each other: what does not fit is one  *)
(* that holds itself.                                                       *)
ASSUME RoomAssumption == Depth \in Nat /\ MaxArrays \in Nat /\ MaxArrays <= Depth

ASSUME ProgramsAssumption ==
  \A p \in Programs :
    /\ p = [mentions |-> p.mentions, statements |-> p.statements]
    /\ p.statements \in Nat
    /\ \A v \in p.mentions : Plain(v)

VARIABLES
  heap,       (* The contents of the arrays.                               *)
  store,      (* The value of each variable.                               *)
  stack,      (* The activities.                                           *)
  program,    (* One of the programs, with the statements that are left.   *)
  outcome,    (* running; or what ended the program.                       *)
  begun       (* For the properties: what each activity began with, and    *)
              (* how many rounds it has had.                               *)

arraysVars == <<heap, store, stack, program, outcome, begun>>

-----------------------------------------------------------------------------
(***************************************************************************)
(* Numbers from Bottom to Top, in two's complement; a conversion keeps to  *)
(* the ends of their range.                                                *)
(***************************************************************************)

Bottom == -Top - 1
Whole(v) == IF v[2] > Top THEN Top ELSE IF v[2] < Bottom THEN Bottom ELSE v[2]
Wrap(n) == IF n > Top THEN n - 2 * (Top + 1) ELSE n

Numbers(from, to) == [i \in 1 .. (to - from) |-> Number(from + i - 1)]

(* It counts down from the number below the left one. *)
WrongBetween(l, r) == IF l < r THEN Numbers(l, r) ELSE Reverse(Numbers(r, l))

(* A range with two ends; it counts down to the one above a right end that  *)
(* is not above the left one.                                               *)
Between(l, r) == IF l < r THEN Numbers(l, r) ELSE Reverse(Numbers(Wrap(r + 1), Wrap(l + 1)))

-----------------------------------------------------------------------------
Doing(what) == outcome = "running" /\ stack # <<>> /\ Last(stack).what \in what
Inside == stack # <<>> => Last(stack).inside
Loops == {"for", "range", "upto", "from"}

(* The values that the statements here can name. *)
Mentioned ==
  {store[x] : x \in Var} \cup program.mentions
  \cup {stack[n].item : n \in {m \in DOMAIN stack : m = Len(stack) /\ stack[m].what # "write"}}

Statement ==
  /\ outcome = "running" /\ Inside /\ program.statements > 0
  /\ program' = [program EXCEPT !.statements = @ - 1]

Ends(how) == outcome' = how /\ UNCHANGED <<heap, store, stack, begun>>

(* The value becomes the variable's, if there is one. *)
Gets(x, result) ==
  IF result.status = "ok"
  THEN store' = [store EXCEPT ![x] = result.value] /\ UNCHANGED <<heap, stack, outcome, begun>>
  ELSE Ends(result.status)

(* A method of arrays, called on another value. *)
NoMethod(v) == Ends(IF v[1] \in Prototypes THEN "error" ELSE "panic")

Changes(a, items) == Len(items) <= MaxLength /\ heap' = [heap EXCEPT ![a] = items]

-----------------------------------------------------------------------------
(***************************************************************************)
(* Statements.                                                             *)
(***************************************************************************)

(* x = v *)
Let(x) == Statement /\ \E v \in Mentioned : Gets(x, Got(v))

(* x = [...] *)
Create(x) ==
  /\ Statement /\ Len(heap) < MaxArrays
  /\ \E items \in {<<>>} \cup {<<v>> : v \in Mentioned} :
       heap' = Append(heap, items) /\ store' = [store EXCEPT ![x] = Array(Len(heap) + 1)]
  /\ UNCHANGED <<stack, outcome, begun>>

(* x += v, x -= v; the right side comes first. *)
Assign(x) == Statement /\ \E op \in {"+", "-"}, v \in Mentioned : Gets(x, Compound(op, store[x], v, heap))

(* x = v[i] *)
Read(x) ==
  /\ Statement
  /\ \E v, i \in Mentioned : Is("number", i) /\ Gets(x, IF Is("array", v) THEN Item(v[2], i, heap) ELSE Failed)

(* x = v == w *)
Equal(x) == Statement /\ \E v, w \in Mentioned : Gets(x, Equality("==", v, w, heap))

(* x = v.contains(w), v.len(), v.toString() *)
Ask(x) ==
  /\ Statement
  /\ \E v \in Mentioned :
       IF ~Is("array", v) THEN NoMethod(v)
       ELSE \/ \E w \in Mentioned : Gets(x, Holds(v[2], w, heap))
            \/ Gets(x, Got(Number(Len(heap[v[2]]))))
            \/ Gets(x, TextOf(v, heap))

(* v.push(w), v.reverse() *)
Change ==
  /\ Statement
  /\ \E v \in Mentioned :
       IF ~Is("array", v) THEN NoMethod(v)
       ELSE /\ \/ \E w \in Mentioned : Changes(v[2], Append(heap[v[2]], w))
               \/ Changes(v[2], Reverse(heap[v[2]]))
            /\ UNCHANGED <<store, stack, outcome, begun>>

(* x = v.find(w.contains), v.find(w.push): find calls the method of v, with *)
(* each item of v until one is found.                                       *)
FindByMethod(x) ==
  /\ Statement
  /\ \E v \in {u \in Mentioned : Is("array", u)} :
       LET items == heap[v[2]]
       IN  \/ Gets(x, IF items = <<>> THEN Got(Void)
                      ELSE IF Holds(v[2], Head(items), heap).status = "ok" THEN Got(Head(items)) ELSE Overflows)
           \/ /\ Changes(v[2], items \o items)
              /\ store' = [store EXCEPT ![x] = Void] /\ UNCHANGED <<stack, outcome, begun>>

-----------------------------------------------------------------------------
(***************************************************************************)
(* Assignments to an item.  The array and the place are settled before the *)
(* right side is evaluated, what is there only after it.                   *)
(***************************************************************************)

Begins(activity, with) ==
  /\ Len(stack) < MaxStack
  /\ stack' = Append(stack, activity)
  /\ begun' = Append(begun, [with |-> with, rounds |-> 0])
  /\ UNCHANGED <<heap, store, outcome>>

Pops == stack' = Front(stack) /\ begun' = Front(begun)

(* v[i] op= ... *)
BeginWrite ==
  /\ Statement
  /\ \E v, i \in Mentioned, op \in {"=", "+"} :
       IF Is("array", v) /\ Is("number", i)
       THEN Begins([what |-> "write", inside |-> TRUE, array |-> v[2], index |-> i, op |-> op], <<>>)
       ELSE Ends("error")

(* Places behind the end come into being. *)
Written(items, i, v) ==
  [j \in 1 .. Max({Len(items), i}) |-> IF j = i THEN v ELSE IF j \in DOMAIN items THEN items[j] ELSE Void]

EndWrite ==
  /\ Doing({"write"}) /\ UNCHANGED program
  /\ \E v \in Mentioned :
       LET to == Last(stack)
           old == IF to.op = "=" \/ v[1] \notin Prototypes THEN Got(Void) ELSE Item(to.array, to.index, heap)
           new == IF old.status = "ok" THEN Compound(to.op, old.value, v, heap) ELSE old
       IN  IF new.status # "ok" THEN Ends(new.status)
           ELSE /\ Changes(to.array, Written(heap[to.array], Place(to.index), new.value))
                /\ Pops /\ UNCHANGED <<store, outcome>>

-----------------------------------------------------------------------------
(***************************************************************************)
(* Loops, and find, which goes over items like a loop, with its function   *)
(* for a body.                                                             *)
(***************************************************************************)

Rounds(what, array, items) ==
  [what |-> what, inside |-> FALSE, array |-> array, items |-> items, given |-> Void, item |-> Void]

(* for item in v; a copy of the items. *)
BeginFor ==
  /\ Statement
  /\ \E v \in Mentioned :
       IF Is("array", v) THEN Begins(Rounds("for", v[2], heap[v[2]]), heap[v[2]]) ELSE Ends("error")

(* v.find(fn) *)
BeginFind ==
  /\ Statement
  /\ \E v \in Mentioned :
       IF Is("array", v) THEN Begins(Rounds("find", v[2], heap[v[2]]), heap[v[2]]) ELSE NoMethod(v)

(* for item in l..r; a build that checks for overflow does not add to Top.  *)
BeginRange ==
  /\ Statement
  /\ \E l, r \in Mentioned :
       IF ~Is("number", l) \/ ~Is("number", r) THEN Ends("panic")
       ELSE \/ Begins(Rounds("range", 0, Between(Whole(l), Whole(r))), <<Whole(l), Whole(r)>>)
            \/ Whole(l) >= Whole(r) /\ Top = Whole(l) /\ Ends("panic")

(* for item in ..r, for item in l.. *)
BeginUpTo ==
  /\ Statement
  /\ \E r \in Mentioned :
       IF Is("number", r) THEN Begins(Rounds("upto", 0, Numbers(0, Whole(r))), <<0, Whole(r)>>) ELSE Ends("panic")

BeginFrom ==
  /\ Statement
  /\ \E l \in Mentioned :
       IF Is("number", l) THEN Begins(Rounds("from", 0, <<Number(Whole(l))>>), <<Whole(l)>>) ELSE Ends("panic")

(* What is left after a round. *)
Rest(rounds) ==
  IF rounds.what = "from" THEN <<Number(Wrap(Head(rounds.items)[2] + 1))>> ELSE Tail(rounds.items)

Round ==
  /\ Doing(Loops \cup {"find"}) /\ ~Inside /\ Last(stack).items # <<>>
  /\ Last(begun).rounds < MaxRounds
  /\ LET item == Head(Last(stack).items)
     IN  \/ /\ stack' = [stack EXCEPT ![Len(stack)] =
                           [@ EXCEPT !.inside = TRUE, !.items = Rest(Last(stack)), !.given = item, !.item = item]]
            /\ begun' = [begun EXCEPT ![Len(begun)].rounds = @ + 1]
            /\ UNCHANGED <<heap, store, outcome>>
         \/ Last(stack).what = "from" /\ item = Number(Top) /\ Ends("panic")
  /\ UNCHANGED program

(* item = v; of no consequence for the next round. *)
SetItem ==
  /\ Statement /\ Doing(Loops \cup {"find"})
  /\ \E v \in Mentioned : stack' = [stack EXCEPT ![Len(stack)].item = v]
  /\ UNCHANGED <<heap, store, outcome, begun>>

EndRound ==
  /\ Doing(Loops) /\ Inside
  /\ stack' = [stack EXCEPT ![Len(stack)].inside = FALSE]
  /\ UNCHANGED <<heap, store, program, outcome, begun>>

Break == Doing(Loops) /\ Inside /\ Pops /\ UNCHANGED <<heap, store, program, outcome>>

EndLoop == Doing(Loops) /\ ~Inside /\ Last(stack).items = <<>> /\ Pops /\ UNCHANGED <<heap, store, program, outcome>>

(* The function returns; x = what was given to it if that is true. *)
Answer(x) ==
  /\ Doing({"find"}) /\ Inside
  /\ \E v \in Mentioned \cup {Bool(TRUE)} :
       IF v = Bool(TRUE) THEN Pops /\ store' = [store EXCEPT ![x] = Last(stack).given]
       ELSE stack' = [stack EXCEPT ![Len(stack)].inside = FALSE] /\ UNCHANGED <<store, begun>>
  /\ UNCHANGED <<heap, program, outcome>>

EndFind(x) ==
  /\ Doing({"find"}) /\ ~Inside /\ Last(stack).items = <<>>
  /\ Pops /\ store' = [store EXCEPT ![x] = Void]
  /\ UNCHANGED <<heap, program, outcome>>

-----------------------------------------------------------------------------
ArraysInit ==
  /\ heap = <<>> /\ store = [x \in Var |-> Void] /\ stack = <<>>
  /\ program \in Programs
  /\ outcome = "running" /\ begun = <<>>

ArraysNext ==
  \/ \E x \in Var : \/ Let(x) \/ Create(x) \/ Assign(x) \/ Read(x) \/ Equal(x) \/ Ask(x)
                    \/ FindByMethod(x) \/ Answer(x) \/ EndFind(x)
  \/ Change \/ BeginWrite \/ EndWrite
  \/ BeginFor \/ BeginFind \/ BeginRange \/ BeginUpTo \/ BeginFrom
  \/ Round \/ SetItem \/ EndRound \/ Break \/ EndLoop

ArraysSpec == ArraysInit /\ [][ArraysNext]_arraysVars

-----------------------------------------------------------------------------
(***************************************************************************)
(* What is alike.                                                          *)
(***************************************************************************)

(* What can be reached in an array: paths of places, and the values there;  *)
(* long enough for all that two arrays can differ in.                       *)
Reached(a) ==
  LET reached[n \in 0 .. (MaxArrays * MaxArrays)] ==
        IF n = 0 THEN {[path |-> <<>>, value |-> Array(a)]}
        ELSE LET sofar == reached[n - 1]
             IN  sofar \cup UNION {{[path |-> Append(r.path, i), value |-> heap[r.value[2]][i]] :
                                     i \in DOMAIN heap[r.value[2]]} : r \in {q \in sofar : Is("array", q.value)}}
  IN  reached[MaxArrays * MaxArrays]

Looks(v) == IF Is("array", v) THEN <<"length", Len(heap[v[2]])>> ELSE v
Seen(a) == {[path |-> r.path, looks |-> Looks(r.value)] : r \in Reached(a)}
Endless(a) == \E r \in Reached(a) : Len(r.path) = MaxArrays /\ Is("array", r.value)

-----------------------------------------------------------------------------
(***************************************************************************)
(* Properties.                                                             *)
(***************************************************************************)

(* What an activity has gone over so far, and how much there is in all.     *)
Settled(now, start) ==
  LET with == start.with
      rounds == start.rounds
      all == rounds + Len(now.items)
      steps == IF with[1] <= with[2] THEN rounds - 1 ELSE 1 - rounds
      distance == IF with[1] <= with[2] THEN with[2] - with[1] ELSE with[1] - with[2]
  IN  CASE now.what \in {"for", "find"} ->
             all = Len(with) /\ (rounds > 0 => now.given = with[rounds])
        [] now.what \in {"range", "upto"} ->
             /\ rounds > 0 => now.given = Number(with[1] + steps)
             /\ all = IF with[2] < with[1] /\ (now.what = "upto" \/ with[1] = Top) THEN 0 ELSE distance
        [] now.what = "from" ->
             rounds > 0 => \E around \in 0 .. rounds :
                             /\ now.given = Number(with[1] + rounds - 1 - around * 2 * (Top + 1))
                             /\ now.given[2] \in Bottom .. Top

(* A loop over an array, and find, go over exactly the items that the array *)
(* had when they began, whatever happens to it meanwhile.  A loop over a    *)
(* range goes from its left end towards its right one, which it leaves out; *)
(* it does not go at all down from the largest number, nor if a missing     *)
(* left end, which is 0, is above the right one.  Without a right end it    *)
(* goes up, and from the largest number around to the least.                *)
RoundsSettled == \A n \in DOMAIN stack : stack[n].what # "write" => Settled(stack[n], begun[n])

(* Arrays are equal if nothing that can be reached in both in the same way  *)
(* looks different, whether the two share it or not.  The comparison only   *)
(* overflows if both hold themselves, and always if they are then equal;    *)
(* the text of an array always overflows if it holds itself.                *)
EqualMeansAlike ==
  LET seen == [a \in DOMAIN heap |-> Seen(a)]
      endless == {a \in DOMAIN heap : Endless(a)}
  IN  \A a, b \in DOMAIN heap :
        LET found == Equality("==", Array(a), Array(b), heap)
        IN  /\ found.status = "overflow" => {a, b} \subseteq endless
            /\ found.status = "ok" => found.value = Bool(seen[a] = seen[b])
            /\ a \in endless /\ seen[a] = seen[b] => found.status = "overflow"
            /\ a \in endless <=> TextOf(Array(a), heap).status = "overflow"

(* x op= v makes x what x op v is, whenever it makes it anything, and only  *)
(* does not if a string is to be joined with a value of another kind.  <=   *)
(* is < or ==, and > is < with the sides swapped, but for arrays, which are *)
(* equal and yet not in order.                                              *)
OperatorsAgree ==
  \A v, w \in Mentioned :
    /\ \A op \in {"+", "-"} :
         LET binary == Binary(op, v, w, heap)
             compound == Compound(op, v, w, heap)
         IN  /\ compound.status = "ok" => compound = binary
             /\ binary.status = "ok" /\ compound # binary => Is("string", v) /\ ~Is("string", w)
    /\ Relation("<", v, w) = Relation(">", w, v)
    /\ ~Is("array", v) => Truth(Relation("<=", v, w)) = (Truth(Relation("<", v, w)) \/ Truth(Equality("==", v, w, heap).value))

=============================================================================
