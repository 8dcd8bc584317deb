------------------------------- MODULE Values -------------------------------
(***************************************************************************)
(* Values and what the operators make of them (core/src/interpreter.rs,    *)
(* core/src/interpreter/prototypes.rs, core/src/parser/types.rs).  A value *)
(* is a pair of its kind and what it holds; an array holds its place in    *)
(* the heap, a sequence of their contents.  Objects, functions and classes *)
(* are left out; numbers are whole, strings sequences of letters, which    *)
(* are numbers, and what the text of an array says is the constant's.      *)
(***************************************************************************)
EXTENDS Integers, Sequences, FiniteSetsExt

CONSTANTS
  Spelled(_), (* The text of a number, a truth value, Void or an array.    *)
  Depth       (* How many arrays in each other fit on the stack.           *)

Number(n) == <<"number", n>>
Text(s) == <<"string", s>>
Bool(b) == <<"bool", b>>
Void == <<"void">>
Array(a) == <<"array", a>>

Is(kind, v) == v[1] = kind

Got(v) == [status |-> "ok", value |-> v]
Failed == [status |-> "error"]
Panics == [status |-> "panic"]
Overflows == [status |-> "overflow"]

-----------------------------------------------------------------------------
Truth(v) ==
  CASE Is("number", v) -> v[2] > 0
    [] Is("string", v) -> v[2] # <<>>
    [] Is("bool", v)   -> v[2]
    [] OTHER           -> Is("array", v)

Sign(n) == IF n < 0 THEN "less" ELSE IF n = 0 THEN "equal" ELSE "greater"

(* Values of two kinds have no order, and arrays have none.                 *)
Order(v, w) ==
  LET bit(b) == IF b THEN 1 ELSE 0
      letters == {i \in (DOMAIN v[2]) \cap DOMAIN w[2] : v[2][i] # w[2][i]}
  IN  IF v[1] # w[1] THEN "none"
      ELSE CASE Is("number", v) -> Sign(v[2] - w[2])
             [] Is("bool", v)   -> Sign(bit(v[2]) - bit(w[2]))
             [] Is("string", v) -> IF letters = {} THEN Sign(Len(v[2]) - Len(w[2]))
                                   ELSE Sign(v[2][Min(letters)] - w[2][Min(letters)])
             [] Is("void", v)   -> "equal"
             [] OTHER           -> "none"

Relation(op, v, w) ==
  Bool(Order(v, w) \in (CASE op = "<" -> {"less"} [] op = "<=" -> {"less", "equal"}
                          [] op = ">" -> {"greater"} [] op = ">=" -> {"greater", "equal"}))

-----------------------------------------------------------------------------
(* The index of an item: what is below zero counts as zero.                 *)
Place(v) == IF v[2] < 0 THEN 1 ELSE v[2] + 1
Item(a, v, heap) == IF Place(v) \in DOMAIN heap[a] THEN Got(heap[a][Place(v)]) ELSE Failed

(***************************************************************************)
(* Two arrays are compared by what they hold, item by item, each           *)
(* comparison of two arrays on top of the one it is a part of.             *)
(***************************************************************************)

(* Of two items; deeper tells the arrays apart. *)
ComparedItems(v, w, deeper) ==
  IF Is("array", v) /\ Is("array", w) THEN deeper[<<v[2], w[2]>>]
  ELSE IF v = w THEN "same" ELSE "different"

(* Ends with the first pair that is not the same. *)
ComparedLists(s, t, deeper) ==
  LET items == [i \in (DOMAIN s) \cap DOMAIN t |-> ComparedItems(s[i], t[i], deeper)]
      others == {i \in DOMAIN items : items[i] # "same"}
  IN  IF Len(s) # Len(t) THEN "different" ELSE IF others = {} THEN "same" ELSE items[Min(others)]

(* The arrays compared with room for n of them on the stack. *)
ComparedArrays(heap) ==
  LET compared[n \in 0 .. Depth] ==
        IF n = 0 THEN [p \in (DOMAIN heap) \X DOMAIN heap |-> "overflow"]
        ELSE LET deeper == compared[n - 1]
             IN  [p \in (DOMAIN heap) \X DOMAIN heap |-> ComparedLists(heap[p[1]], heap[p[2]], deeper)]
  IN  compared[Depth]

Compared(v, w, heap) == ComparedItems(v, w, ComparedArrays(heap))

(* A mistake for the properties to find, as are all with such a name: an    *)
(* array is the same as a longer one.                                       *)
WrongEquality(op, v, w, heap) ==
  LET found == IF Is("array", v) /\ Is("array", w) /\ Len(heap[v[2]]) < Len(heap[w[2]])
               THEN Compared(v, v, heap) ELSE Compared(v, w, heap)
  IN  IF found = "overflow" THEN Overflows ELSE Got(Bool((found = "same") = (op = "==")))

Equality(op, v, w, heap) ==
  LET found == Compared(v, w, heap)
  IN  IF found = "overflow" THEN Overflows ELSE Got(Bool((found = "same") = (op = "==")))

(* contains: ends with the first item that is the same. *)
Holds(a, v, heap) ==
  LET items == heap[a]
      found == {i \in DOMAIN items : Compared(items[i], v, heap) # "different"}
  IN  IF found = {} THEN Got(Bool(FALSE))
      ELSE IF Compared(items[Min(found)], v, heap) = "same" THEN Got(Bool(TRUE)) ELSE Overflows

(* The text of a value; that of an array has those of its items in it.      *)
Flat(heap) ==
  LET flat[n \in 0 .. Depth] ==
        IF n = 0 THEN {}
        ELSE LET inner == flat[n - 1]
             IN  {a \in DOMAIN heap : \A i \in DOMAIN heap[a] : Is("array", heap[a][i]) => heap[a][i][2] \in inner}
  IN  flat[Depth]

TextOf(v, heap) ==
  CASE Is("string", v)                         -> Got(v)
    [] Is("array", v) /\ v[2] \notin Flat(heap) -> Overflows
    [] OTHER                                   -> Got(Text(Spelled(v)))

-----------------------------------------------------------------------------
(***************************************************************************)
(* A prototype of a kind operates; get_prototype has todo!() for the       *)
(* kinds without one.  One operation more stands for those but +.          *)
(***************************************************************************)

Prototypes == {"number", "string", "array", "object"}

Operate(kind, op, v, w, heap) ==
  CASE kind \notin Prototypes                       -> Panics
    [] kind = "number"                              ->
         IF Is("number", v) /\ Is("number", w)
         THEN Got(Number(IF op = "+" THEN v[2] + w[2] ELSE v[2] - w[2])) ELSE Failed
    [] kind = "string" /\ op = "+" /\ Is("string", v) ->
         LET text == TextOf(w, heap) IN IF text.status = "ok" THEN Got(Text(v[2] \o text.value[2])) ELSE text
    [] OTHER                                        -> Failed

(* The left side's prototype operates. *)
Binary(op, v, w, heap) == Operate(v[1], op, v, w, heap)

(* The sides swapped. *)
WrongCompound(op, v, w, heap) == IF op = "=" THEN Got(w) ELSE Operate(v[1], op, w, v, heap)

(* In an assignment v op= w, the right side's. *)
Compound(op, v, w, heap) == IF op = "=" THEN Got(w) ELSE Operate(w[1], op, v, w, heap)

=============================================================================
