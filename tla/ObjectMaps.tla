----------------------------- MODULE ObjectMaps -----------------------------
(***************************************************************************)
(* What an NLF program may rely on when it uses objects: every object is a *)
(* map from property names to values of its own, whatever the interpreter  *)
(* does to store it.  Module Objects is the storage; it is shown to        *)
(* implement this module for programs that insert properties in one order. *)
(***************************************************************************)

CONSTANTS
  Key,       (* Property names.                                  *)
  Value,     (* Runtime values a property can hold.              *)
  Ref,       (* The references a program may create objects for. *)
  NoObject   (* Content of a reference not created yet.          *)

VARIABLE content   (* content[o]: the properties of object o. *)

Map == UNION {[S -> Value] : S \in SUBSET Key}

Init == content = [o \in Ref |-> NoObject]

(* A literal, an instance, a binding: a new object with the given entries. *)
Create(o, entries) ==
  /\ content[o] = NoObject
  /\ content' = [content EXCEPT ![o] = entries]

(* object.key = value changes that property and no other. *)
Put(o, k, v) ==
  /\ content[o] # NoObject
  /\ content' = [content EXCEPT ![o] =
       [j \in DOMAIN content[o] \cup {k} |-> IF j = k THEN v ELSE content[o][j]]]

(* A conversion there and back gives a second object with equal properties. *)
Duplicate(from, to) ==
  /\ content[from] # NoObject
  /\ content[to] = NoObject
  /\ content' = [content EXCEPT ![to] = content[from]]

Next ==
  \/ \E o \in Ref, entries \in Map : Create(o, entries)
  \/ \E o \in Ref, k \in Key, v \in Value : Put(o, k, v)
  \/ \E from, to \in Ref : Duplicate(from, to)

Spec == Init /\ [][Next]_content

=============================================================================
