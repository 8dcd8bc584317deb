------------------------------ MODULE Objects ------------------------------
(***************************************************************************)
(* How the interpreter stores objects (core/src/interpreter.rs, with       *)
(* SchemaStore in shared/src/lib.rs).  An object holds only its values and *)
(* the id of a schema; the schema, shared by all the objects of the        *)
(* program, lists the keys, and a property is read at the position of its  *)
(* key in the schema.  Schemas are interned: get_schema looks for one with *)
(* equal keys before it appends a new one.  Equality is that of IndexSet,  *)
(* which ignores order; the values stay in the order of the object that    *)
(* asked.                                                                  *)
(***************************************************************************)
EXTENDS Integers, Sequences, SequencesExt

CONSTANTS
  Key,       (* Property names, numbered in some fixed order.               *)
  Value,     (* Runtime values, opaque to the store.                        *)
  Kept,      (* Those that json and addons give back unchanged: not the     *)
             (* functions, nor the negative integers, which json.stringify  *)
             (* turns into 0.                                               *)
  Ref,       (* The references a program may create objects for.            *)
  NoObject,  (* Content of a reference not created yet.                     *)
  Literals   (* The key orders in which the program's literals, classes,    *)
             (* bindings and parsed documents list their entries: sequences *)
             (* without repetition, being the keys of an IndexMap.          *)

(* The keys of an IndexSet or an IndexMap: no key twice. *)
NoRepeat(ks) == \A i, j \in DOMAIN ks : ks[i] = ks[j] => i = j

ASSUME KeyAssumption == Key \subseteq Int
ASSUME KeptAssumption == Kept \subseteq Value
ASSUME NoObjectAssumption == NoObject \notin [schema_id : Nat, values : Seq(Value)]
ASSUME NoMapAssumption == NoObject \notin UNION {[S -> Value] : S \in SUBSET Key}
ASSUME LiteralsAssumption == \A ks \in Literals : ks \in Seq(Key) /\ NoRepeat(ks)

VARIABLES
  schemas,   (* SchemaStore.schemas: a sequence that only get_schema extends. *)
  object     (* object[o]: the schema id and the values of object o.          *)

vars == <<schemas, object>>

Schema == [id : Nat, keys : Seq(Key)]
Object == [schema_id : Nat, values : Seq(Value)]

Created(o) == object[o] # NoObject

(***************************************************************************)
(* Looking schemas up.                                                     *)
(***************************************************************************)

(* The first position of a set of positions: what iter().find returns. *)
First(P) == CHOOSE i \in P : \A j \in P : i <= j

(* A mistake for the properties to find, here and below with names that     *)
(* start with Wrong: keys compared by their number only.                    *)
WrongMatching(ks) == {i \in DOMAIN schemas : Len(schemas[i].keys) = Len(ks)}

(* The schemas get_schema accepts for these keys: equal as sets. *)
Matching(ks) == {i \in DOMAIN schemas : ToSet(schemas[i].keys) = ToSet(ks)}

(* A known schema is not returned where it was found but from the front. *)
WrongGetSchema(ks) ==
  IF Matching(ks) = {} THEN [id |-> Len(schemas), keys |-> ks] ELSE schemas[1]

(* The schema get_schema returns, and the store it leaves. *)
GetSchema(ks) ==
  IF Matching(ks) = {} THEN [id |-> Len(schemas), keys |-> ks]
                       ELSE schemas[First(Matching(ks))]

(* The new schema is not pushed; one is pushed when it exists already. *)
WrongNoPush(ks) == schemas
WrongPush(ks) == Append(schemas, GetSchema(ks))

Interned(ks) ==
  IF Matching(ks) = {} THEN Append(schemas, GetSchema(ks)) ELSE schemas

(* The keys of an object, found through its schema id, and their positions. *)
KeysOf(o) ==
  schemas[First({i \in DOMAIN schemas : schemas[i].id = object[o].schema_id})].keys

Position(ks, k) == First({i \in DOMAIN ks : ks[i] = k})

(* ObjectRef::get for a key the object has, and ObjectRef::fetch. *)
Get(o, k) == object[o].values[Position(KeysOf(o), k)]

Fetch(o) ==
  IF Created(o) THEN [k \in ToSet(KeysOf(o)) |-> Get(o, k)] ELSE NoObject

(***************************************************************************)
(* The operations.                                                         *)
(***************************************************************************)

Init ==
  /\ schemas = << >>
  /\ object = [o \in Ref |-> NoObject]

(* Object o now has these values under the schema of these keys. *)
Store(o, ks, vals) ==
  /\ schemas' = Interned(ks)
  /\ object' = [object EXCEPT ![o] = [schema_id |-> GetSchema(ks).id, values |-> vals]]

(* ObjectRef::new: an object literal, a class instance, binding(), addon(). *)
New(o, ks, vals) ==
  /\ ~Created(o)
  /\ Store(o, ks, vals)

(* The keys and the values ObjectRef::set computes before it asks for the   *)
(* schema: the key inserted (a no-op when present), the value pushed or     *)
(* overwritten depending on the position of the key.                        *)
WithKey(o, k) == IF k \in ToSet(KeysOf(o)) THEN KeysOf(o) ELSE Append(KeysOf(o), k)

(* One too far, and one too near, for the position a value is pushed at. *)
WrongFar(o, k, v) ==
  LET index == Position(WithKey(o, k), k)
  IN  IF index > Len(object[o].values) + 1
        THEN Append(object[o].values, v)
        ELSE [object[o].values EXCEPT ![index] = v]

WrongNear(o, k, v) ==
  LET index == Position(WithKey(o, k), k)
  IN  IF index >= Len(object[o].values)
        THEN Append(object[o].values, v)
        ELSE [object[o].values EXCEPT ![index] = v]

WithValue(o, k, v) ==
  LET index == Position(WithKey(o, k), k)
  IN  IF index > Len(object[o].values)
        THEN Append(object[o].values, v)
        ELSE [object[o].values EXCEPT ![index] = v]

(* ObjectRef::set, reached by o.k = v and, with the operand combined with   *)
(* Get(o, k) first, by o.k += v.                                            *)
Set(o, k, v) ==
  /\ Created(o)
  /\ Store(o, WithKey(o, k), WithValue(o, k, v))

(* json.parse(json.stringify(o)), or a trip through an addon, of an object  *)
(* whose values survive it: the entries fetch returns, in its order, given  *)
(* to ObjectRef::new.                                                       *)
Copy(from, to) ==
  /\ Created(from)
  /\ \A i \in DOMAIN object[from].values : object[from].values[i] \in Kept
  /\ New(to, KeysOf(from), object[from].values)

Next ==
  \/ \E o \in Ref, ks \in Literals : \E vals \in [DOMAIN ks -> Value] : New(o, ks, vals)
  \/ \E o \in Ref, k \in Key, v \in Value : Set(o, k, v)
  \/ \E from, to \in Ref : Copy(from, to)

Spec == Init /\ [][Next]_vars

(***************************************************************************)
(* Programs that insert properties in one order: every literal lists its   *)
(* keys in increasing order and an assignment adds only a key that comes   *)
(* after those the object has.                                             *)
(***************************************************************************)

InOrder(ks) == \A i, j \in DOMAIN ks : i < j => ks[i] < ks[j]

OrderedNext ==
  \/ \E o \in Ref, ks \in Literals : \E vals \in [DOMAIN ks -> Value] :
        InOrder(ks) /\ New(o, ks, vals)
  \/ \E o \in Ref, k \in Key, v \in Value :
        Created(o) /\ InOrder(WithKey(o, k)) /\ Set(o, k, v)
  \/ \E from, to \in Ref : Copy(from, to)

OrderedSpec == Init /\ [][OrderedNext]_vars

-----------------------------------------------------------------------------
(***************************************************************************)
(* Properties.                                                             *)
(***************************************************************************)

(* The schemas and the objects have their types, and every schema_id names  *)
(* a schema of the store, so that expect("Schema not found") cannot panic.  *)
TypeOK ==
  /\ schemas \in Seq(Schema)
  /\ object \in [Ref -> Object \cup {NoObject}]
  /\ \A o \in Ref : Created(o) => object[o].schema_id \in 0 .. Len(schemas) - 1

IsTable(S) ==
  /\ \A i \in DOMAIN S : S[i].id = i - 1
  /\ \A i \in DOMAIN S : NoRepeat(S[i].keys)
  /\ \A i, j \in DOMAIN S : ToSet(S[i].keys) = ToSet(S[j].keys) => i = j

(* The store interns: a schema's id is its position, no schema repeats a    *)
(* key, and no two schemas have the same keys in any order, so that find by *)
(* id and find by keys each have one answer.                                *)
SchemaTable == IsTable(schemas)

(* An object has one value per key of its schema: object.values[index] in   *)
(* get and fetch is never out of bounds, and no value is out of reach.      *)
OneValuePerKey ==
  \A o \in Ref : Created(o) => Len(object[o].values) = Len(KeysOf(o))

(* Assigning a property the object already has reads back as the value      *)
(* assigned and leaves every other property of every object as it was, in   *)
(* whatever orders the program's objects were built.                        *)
Overwrites ==
  \A o \in Ref, k \in Key, v \in Value :
    Created(o) /\ k \in ToSet(KeysOf(o)) /\ Set(o, k, v) =>
      /\ Fetch(o)' = [Fetch(o) EXCEPT ![k] = v]
      /\ \A p \in Ref \ {o} : Fetch(p)' = Fetch(p)

OverwriteInPlace == [][Overwrites]_vars

(* Adding a property gives the object exactly the keys it had and the new   *)
(* one, loses none of its values and disturbs no other object, in whatever  *)
(* orders the program's objects were built (the values may end up under     *)
(* other keys of the same object: see WrittenReadsBack).                    *)
Adds ==
  \A o \in Ref, k \in Key, v \in Value :
    Created(o) /\ k \notin ToSet(KeysOf(o)) /\ Set(o, k, v) =>
      /\ ToSet(KeysOf(o))' = ToSet(KeysOf(o)) \cup {k}
      /\ object[o].values' = Append(object[o].values, v)
      /\ \A p \in Ref \ {o} : Fetch(p)' = Fetch(p)

AddKeepsEntries == [][Adds]_vars

(* An object rebuilt from what fetch returns equals the original:           *)
(* core/tests/json.nlf asserts json.parse(json.stringify(object)) == object *)
(* and == compares what fetch returns.                                      *)
Copies ==
  \A from, to \in Ref : Copy(from, to) => Fetch(to)' = Fetch(from)

CopyEqualsOriginal == [][Copies]_vars

(* An object reads back what it was created with and what was assigned to   *)
(* it, as core/tests/objects.nlf and core/tests/classes.nlf expect.         *)
ReadsBack ==
  /\ \A o \in Ref, ks \in Literals : \A vals \in [DOMAIN ks -> Value] :
       New(o, ks, vals) => \A i \in DOMAIN ks : Get(o, ks[i])' = vals[i]
  /\ \A o \in Ref, k \in Key, v \in Value : Set(o, k, v) => Get(o, k)' = v

WrittenReadsBack == [][ReadsBack]_vars

(* The objects of a program that inserts in order are maps.                 *)
Maps == INSTANCE ObjectMaps WITH content <- [o \in Ref |-> Fetch(o)]

ObjectsAreMaps == Maps!Spec

=============================================================================
