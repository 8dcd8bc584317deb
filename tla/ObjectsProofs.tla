--------------------------- MODULE ObjectsProofs ---------------------------
(***************************************************************************)
(* Proofs about Objects for every set of keys, values and references and   *)
(* every program: the store stays a table of interned schemas, reads are   *)
(* never out of bounds, overwriting a property is exact, and a program     *)
(* that inserts properties in one order sees its objects as maps.          *)
(***************************************************************************)
EXTENDS
  Objects, SequenceTheorems, FiniteSetTheorems, FunctionTheorems, WellFoundedInduction, TLAPS

-----------------------------------------------------------------------------
(***************************************************************************)
(* A fact about numbers.                                                   *)
(***************************************************************************)

(* The least element of a set of naturals: what induction is done with.    *)
LEMMA LeastNatural ==
  ASSUME NEW T, T \subseteq Nat, T # {}
  PROVE  \E m \in T : \A n \in T : m <= n
<1> DEFINE R == {p \in Nat \X Nat : p[1] < p[2]}
<1>1. IsWellFoundedOn(R, Nat)
  BY NatLessThanWellFounded DEF OpToRel
<1> HIDE DEF R
<1>2. PICK m \in T : \A n \in T : <<n, m>> \notin R
  BY <1>1, WFMin
<1>3. \A n \in T : ~(n < m)
  BY <1>2 DEF R
<1>4. QED
  BY <1>3

(***************************************************************************)
(* Sequences of keys.                                                      *)
(***************************************************************************)

(* iter().find over positions of which only one matches returns that one. *)
LEMMA FirstOfOne ==
  ASSUME NEW P, NEW i \in Int, P = {i}
  PROVE  First(P) = i
BY DEF First

(* A sequence without repetition is a bijection onto its elements. *)
LEMMA KeysBijection ==
  ASSUME NEW S, NEW s \in Seq(S), NoRepeat(s)
  PROVE  s \in Bijection(1 .. Len(s), ToSet(s))
<1>1. s \in [1 .. Len(s) -> ToSet(s)]
  BY LenProperties DEF ToSet
<1>2. \A t \in ToSet(s) : \E i \in 1 .. Len(s) : s[i] = t
  BY LenProperties DEF ToSet
<1>3. \A i, j \in 1 .. Len(s) : s[i] = s[j] => i = j
  BY LenProperties DEF NoRepeat
<1>4. QED
  BY <1>1, <1>2, <1>3, Fun_IsBij

(* Two sequences without repetition and with the same elements have the    *)
(* same length: swapping one schema for the other keeps one value per key. *)
LEMMA SameKeysSameLength ==
  ASSUME NEW S, NEW s \in Seq(S), NEW t \in Seq(S),
         NoRepeat(s), NoRepeat(t), ToSet(s) = ToSet(t)
  PROVE  Len(s) = Len(t)
<1>1. /\ ExistsBijection(1 .. Len(s), ToSet(s))
      /\ ExistsBijection(1 .. Len(t), ToSet(s))
  BY KeysBijection DEF ExistsBijection
<1>2. Len(s) \in Nat /\ Len(t) \in Nat
  BY LenProperties
<1>3. QED
  BY <1>1, <1>2, Fun_NatBijSame

(* The position of a key the sequence has. *)
LEMMA PositionOfKey ==
  ASSUME NEW S, NEW s \in Seq(S), NoRepeat(s), NEW i \in 1 .. Len(s)
  PROVE  Position(s, s[i]) = i
<1>1. {j \in DOMAIN s : s[j] = s[i]} = {i}
  BY LenProperties DEF NoRepeat
<1>2. QED
  BY <1>1, FirstOfOne DEF Position

(***************************************************************************)
(* The store.                                                              *)
(***************************************************************************)

(* The inductive invariant: no conjunct is preserved without the others.   *)
(* Lengths stay equal because schemas do not repeat keys, and the schema   *)
(* found by id is the one stored because ids are positions.                *)
IInv == TypeOK /\ SchemaTable /\ OneValuePerKey

(* Lookup by id finds the schema at that position. *)
Found ==
  \A o \in Ref : Created(o) =>
    /\ object[o] \in Object
    /\ object[o].schema_id + 1 \in DOMAIN schemas
    /\ KeysOf(o) = schemas[object[o].schema_id + 1].keys
    /\ KeysOf(o) \in Seq(Key)
    /\ NoRepeat(KeysOf(o))

(* Every lookup by id finds the object's schema, in every good state. *)
LEMMA KeysOfFound == TypeOK /\ SchemaTable => Found
<1> SUFFICES ASSUME TypeOK, SchemaTable, NEW o \in Ref, Created(o)
             PROVE  /\ object[o] \in Object
                    /\ object[o].schema_id + 1 \in DOMAIN schemas
                    /\ KeysOf(o) = schemas[object[o].schema_id + 1].keys
                    /\ KeysOf(o) \in Seq(Key)
                    /\ NoRepeat(KeysOf(o))
  BY DEF Found
<1> DEFINE n == object[o].schema_id + 1
<1>1. object[o] \in Object /\ object[o].schema_id \in 0 .. Len(schemas) - 1
  BY DEF TypeOK, Created
<1>2. n \in Int /\ n \in DOMAIN schemas /\ schemas[n] \in Schema
  BY <1>1, LenProperties, ElementOfSeq DEF TypeOK, Object
<1>3. {i \in DOMAIN schemas : schemas[i].id = object[o].schema_id} = {n}
  BY <1>1, <1>2, LenProperties DEF TypeOK, SchemaTable, IsTable, Object
<1>4. First({i \in DOMAIN schemas : schemas[i].id = object[o].schema_id}) = n
  BY <1>2, <1>3, FirstOfOne
<1>5. KeysOf(o) = schemas[n].keys
  BY <1>4 DEF KeysOf
<1>6. QED
  BY <1>1, <1>2, <1>5 DEF SchemaTable, IsTable, Schema

(* What get_schema returns and leaves behind. *)
LEMMA Interning ==
  ASSUME TypeOK, SchemaTable, NEW ks \in Seq(Key), NoRepeat(ks)
  PROVE  /\ Interned(ks) \in Seq(Schema)
         /\ IsTable(Interned(ks))
         /\ Len(Interned(ks)) >= Len(schemas)
         /\ \A i \in DOMAIN schemas : Interned(ks)[i] = schemas[i]
         /\ GetSchema(ks) \in Schema
         /\ GetSchema(ks).id \in 0 .. Len(Interned(ks)) - 1
         /\ Interned(ks)[GetSchema(ks).id + 1] = GetSchema(ks)
         /\ NoRepeat(GetSchema(ks).keys)
         /\ ToSet(GetSchema(ks).keys) = ToSet(ks)
         /\ Len(GetSchema(ks).keys) = Len(ks)
<1> DEFINE G == GetSchema(ks)
           S == Interned(ks)
<1>1. /\ schemas \in Seq(Schema)
      /\ Len(schemas) \in Nat
      /\ DOMAIN schemas = 1 .. Len(schemas)
      /\ IsTable(schemas)
  BY LenProperties DEF TypeOK, SchemaTable
<1>2. CASE Matching(ks) = {}
  <2>1. G = [id |-> Len(schemas), keys |-> ks] /\ S = Append(schemas, G)
    BY <1>2 DEF GetSchema, Interned
  <2>2. G \in Schema
    BY <1>1, <2>1 DEF Schema
  <2>3. /\ S \in Seq(Schema)
        /\ Len(S) = Len(schemas) + 1
        /\ DOMAIN S = 1 .. Len(S)
        /\ \A i \in DOMAIN schemas : S[i] = schemas[i]
        /\ S[Len(schemas) + 1] = G
    <3> HIDE DEF G
    <3>1. QED
      BY <1>1, <2>1, <2>2, AppendProperties, LenProperties
  <2>4. \A i \in DOMAIN schemas : ToSet(schemas[i].keys) # ToSet(G.keys)
    BY <1>2, <2>1 DEF Matching
  <2>5. \A i \in DOMAIN S : i \in DOMAIN schemas \/ i = Len(schemas) + 1
    BY <1>1, <2>3
  <2>6. IsTable(S)
    <3> HIDE DEF S
    <3>1. \A i \in DOMAIN S : S[i].id = i - 1
      BY <1>1, <2>1, <2>3, <2>5 DEF IsTable
    <3>2. \A i \in DOMAIN S : NoRepeat(S[i].keys)
      BY <1>1, <2>1, <2>3, <2>5 DEF IsTable
    <3>3. \A i, j \in DOMAIN S : ToSet(S[i].keys) = ToSet(S[j].keys) => i = j
      BY <1>1, <2>3, <2>4, <2>5 DEF IsTable
    <3>4. QED
      BY <3>1, <3>2, <3>3 DEF IsTable
  <2>7. QED
    BY <1>1, <2>1, <2>2, <2>3, <2>6
<1>3. CASE Matching(ks) # {}
  <2>1. PICK n \in DOMAIN schemas : ToSet(schemas[n].keys) = ToSet(ks)
    BY <1>3 DEF Matching
  <2>2. Matching(ks) = {n}
    BY <1>1, <2>1 DEF Matching, IsTable
  <2>3. G = schemas[n] /\ S = schemas
    <3>1. n \in Int
      BY <1>1
    <3>2. First(Matching(ks)) = n
      BY <2>2, <3>1, FirstOfOne
    <3>3. QED
      BY <1>3, <3>2 DEF GetSchema, Interned
  <2>4. G \in Schema /\ G.id = n - 1 /\ NoRepeat(G.keys)
    BY <1>1, <2>3, ElementOfSeq DEF IsTable
  <2>5. Len(G.keys) = Len(ks)
    BY <2>1, <2>3, <2>4, SameKeysSameLength DEF Schema
  <2>6. QED
    BY <1>1, <2>1, <2>3, <2>4, <2>5
<1>4. QED
  BY <1>2, <1>3

(* The step every operation ends with: store values under the schema of    *)
(* keys they fit.  It keeps the invariant, and the other objects keep both *)
(* their values and their keys, because schemas only grow at the end.      *)
LEMMA StoreStep ==
  ASSUME IInv, NEW o \in Ref, NEW ks \in Seq(Key), NoRepeat(ks),
         NEW vals \in Seq(Value), Len(vals) = Len(ks), Store(o, ks, vals)
  PROVE  /\ IInv'
         /\ Created(o)' /\ object'[o].values = vals
         /\ KeysOf(o)' = GetSchema(ks).keys
         /\ \A p \in Ref \ {o} : /\ object'[p] = object[p]
                                 /\ Created(p) => KeysOf(p)' = KeysOf(p)
<1> DEFINE G == GetSchema(ks)
           S == Interned(ks)
           new == [schema_id |-> G.id, values |-> vals]
<1>1. /\ S \in Seq(Schema)
      /\ IsTable(S)
      /\ Len(schemas) \in Nat /\ Len(S) \in Nat /\ Len(S) >= Len(schemas)
      /\ DOMAIN schemas = 1 .. Len(schemas) /\ DOMAIN S = 1 .. Len(S)
      /\ \A i \in DOMAIN schemas : S[i] = schemas[i]
      /\ G.id \in 0 .. Len(S) - 1
      /\ S[G.id + 1] = G
      /\ Len(G.keys) = Len(ks)
  BY Interning, LenProperties DEF IInv, TypeOK
<1>2. schemas' = S /\ object' = [object EXCEPT ![o] = new]
  BY DEF Store
<1>3. object \in [Ref -> Object \cup {NoObject}]
  BY DEF IInv, TypeOK
<1> HIDE DEF G, S
<1>4. new \in Object /\ new # NoObject
  BY <1>1, NoObjectAssumption DEF Object
<1>5. object'[o] = new /\ \A p \in Ref \ {o} : object'[p] = object[p]
  BY <1>2, <1>3
<1>6. TypeOK'
  <2>1. object' \in [Ref -> Object \cup {NoObject}]
    BY <1>2, <1>3, <1>4
  <2>2. \A p \in Ref : Created(p)' => object'[p].schema_id \in 0 .. Len(schemas') - 1
    <3> SUFFICES ASSUME NEW p \in Ref, Created(p)'
                 PROVE  object'[p].schema_id \in 0 .. Len(S) - 1
      BY <1>2
    <3>1. CASE p = o
      BY <1>1, <1>5, <3>1
    <3>2. CASE p # o
      BY <1>1, <1>5, <3>2 DEF IInv, TypeOK, Created
    <3>3. QED
      BY <3>1, <3>2
  <2>3. QED
    BY <1>1, <1>2, <2>1, <2>2 DEF TypeOK
<1>7. SchemaTable'
  BY <1>1, <1>2 DEF SchemaTable
<1>8. Found'
  BY <1>6, <1>7, KeysOfFound, PTL
<1>9. KeysOf(o)' = G.keys /\ Created(o)'
  BY <1>1, <1>2, <1>4, <1>5, <1>8 DEF Created, Found
<1>10. \A p \in Ref \ {o} : Created(p) => Created(p)' /\ KeysOf(p)' = KeysOf(p)
  <2> SUFFICES ASSUME NEW p \in Ref \ {o}, Created(p)
               PROVE  Created(p)' /\ KeysOf(p)' = KeysOf(p)
    OBVIOUS
  <2>1. Created(p)' /\ object'[p] = object[p]
    BY <1>5 DEF Created
  <2>2. /\ object[p].schema_id + 1 \in DOMAIN schemas
        /\ KeysOf(p) = schemas[object[p].schema_id + 1].keys
    BY KeysOfFound DEF IInv, Found
  <2>3. KeysOf(p)' = S[object[p].schema_id + 1].keys
    BY <1>2, <1>8, <2>1 DEF Found
  <2>4. QED
    BY <1>1, <2>1, <2>2, <2>3
<1>11. OneValuePerKey'
  <2> SUFFICES ASSUME NEW p \in Ref, Created(p)'
               PROVE  Len(object'[p].values) = Len(KeysOf(p)')
    BY DEF OneValuePerKey
  <2>1. CASE p = o
    BY <1>1, <1>5, <1>9, <2>1
  <2>2. CASE p # o
    BY <1>5, <1>10, <2>2 DEF IInv, OneValuePerKey, Created
  <2>3. QED
    BY <2>1, <2>2
<1>12. QED
  BY <1>5, <1>6, <1>7, <1>9, <1>10, <1>11 DEF IInv, G

(***************************************************************************)
(* The operations.                                                         *)
(***************************************************************************)

(* What ObjectRef::set passes to get_schema: keys without repetition, and  *)
(* one value for each.                                                     *)
LEMMA SetArguments ==
  ASSUME IInv, NEW o \in Ref, NEW k \in Key, NEW v \in Value, Created(o)
  PROVE  /\ WithKey(o, k) \in Seq(Key)
         /\ NoRepeat(WithKey(o, k))
         /\ ToSet(WithKey(o, k)) = ToSet(KeysOf(o)) \cup {k}
         /\ WithValue(o, k, v) \in Seq(Value)
         /\ Len(WithValue(o, k, v)) = Len(WithKey(o, k))
         /\ k \in ToSet(KeysOf(o)) =>
              WithValue(o, k, v) =
                [object[o].values EXCEPT ![Position(KeysOf(o), k)] = v]
         /\ k \notin ToSet(KeysOf(o)) =>
              WithValue(o, k, v) = Append(object[o].values, v)
<1> DEFINE keys == KeysOf(o)
           old == object[o].values
<1>1. /\ keys \in Seq(Key) /\ NoRepeat(keys)
      /\ old \in Seq(Value)
      /\ Len(old) = Len(keys) /\ Len(keys) \in Nat
      /\ DOMAIN keys = 1 .. Len(keys) /\ DOMAIN old = 1 .. Len(keys)
  BY KeysOfFound, LenProperties DEF IInv, Found, Object, OneValuePerKey
<1> HIDE DEF keys, old
<1>2. CASE k \in ToSet(keys)
  <2>1. PICK i \in 1 .. Len(keys) : keys[i] = k
    BY <1>1, <1>2 DEF ToSet
  <2>2. WithKey(o, k) = keys
    BY <1>2 DEF WithKey, keys
  <2>3. Position(keys, k) = i
    BY <1>1, <2>1, PositionOfKey
  <2>4. WithValue(o, k, v) = [old EXCEPT ![i] = v]
    BY <1>1, <2>2, <2>3 DEF WithValue, old
  <2>5. /\ [old EXCEPT ![i] = v] \in Seq(Value)
        /\ Len([old EXCEPT ![i] = v]) = Len(keys)
    BY <1>1, ExceptSeq
  <2>6. QED
    BY <1>1, <1>2, <2>2, <2>3, <2>4, <2>5 DEF keys, old
<1>3. CASE k \notin ToSet(keys)
  <2>1. WithKey(o, k) = Append(keys, k)
    BY <1>3 DEF WithKey, keys
  <2>2. /\ Append(keys, k) \in Seq(Key)
        /\ Len(Append(keys, k)) = Len(keys) + 1
        /\ DOMAIN Append(keys, k) = 1 .. Len(keys) + 1
        /\ \A i \in 1 .. Len(keys) : Append(keys, k)[i] = keys[i]
        /\ Append(keys, k)[Len(keys) + 1] = k
    BY <1>1, AppendProperties, LenProperties
  <2>3. \A i \in 1 .. Len(keys) : keys[i] # k
    BY <1>1, <1>3 DEF ToSet
  <2>4. NoRepeat(Append(keys, k))
    BY <1>1, <2>2, <2>3 DEF NoRepeat
  <2>5. ToSet(Append(keys, k)) = ToSet(keys) \cup {k}
    BY <1>1, <2>2 DEF ToSet
  <2>6. Position(Append(keys, k), k) = Len(keys) + 1
    <3>1. Len(keys) + 1 \in 1 .. Len(Append(keys, k))
      BY <1>1, <2>2
    <3>2. QED
      BY <2>2, <2>4, <3>1, PositionOfKey
  <2>7. WithValue(o, k, v) = Append(old, v)
    BY <1>1, <2>1, <2>6 DEF WithValue, old
  <2>8. Append(old, v) \in Seq(Value) /\ Len(Append(old, v)) = Len(keys) + 1
    BY <1>1, AppendProperties
  <2>9. QED
    BY <1>3, <2>1, <2>2, <2>4, <2>5, <2>7, <2>8 DEF keys, old
<1>4. QED
  BY <1>2, <1>3

(* ObjectRef::new keeps the invariant. *)
LEMMA NewStep ==
  ASSUME IInv, NEW o \in Ref, NEW ks \in Seq(Key), NoRepeat(ks),
         NEW vals \in Seq(Value), Len(vals) = Len(ks), New(o, ks, vals)
  PROVE  IInv'
BY StoreStep DEF New

(* ObjectRef::set keeps the invariant. *)
LEMMA SetStep ==
  ASSUME IInv, NEW o \in Ref, NEW k \in Key, NEW v \in Value, Set(o, k, v)
  PROVE  IInv'
<1>1. Created(o) /\ Store(o, WithKey(o, k), WithValue(o, k, v))
  BY DEF Set
<1>2. QED
  BY <1>1, SetArguments, StoreStep

(* Rebuilding an object from what fetch returns keeps the invariant. *)
LEMMA CopyStep ==
  ASSUME IInv, NEW from \in Ref, NEW to \in Ref, Copy(from, to)
  PROVE  IInv'
<1>1. Created(from) /\ New(to, KeysOf(from), object[from].values)
  BY DEF Copy
<1>2. /\ KeysOf(from) \in Seq(Key) /\ NoRepeat(KeysOf(from))
      /\ object[from].values \in Seq(Value)
      /\ Len(object[from].values) = Len(KeysOf(from))
  BY <1>1, KeysOfFound DEF IInv, Found, Object, OneValuePerKey
<1>3. QED
  BY <1>1, <1>2, NewStep

(* The empty store.                                                        *)
LEMMA InitiallyIInv == Init => IInv
<1> SUFFICES ASSUME Init
             PROVE  IInv
  OBVIOUS
<1>1. schemas = << >> /\ object = [o \in Ref |-> NoObject]
  BY DEF Init
<1>2. DOMAIN schemas = {}
  BY <1>1, LenProperties, EmptySeq
<1>3. QED
  BY <1>1, <1>2, EmptySeq DEF IInv, TypeOK, SchemaTable, IsTable, OneValuePerKey, Created

(* In every state of every program: reads cannot fail to find a schema or  *)
(* run past the values, and the store holds one schema per set of keys.    *)
LEMMA Invariance == Spec => []IInv
<1>1. Init => IInv
  BY InitiallyIInv
<1>2. IInv /\ [Next]_vars => IInv'
  <2> SUFFICES ASSUME IInv, [Next]_vars
               PROVE  IInv'
    OBVIOUS
  <2>1. ASSUME NEW o \in Ref, NEW ks \in Literals, NEW vals \in [DOMAIN ks -> Value],
               New(o, ks, vals)
        PROVE  IInv'
    <3>1. ks \in Seq(Key) /\ NoRepeat(ks) /\ Len(ks) \in Nat /\ DOMAIN ks = 1 .. Len(ks)
      BY LiteralsAssumption, LenProperties
    <3>2. vals \in Seq(Value) /\ Len(vals) = Len(ks)
      BY <3>1, SeqDef, LenProperties
    <3>3. QED
      BY <2>1, <3>1, <3>2, NewStep
  <2>2. ASSUME NEW o \in Ref, NEW k \in Key, NEW v \in Value, Set(o, k, v)
        PROVE  IInv'
    BY <2>2, SetStep
  <2>3. ASSUME NEW from \in Ref, NEW to \in Ref, Copy(from, to)
        PROVE  IInv'
    BY <2>3, CopyStep
  <2>4. CASE UNCHANGED vars
    BY <2>4 DEF vars, IInv, TypeOK, SchemaTable, OneValuePerKey, Created, KeysOf
  <2>5. QED
    BY <2>1, <2>2, <2>3, <2>4 DEF Next
<1>3. QED
  BY <1>1, <1>2, PTL DEF Spec

(* A schema_id always names a schema: expect("Schema not found") in get,    *)
(* set and fetch cannot panic.                                             *)
THEOREM TypeCorrect == Spec => []TypeOK
BY Invariance, PTL DEF IInv

(* The store interns: find by id and find by keys have one answer each.    *)
THEOREM InternedOnce == Spec => []SchemaTable
BY Invariance, PTL DEF IInv

(* object.values[index] in get and fetch is never out of bounds.           *)
THEOREM Safety == Spec => []OneValuePerKey
BY Invariance, PTL DEF IInv

(***************************************************************************)
(* What assignments and copies do to what programs read.                   *)
(***************************************************************************)

(* Asking for the schema of an object's own keys gives that schema back.   *)
LEMMA OwnSchema ==
  ASSUME IInv, NEW o \in Ref, Created(o)
  PROVE  GetSchema(KeysOf(o)).keys = KeysOf(o)
<1> DEFINE n == object[o].schema_id + 1
           ks == KeysOf(o)
<1>1. n \in Int /\ n \in DOMAIN schemas /\ ks = schemas[n].keys
  BY KeysOfFound, LenProperties DEF IInv, TypeOK, Found
<1>2. Matching(ks) = {n}
  BY <1>1 DEF Matching, IInv, SchemaTable, IsTable
<1>3. First(Matching(ks)) = n
  BY <1>1, <1>2, FirstOfOne
<1>4. QED
  BY <1>1, <1>2, <1>3 DEF GetSchema

(* A step that overwrites changes one property of one object.              *)
LEMMA OverwriteStep == IInv => Overwrites
<1> SUFFICES ASSUME IInv, NEW o \in Ref, NEW k \in Key, NEW v \in Value,
                    Created(o), k \in ToSet(KeysOf(o)), Set(o, k, v)
             PROVE  /\ Fetch(o)' = [Fetch(o) EXCEPT ![k] = v]
                    /\ \A p \in Ref \ {o} : Fetch(p)' = Fetch(p)
  BY DEF Overwrites
<1> DEFINE keys == KeysOf(o)
           old == object[o].values
           new == WithValue(o, k, v)
<1>1. /\ keys \in Seq(Key) /\ NoRepeat(keys)
      /\ old \in Seq(Value)
      /\ Len(old) = Len(keys)
      /\ DOMAIN old = 1 .. Len(keys)
  BY KeysOfFound, LenProperties DEF IInv, Found, Object, OneValuePerKey
<1>2. WithKey(o, k) = keys
  BY DEF WithKey
<1>3. new = [old EXCEPT ![Position(keys, k)] = v]
  BY SetArguments
<1>4. /\ Created(o)' /\ object'[o].values = new
      /\ KeysOf(o)' = keys
      /\ \A p \in Ref \ {o} : /\ object'[p] = object[p]
                              /\ Created(p) => KeysOf(p)' = KeysOf(p)
  BY <1>2, SetArguments, StoreStep, OwnSchema DEF Set
<1>5. \A j \in ToSet(keys) : /\ Position(keys, j) \in 1 .. Len(keys)
                             /\ Position(keys, j) = Position(keys, k) => j = k
  <2>1. \A j \in ToSet(keys) : \E i \in 1 .. Len(keys) : keys[i] = j
    BY <1>1, LenProperties DEF ToSet
  <2>2. \A i \in 1 .. Len(keys) : Position(keys, keys[i]) = i
    BY <1>1, PositionOfKey
  <2>3. QED
    BY <2>1, <2>2
<1>6. \A j \in ToSet(keys) : Get(o, j)' = IF j = k THEN v ELSE Get(o, j)
  <2> HIDE DEF keys, old, new
  <2>1. \A j \in ToSet(keys) : Get(o, j)' = new[Position(keys, j)]
    BY <1>4 DEF Get
  <2>2. \A j \in ToSet(keys) : Get(o, j) = old[Position(keys, j)]
    BY DEF Get, keys, old
  <2>3. QED
    BY <1>1, <1>3, <1>5, <2>1, <2>2
<1>7. Fetch(o)' = [Fetch(o) EXCEPT ![k] = v]
  <2>1. Fetch(o) = [j \in ToSet(keys) |-> Get(o, j)]
    BY DEF Fetch
  <2>2. Fetch(o)' = [j \in ToSet(keys) |-> Get(o, j)']
    BY <1>4 DEF Fetch
  <2>3. QED
    BY <1>6, <2>1, <2>2
<1>8. \A p \in Ref \ {o} : Fetch(p)' = Fetch(p)
  BY <1>4 DEF Fetch, Get, Created
<1>9. QED
  BY <1>7, <1>8

(* Overwriting is exact, whatever orders the objects were built in.        *)
THEOREM Overwriting == Spec => OverwriteInPlace
BY OverwriteStep, Invariance, PTL DEF OverwriteInPlace

(* A step that copies makes the second object read as the first one does.  *)
LEMMA CopyingStep == IInv => Copies
<1> SUFFICES ASSUME IInv, NEW from \in Ref, NEW to \in Ref, Copy(from, to)
             PROVE  Fetch(to)' = Fetch(from)
  BY DEF Copies
<1> DEFINE keys == KeysOf(from)
           vals == object[from].values
<1>1. Created(from) /\ Store(to, keys, vals)
  BY DEF Copy, New
<1>2. /\ keys \in Seq(Key) /\ NoRepeat(keys)
      /\ vals \in Seq(Value) /\ Len(vals) = Len(keys)
  BY <1>1, KeysOfFound DEF IInv, Found, Object, OneValuePerKey
<1>3. GetSchema(keys).keys = keys
  BY <1>1, OwnSchema
<1> HIDE DEF keys, vals
<1>4. Created(to)' /\ object'[to].values = vals /\ KeysOf(to)' = keys
  BY <1>1, <1>2, <1>3, StoreStep
<1>5. \A k \in ToSet(keys) : Get(to, k)' = Get(from, k)
  BY <1>4 DEF Get, keys, vals
<1>6. Fetch(from) = [k \in ToSet(keys) |-> Get(from, k)]
  BY <1>1 DEF Fetch, keys
<1>7. Fetch(to)' = [k \in ToSet(keys) |-> Get(to, k)']
  BY <1>4 DEF Fetch
<1>8. QED
  BY <1>5, <1>6, <1>7

(* A copy reads back equal to its original, key by key and in its order.   *)
THEOREM Copying == Spec => CopyEqualsOriginal
BY CopyingStep, Invariance, PTL DEF CopyEqualsOriginal

(* Adding a property keeps every value the object has, adds exactly one    *)
(* key, and is invisible through every other object.                       *)
THEOREM Adding == Spec => AddKeepsEntries
<1>1. IInv => Adds
  <2> SUFFICES ASSUME IInv, NEW o \in Ref, NEW k \in Key, NEW v \in Value,
                      Created(o), k \notin ToSet(KeysOf(o)), Set(o, k, v)
               PROVE  /\ ToSet(KeysOf(o))' = ToSet(KeysOf(o)) \cup {k}
                      /\ object[o].values' = Append(object[o].values, v)
                      /\ \A p \in Ref \ {o} : Fetch(p)' = Fetch(p)
    BY DEF Adds
  <2>1. /\ object'[o].values = WithValue(o, k, v)
        /\ KeysOf(o)' = GetSchema(WithKey(o, k)).keys
        /\ \A p \in Ref \ {o} : /\ object'[p] = object[p]
                                /\ Created(p) => KeysOf(p)' = KeysOf(p)
    BY SetArguments, StoreStep DEF Set
  <2>2. ToSet(GetSchema(WithKey(o, k)).keys) = ToSet(WithKey(o, k))
    BY SetArguments, Interning DEF IInv
  <2>3. \A p \in Ref \ {o} : Fetch(p)' = Fetch(p)
    BY <2>1 DEF Fetch, Get, Created
  <2>4. QED
    BY <2>1, <2>2, <2>3, SetArguments
<1>2. QED
  BY <1>1, Invariance, PTL DEF AddKeepsEntries

(***************************************************************************)
(* The refinement: a program that inserts in one order sees maps.          *)
(***************************************************************************)

(* An increasing sequence has no element twice.                            *)
LEMMA OrderedNoRepeat ==
  ASSUME NEW s \in Seq(Key), InOrder(s)
  PROVE  NoRepeat(s)
<1>1. DOMAIN s = 1 .. Len(s) /\ Len(s) \in Nat
  BY LenProperties
<1>2. \A i \in 1 .. Len(s) : s[i] \in Key
  BY ElementOfSeq
<1>3. \A i \in DOMAIN s : i \in Int /\ s[i] \in Int
  <2>1. \A i \in 1 .. Len(s) : s[i] \in Int
    BY <1>2, KeyAssumption
  <2>2. QED
    BY <1>1, <2>1
<1>4. SUFFICES ASSUME NEW i \in DOMAIN s, NEW j \in DOMAIN s, s[i] = s[j]
               PROVE  i = j
  BY DEF NoRepeat
<1>5. ~(i < j) /\ ~(j < i)
  BY <1>3, <1>4 DEF InOrder
<1>6. QED
  BY <1>3, <1>5

(* Two increasing sequences with the same elements are the same sequence.  *)
LEMMA OneOrder ==
  ASSUME NEW s \in Seq(Key), NEW t \in Seq(Key),
         InOrder(s), InOrder(t), ToSet(s) = ToSet(t)
  PROVE  s = t
<1>1. /\ Len(s) \in Nat /\ DOMAIN s = 1 .. Len(s)
      /\ Len(t) \in Nat /\ DOMAIN t = 1 .. Len(t)
      /\ \A i \in 1 .. Len(s) : s[i] \in Int
      /\ \A i \in 1 .. Len(t) : t[i] \in Int
  <2>1. /\ \A i \in 1 .. Len(s) : s[i] \in Key
        /\ \A i \in 1 .. Len(t) : t[i] \in Key
    BY ElementOfSeq
  <2>2. QED
    BY <2>1, LenProperties, KeyAssumption
<1>2. NoRepeat(s) /\ NoRepeat(t)
  BY OrderedNoRepeat
<1>3. Len(s) = Len(t)
  BY <1>2, SameKeysSameLength
<1>4. \A i \in 1 .. Len(s) : \E j \in 1 .. Len(s) : s[i] = t[j]
  BY <1>1, <1>3 DEF ToSet
<1>5. \A i \in 1 .. Len(s) : \E j \in 1 .. Len(s) : t[i] = s[j]
  BY <1>1, <1>3 DEF ToSet
<1>6. \A i, j \in 1 .. Len(s) : i < j => s[i] < s[j] /\ t[i] < t[j]
  BY <1>1, <1>3 DEF InOrder
<1> DEFINE D == {i \in 1 .. Len(s) : s[i] # t[i]}
<1>7. D = {}
  <2> SUFFICES ASSUME D # {}
               PROVE  FALSE
    OBVIOUS
  <2>1. PICK m \in D : \A n \in D : m <= n
    <3>1. D \subseteq Nat
      BY <1>1
    <3> HIDE DEF D
    <3>2. QED
      BY <3>1, LeastNatural
  <2>2. /\ m \in 1 .. Len(s) /\ s[m] # t[m]
        /\ \A n \in 1 .. Len(s) : n < m => s[n] = t[n]
    BY <1>1, <2>1
  <2>3. CASE s[m] < t[m]
    <3>1. PICK j \in 1 .. Len(s) : s[m] = t[j]
      BY <1>4, <2>2
    <3>2. ~(m <= j)
      BY <1>1, <1>3, <1>6, <2>2, <2>3, <3>1
    <3>3. QED
      BY <1>1, <1>6, <2>2, <3>1, <3>2
  <2>4. CASE t[m] < s[m]
    <3>1. PICK j \in 1 .. Len(s) : t[m] = s[j]
      BY <1>5, <2>2
    <3>2. ~(m <= j)
      BY <1>1, <1>3, <1>6, <2>2, <2>4, <3>1
    <3>3. QED
      BY <1>1, <1>6, <2>2, <3>1, <3>2
  <2>5. QED
    BY <1>1, <1>3, <2>2, <2>3, <2>4
<1>8. QED
  BY <1>1, <1>3, <1>7, SeqEqual

(* The invariant of such programs: every schema lists its keys in order.   *)
OrderedInv ==
  /\ IInv
  /\ \A i \in DOMAIN schemas : InOrder(schemas[i].keys)

(* The entries of an object with these keys and these values.              *)
Entries(ks, vals) == [k \in ToSet(ks) |-> vals[Position(ks, k)]]

(* One value per key makes a map.                                          *)
LEMMA EntriesAreMap ==
  ASSUME NEW ks \in Seq(Key), NoRepeat(ks),
         NEW vals \in Seq(Value), Len(vals) = Len(ks)
  PROVE  Entries(ks, vals) \in Maps!Map
<1>1. /\ Len(ks) \in Nat /\ DOMAIN ks = 1 .. Len(ks)
      /\ \A i \in 1 .. Len(ks) : ks[i] \in Key
      /\ \A i \in 1 .. Len(ks) : vals[i] \in Value
  BY LenProperties, ElementOfSeq
<1>2. \A k \in ToSet(ks) : k \in Key /\ \E i \in 1 .. Len(ks) : k = ks[i]
  BY <1>1 DEF ToSet
<1>3. \A k \in ToSet(ks) : vals[Position(ks, k)] \in Value
  BY <1>1, <1>2, PositionOfKey
<1>4. ToSet(ks) \in SUBSET Key /\ Entries(ks, vals) \in [ToSet(ks) -> Value]
  BY <1>2, <1>3 DEF Entries
<1>5. QED
  BY <1>4 DEF Maps!Map

(* What fetch returns is nothing for a reference without object and a map  *)
(* for the others.                                                         *)
LEMMA FetchIsEntries ==
  ASSUME IInv, NEW o \in Ref
  PROVE  /\ Fetch(o) = NoObject <=> ~Created(o)
         /\ Created(o) => Fetch(o) = Entries(KeysOf(o), object[o].values)
<1>1. ~Created(o) => Fetch(o) = NoObject
  BY DEF Fetch
<1>2. ASSUME Created(o)
      PROVE  Fetch(o) = Entries(KeysOf(o), object[o].values) /\ Fetch(o) # NoObject
  <2>1. Fetch(o) = Entries(KeysOf(o), object[o].values)
    BY <1>2 DEF Fetch, Get, Entries
  <2>2. /\ KeysOf(o) \in Seq(Key) /\ NoRepeat(KeysOf(o))
        /\ object[o].values \in Seq(Value)
        /\ Len(object[o].values) = Len(KeysOf(o))
    BY <1>2, KeysOfFound DEF IInv, Found, Object, OneValuePerKey
  <2>3. Fetch(o) \in Maps!Map
    BY <2>1, <2>2, EntriesAreMap
  <2>4. QED
    BY <2>1, <2>3, NoMapAssumption DEF Maps!Map
<1>3. QED
  BY <1>1, <1>2

(* Storing under keys in order: get_schema cannot return another order of  *)
(* them, so the object is the map of its keys to its values.               *)
LEMMA OrderedStore ==
  ASSUME OrderedInv, NEW o \in Ref, NEW ks \in Seq(Key), InOrder(ks),
         NEW vals \in Seq(Value), Len(vals) = Len(ks), Store(o, ks, vals)
  PROVE  /\ OrderedInv'
         /\ Fetch(o)' = Entries(ks, vals)
         /\ \A p \in Ref \ {o} : Fetch(p)' = Fetch(p)
<1>1. NoRepeat(ks)
  BY OrderedNoRepeat
<1>2. /\ IInv' /\ Created(o)' /\ object'[o].values = vals
      /\ KeysOf(o)' = GetSchema(ks).keys
      /\ \A p \in Ref \ {o} : /\ object'[p] = object[p]
                              /\ Created(p) => KeysOf(p)' = KeysOf(p)
  BY <1>1, StoreStep DEF OrderedInv
<1>3. /\ Interned(ks) \in Seq(Schema)
      /\ Len(schemas) \in Nat /\ DOMAIN schemas = 1 .. Len(schemas)
      /\ \A i \in DOMAIN schemas : schemas[i].keys \in Seq(Key)
  <2>1. schemas \in Seq(Schema)
    BY DEF OrderedInv, IInv, TypeOK
  <2>2. \A i \in DOMAIN schemas : schemas[i] \in Schema
    BY <2>1, ElementOfSeq, LenProperties
  <2>3. QED
    BY <1>1, <2>1, <2>2, Interning, LenProperties DEF OrderedInv, IInv, Schema
<1>4. GetSchema(ks).keys = ks
  <2>1. CASE Matching(ks) = {}
    BY <2>1 DEF GetSchema
  <2>2. CASE Matching(ks) # {}
    <3>1. PICK n \in DOMAIN schemas : ToSet(schemas[n].keys) = ToSet(ks)
      BY <2>2 DEF Matching
    <3>2. schemas[n].keys = ks
      BY <1>3, <3>1, OneOrder DEF OrderedInv
    <3>3. Matching(ks) = {n}
      BY <3>1 DEF Matching, OrderedInv, IInv, SchemaTable, IsTable
    <3>4. First(Matching(ks)) = n
      BY <1>3, <3>3, FirstOfOne
    <3>5. QED
      BY <2>2, <3>2, <3>4 DEF GetSchema
  <2>3. QED
    BY <2>1, <2>2
<1>5. \A i \in DOMAIN schemas' : InOrder(schemas'[i].keys)
  <2>1. schemas' = Interned(ks)
    BY DEF Store
  <2>2. CASE Matching(ks) = {}
    <3>1. schemas' = Append(schemas, GetSchema(ks)) /\ GetSchema(ks) \in Schema
      BY <1>1, <2>1, <2>2, Interning DEF Interned, OrderedInv, IInv
    <3>2. /\ DOMAIN schemas' = 1 .. Len(schemas) + 1
          /\ \A i \in DOMAIN schemas : schemas'[i] = schemas[i]
          /\ schemas'[Len(schemas) + 1] = GetSchema(ks)
      <4>1. schemas \in Seq(Schema)
        BY DEF OrderedInv, IInv, TypeOK
      <4> HIDE DEF Schema
      <4>2. QED
        BY <1>3, <3>1, <4>1, AppendProperties, LenProperties
    <3>3. \A i \in DOMAIN schemas' : i \in DOMAIN schemas \/ i = Len(schemas) + 1
      BY <1>3, <3>2
    <3>4. QED
      BY <1>4, <3>2, <3>3 DEF OrderedInv
  <2>3. CASE Matching(ks) # {}
    BY <2>1, <2>3 DEF Interned, OrderedInv
  <2>4. QED
    BY <2>2, <2>3
<1>6. OrderedInv'
  BY <1>2, <1>5 DEF OrderedInv
<1>7. Fetch(o)' = Entries(ks, vals)
  BY <1>2, <1>4 DEF Fetch, Get, Entries
<1>8. \A p \in Ref \ {o} : Fetch(p)' = Fetch(p)
  BY <1>2 DEF Fetch, Get, Created
<1>9. QED
  BY <1>6, <1>7, <1>8

(* How the mapped variable changes when one object does.                   *)
LEMMA MappedStep ==
  ASSUME NEW o \in Ref, NEW m, Fetch(o)' = m,
         \A p \in Ref \ {o} : Fetch(p)' = Fetch(p)
  PROVE  [p \in Ref |-> Fetch(p)]' = [[p \in Ref |-> Fetch(p)] EXCEPT ![o] = m]
OBVIOUS

(* A literal, an instance, a binding creates a map.                        *)
LEMMA NewRefines ==
  ASSUME OrderedInv, NEW o \in Ref, NEW ks \in Literals, InOrder(ks),
         NEW vals \in [DOMAIN ks -> Value], New(o, ks, vals)
  PROVE  OrderedInv' /\ Maps!Next
<1>1. /\ ks \in Seq(Key) /\ NoRepeat(ks)
      /\ Len(ks) \in Nat /\ DOMAIN ks = 1 .. Len(ks)
  BY LiteralsAssumption, LenProperties
<1>2. vals \in Seq(Value) /\ Len(vals) = Len(ks)
  BY <1>1, SeqDef, LenProperties
<1>3. ~Created(o) /\ Store(o, ks, vals)
  BY DEF New
<1>4. /\ OrderedInv'
      /\ Fetch(o)' = Entries(ks, vals)
      /\ \A p \in Ref \ {o} : Fetch(p)' = Fetch(p)
  BY <1>1, <1>2, <1>3, OrderedStore
<1>5. Fetch(o) = NoObject
  BY <1>3, FetchIsEntries DEF OrderedInv
<1>6. Entries(ks, vals) \in Maps!Map
  BY <1>1, <1>2, EntriesAreMap
<1>7. Maps!Create(o, Entries(ks, vals))
  <2>1. [p \in Ref |-> Fetch(p)]' =
          [[p \in Ref |-> Fetch(p)] EXCEPT ![o] = Entries(ks, vals)]
    BY <1>4, MappedStep
  <2>2. QED
    BY <1>5, <2>1 DEF Maps!Create
<1>8. QED
  BY <1>4, <1>6, <1>7 DEF Maps!Next

(* Where an assignment puts the value, key by key.                         *)
LEMMA PutEntries ==
  ASSUME IInv, NEW o \in Ref, NEW k \in Key, NEW v \in Value, Created(o)
  PROVE  Entries(WithKey(o, k), WithValue(o, k, v)) =
           [j \in DOMAIN Fetch(o) \cup {k} |-> IF j = k THEN v ELSE Fetch(o)[j]]
<1> DEFINE keys == KeysOf(o)
           old == object[o].values
           with == WithKey(o, k)
           new == WithValue(o, k, v)
<1>1. /\ keys \in Seq(Key) /\ NoRepeat(keys)
      /\ old \in Seq(Value) /\ Len(old) = Len(keys)
      /\ Len(keys) \in Nat
      /\ DOMAIN keys = 1 .. Len(keys) /\ DOMAIN old = 1 .. Len(keys)
  BY KeysOfFound, LenProperties DEF IInv, Found, Object, OneValuePerKey
<1>2. Fetch(o) = [j \in ToSet(keys) |-> old[Position(keys, j)]]
  BY FetchIsEntries DEF Entries
<1>3. /\ with \in Seq(Key) /\ NoRepeat(with) /\ ToSet(with) = ToSet(keys) \cup {k}
      /\ k \in ToSet(keys) => new = [old EXCEPT ![Position(keys, k)] = v]
      /\ k \notin ToSet(keys) => new = Append(old, v)
  BY SetArguments
<1>4. /\ k \in ToSet(keys) => with = keys
      /\ k \notin ToSet(keys) => with = Append(keys, k)
  BY DEF WithKey
<1>5. \A j \in ToSet(keys) : \E i \in 1 .. Len(keys) : keys[i] = j /\ Position(keys, j) = i
  BY <1>1, PositionOfKey DEF ToSet
<1> HIDE DEF keys, old, with, new
<1>6. \A j \in ToSet(keys) \cup {k} :
        new[Position(with, j)] = IF j = k THEN v ELSE old[Position(keys, j)]
  <2>1. CASE k \in ToSet(keys)
    <3>1. with = keys /\ new = [old EXCEPT ![Position(keys, k)] = v]
      BY <1>3, <1>4, <2>1
    <3>2. \A j \in ToSet(keys) : /\ Position(keys, j) \in DOMAIN old
                                 /\ Position(keys, j) = Position(keys, k) => j = k
      BY <1>1, <1>5, <2>1
    <3>3. ToSet(keys) \cup {k} = ToSet(keys)
      BY <2>1
    <3>4. \A j \in ToSet(keys) : Position(keys, j) # Position(keys, k) =>
            new[Position(keys, j)] = old[Position(keys, j)]
      BY <3>1, <3>2
    <3>5. new[Position(keys, k)] = v
      BY <2>1, <3>1, <3>2
    <3>6. QED
      BY <3>1, <3>2, <3>3, <3>4, <3>5
  <2>2. CASE k \notin ToSet(keys)
    <3>1. /\ Len(with) = Len(keys) + 1
          /\ \A i \in 1 .. Len(keys) : with[i] = keys[i]
          /\ with[Len(keys) + 1] = k
      BY <1>1, <1>4, <2>2, AppendProperties
    <3>2. /\ \A i \in 1 .. Len(keys) : new[i] = old[i]
          /\ new[Len(keys) + 1] = v
      <4>1. new = Append(old, v)
        BY <1>3, <2>2
      <4>2. QED
        BY <1>1, <4>1, AppendProperties
    <3>3. \A i \in 1 .. Len(keys) + 1 : Position(with, with[i]) = i
      BY <1>3, <3>1, PositionOfKey
    <3>4. Position(with, k) = Len(keys) + 1
      BY <1>1, <3>1, <3>3
    <3>5. \A j \in ToSet(keys) : Position(with, j) = Position(keys, j) /\ j # k
      <4>1. \A i \in 1 .. Len(keys) : Position(with, keys[i]) = i
        BY <1>1, <3>1, <3>3
      <4>2. QED
        BY <1>5, <2>2, <4>1
    <3>6. \A j \in ToSet(keys) : Position(keys, j) \in 1 .. Len(keys)
      BY <1>5
    <3>7. QED
      BY <3>2, <3>4, <3>5, <3>6
  <2>3. QED
    BY <2>1, <2>2
<1>7. DOMAIN Fetch(o) = ToSet(keys) /\ \A j \in ToSet(keys) : Fetch(o)[j] = old[Position(keys, j)]
  BY <1>2
<1>8. Entries(with, new) = [j \in ToSet(keys) \cup {k} |-> new[Position(with, j)]]
  BY <1>3 DEF Entries
<1>9. QED
  BY <1>6, <1>7, <1>8 DEF keys, old, with, new

(* An assignment in order changes one property of one map.                 *)
LEMMA SetRefines ==
  ASSUME OrderedInv, NEW o \in Ref, NEW k \in Key, NEW v \in Value,
         InOrder(WithKey(o, k)), Set(o, k, v)
  PROVE  OrderedInv' /\ Maps!Next
<1> DEFINE m == [j \in DOMAIN Fetch(o) \cup {k} |-> IF j = k THEN v ELSE Fetch(o)[j]]
<1>1. Created(o) /\ Store(o, WithKey(o, k), WithValue(o, k, v))
  BY DEF Set
<1>2. /\ WithKey(o, k) \in Seq(Key) /\ WithValue(o, k, v) \in Seq(Value)
      /\ Len(WithValue(o, k, v)) = Len(WithKey(o, k))
  BY <1>1, SetArguments DEF OrderedInv
<1>3. /\ OrderedInv'
      /\ Fetch(o)' = Entries(WithKey(o, k), WithValue(o, k, v))
      /\ \A p \in Ref \ {o} : Fetch(p)' = Fetch(p)
  BY <1>1, <1>2, OrderedStore
<1>4. Fetch(o) # NoObject
  BY <1>1, FetchIsEntries DEF OrderedInv
<1>5. Fetch(o)' = m
  BY <1>1, <1>3, PutEntries DEF OrderedInv
<1>6. [p \in Ref |-> Fetch(p)]' = [[p \in Ref |-> Fetch(p)] EXCEPT ![o] = m]
  BY <1>3, <1>5, MappedStep
<1>7. Maps!Put(o, k, v)
  BY <1>4, <1>6 DEF Maps!Put
<1>8. QED
  BY <1>3, <1>7 DEF Maps!Next

(* A copy makes a second map equal to the first.                           *)
LEMMA CopyRefines ==
  ASSUME OrderedInv, NEW from \in Ref, NEW to \in Ref, Copy(from, to)
  PROVE  OrderedInv' /\ Maps!Next
<1>1. Created(from) /\ ~Created(to) /\ Store(to, KeysOf(from), object[from].values)
  BY DEF Copy, New
<1>2. /\ KeysOf(from) \in Seq(Key)
      /\ object[from].values \in Seq(Value)
      /\ Len(object[from].values) = Len(KeysOf(from))
      /\ InOrder(KeysOf(from))
  BY <1>1, KeysOfFound DEF OrderedInv, IInv, Found, Object, OneValuePerKey
<1>3. /\ OrderedInv'
      /\ \A p \in Ref \ {to} : Fetch(p)' = Fetch(p)
  BY <1>1, <1>2, OrderedStore
<1>4. Fetch(to)' = Fetch(from)
  BY CopyingStep DEF OrderedInv, Copies
<1>5. Fetch(from) # NoObject /\ Fetch(to) = NoObject
  BY <1>1, FetchIsEntries DEF OrderedInv
<1>6. [p \in Ref |-> Fetch(p)]' = [[p \in Ref |-> Fetch(p)] EXCEPT ![to] = Fetch(from)]
  BY <1>3, <1>4, MappedStep
<1>7. Maps!Duplicate(from, to)
  BY <1>5, <1>6 DEF Maps!Duplicate
<1>8. QED
  BY <1>3, <1>7 DEF Maps!Next

(* The storage implements maps: for every program that inserts properties  *)
(* in one order, whatever its keys, values and objects.                    *)
THEOREM Refinement == OrderedSpec => ObjectsAreMaps
<1>1. Init => OrderedInv /\ Maps!Init
  <2> SUFFICES ASSUME Init
               PROVE  OrderedInv /\ Maps!Init
    OBVIOUS
  <2>1. schemas = << >> /\ object = [o \in Ref |-> NoObject]
    BY DEF Init
  <2>2. IInv
    BY InitiallyIInv
  <2>3. DOMAIN schemas = {}
    BY <2>1, LenProperties, EmptySeq
  <2>4. \A o \in Ref : Fetch(o) = NoObject
    BY <2>1 DEF Fetch, Created
  <2>5. QED
    BY <2>2, <2>3, <2>4 DEF OrderedInv, Maps!Init
<1>2. OrderedInv /\ [OrderedNext]_vars => OrderedInv' /\ [Maps!Next]_([o \in Ref |-> Fetch(o)])
  <2> SUFFICES ASSUME OrderedInv, [OrderedNext]_vars
               PROVE  OrderedInv' /\ [Maps!Next]_([o \in Ref |-> Fetch(o)])
    OBVIOUS
  <2>1. CASE UNCHANGED vars
    <3>1. schemas' = schemas /\ object' = object
      BY <2>1 DEF vars
    <3>2. OrderedInv'
      BY <3>1 DEF OrderedInv, IInv, TypeOK, SchemaTable, OneValuePerKey, Created, KeysOf
    <3>3. \A o \in Ref : Fetch(o)' = Fetch(o)
      BY <3>1 DEF Fetch, Get, Created, KeysOf
    <3>4. QED
      BY <3>2, <3>3
  <2>2. CASE OrderedNext
    BY <2>2, NewRefines, SetRefines, CopyRefines DEF OrderedNext
  <2>3. QED
    BY <2>1, <2>2
<1>3. QED
  BY <1>1, <1>2, PTL DEF OrderedSpec, ObjectsAreMaps, Maps!Spec

=============================================================================
