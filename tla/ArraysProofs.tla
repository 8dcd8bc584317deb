---------------------------- MODULE ArraysProofs ----------------------------
(***************************************************************************)
(* What holds of every program with arrays, however long it runs, whatever *)
(* its loops go over and however many are inside each other.  The          *)
(* inductive invariant says of each loop and each find which items it is   *)
(* still to go over: those of the course it set out on that come after     *)
(* its rounds so far.  The comparison of arrays, which only has so much    *)
(* room, is set against what goes on without an end: a pair that is the    *)
(* same with some room is never told apart, one that is different is, and  *)
(* one that needs more room than there are arrays needs any amount.        *)
(***************************************************************************)
EXTENDS
  Arrays, SequenceTheorems, FiniteSetTheorems, WellFoundedInduction, TLAPS

-----------------------------------------------------------------------------
(***************************************************************************)
(* Facts about a sequence used as a stack, its innermost element last,     *)
(* and about numbers.                                                      *)
(***************************************************************************)

(* What is left of a stack when its innermost element is removed. *)
LEMMA FrontLast ==
  ASSUME NEW S, NEW s \in Seq(S), s # << >>
  PROVE  /\ Len(s) \in Nat /\ Len(s) >= 1
         /\ Last(s) \in S /\ Last(s) = s[Len(s)]
         /\ Front(s) \in Seq(S) /\ Len(Front(s)) = Len(s) - 1
         /\ \A i \in 1 .. Len(s) - 1 : Front(s)[i] = s[i]
<1>1. Len(s) \in Nat /\ Len(s) >= 1 /\ Len(s) \in 1 .. Len(s)
  BY LenProperties, EmptySeq
<1>2. Front(s) = SubSeq(s, 1, Len(s) - 1) /\ Last(s) = s[Len(s)]
  BY DEF Front, Last
<1>3. \A i \in 1 .. Len(s) : s[i] \in S
  BY ElementOfSeq
<1> DEFINE n == Len(s) - 1
           t == SubSeq(s, 1, n)
<1>4. n \in Nat /\ 1 \in Int /\ n \in Int /\ \A i \in 1 .. n : s[i] \in S
  BY <1>1, <1>3
<1> HIDE DEF n
<1>5. /\ t \in Seq(S)
      /\ Len(t) = IF 1 <= n THEN n - 1 + 1 ELSE 0
      /\ \A i \in 1 .. n - 1 + 1 : t[i] = s[1 + i - 1]
  BY <1>4, SubSeqProperties
<1>6. Len(t) = n
  BY <1>4, <1>5
<1>7. \A i \in 1 .. n : t[i] = s[i]
  <2> SUFFICES ASSUME NEW i \in 1 .. n
               PROVE  t[i] = s[i]
    OBVIOUS
  <2>1. i \in 1 .. n - 1 + 1 /\ 1 + i - 1 = i
    BY <1>4
  <2>2. QED
    BY <1>5, <2>1
<1>8. QED
  BY <1>1, <1>2, <1>3, <1>5, <1>6, <1>7 DEF n

(* What becomes of a stack when an element of it is replaced. *)
LEMMA ElementReplaced ==
  ASSUME NEW S, NEW s \in Seq(S), NEW k \in 1 .. Len(s), NEW e \in S,
         NEW t, t = [s EXCEPT ![k] = e]
  PROVE  /\ t \in Seq(S) /\ t # << >>
         /\ Len(t) = Len(s) /\ DOMAIN t = 1 .. Len(s)
         /\ Last(t) = t[Len(s)]
         /\ t[k] = e
         /\ \A i \in 1 .. Len(s) : i # k => t[i] = s[i]
<1>1. Len(s) \in Nat /\ Len(s) >= 1
  BY LenProperties
<1>2. /\ t \in Seq(S) /\ Len(t) = Len(s)
      /\ \A j \in 1 .. Len(s) : t[j] = IF j = k THEN e ELSE s[j]
  BY ExceptSeq
<1>3. t # << >>
  <2>1. Len(<< >>) = 0
    OBVIOUS
  <2>2. QED
    BY <1>1, <1>2, <2>1
<1>4. DOMAIN t = 1 .. Len(s) /\ Last(t) = t[Len(s)]
  BY <1>2, <1>3, LenProperties, FrontLast
<1>5. t[k] = e /\ \A i \in 1 .. Len(s) : i # k => t[i] = s[i]
  BY <1>2
<1>6. QED
  BY <1>2, <1>3, <1>4, <1>5

(* The least element of a set of naturals: what induction is done with.    *)
LEMMA LeastNatural ==
  ASSUME NEW T, T \subseteq Nat, T # {}
  PROVE  \E m \in T : \A n \in T : m <= n
<1> DEFINE R == {p \in Nat \X Nat : p[1] < p[2]}
<1>1. IsWellFoundedOn(R, Nat)
  BY NatLessThanWellFounded DEF OpToRel
<1> HIDE DEF R
<1>2. PICK m \in T : \A n \in T : <<n, m>> \notin R
  BY <1>1, WFMin
<1>3. \A n \in T : ~(n < m)
  BY <1>2 DEF R
<1>4. QED
  BY <1>3

-----------------------------------------------------------------------------
(***************************************************************************)
(* Applying a function again and again.                                    *)
(***************************************************************************)

(* A function can be applied over and over, as often as one likes.         *)
Iterating(S, g, x, n) == \E f \in [0 .. n -> S] : f[0] = x /\ \A d \in 1 .. n : f[d] = g[f[d - 1]]

LEMMA Iterates ==
  ASSUME NEW S, NEW g \in [S -> S], NEW x \in S, NEW n \in Nat
  PROVE  Iterating(S, g, x, n)
<1> DEFINE T == {m \in Nat : ~Iterating(S, g, x, m)}
<1>1. SUFFICES ASSUME T # {} PROVE FALSE
  OBVIOUS
<1>2. PICK m \in T : \A k \in T : m <= k
  BY <1>1, LeastNatural
<1>3. CASE m = 0
  <2>1. PICK f : f = [d \in 0 .. 0 |-> x]
    OBVIOUS
  <2>2. f \in [0 .. 0 -> S] /\ f[0] = x
    BY <2>1
  <2>3. \A d \in 1 .. 0 : FALSE
    OBVIOUS
  <2>4. QED
    BY <1>2, <1>3, <2>2, <2>3 DEF Iterating
<1>4. CASE m # 0
  <2>1. PICK k \in Nat : k + 1 = m /\ ~(m <= k)
    <3>1. m \in Nat /\ m # 0
      BY <1>2, <1>4
    <3>2. m - 1 \in Nat /\ (m - 1) + 1 = m /\ ~(m <= m - 1)
      BY <3>1
    <3>3. QED
      BY <3>2
  <2>2. Iterating(S, g, x, k)
    BY <1>2, <2>1
  <2>3. PICK f \in [0 .. k -> S] : f[0] = x /\ \A d \in 1 .. k : f[d] = g[f[d - 1]]
    BY <2>2 DEF Iterating
  <2>4. PICK e : e = [d \in 0 .. k + 1 |-> IF d = k + 1 THEN g[f[k]] ELSE f[d]]
    OBVIOUS
  <2>5. 0 \in 0 .. k /\ k \in 0 .. k /\ \A d \in 0 .. k + 1 : d = k + 1 \/ d \in 0 .. k
    OBVIOUS
  <2>6. e \in [0 .. k + 1 -> S] /\ e[0] = x /\ e[k + 1] = g[f[k]] /\ \A d \in 0 .. k : e[d] = f[d]
    BY <2>3, <2>4, <2>5
  <2>7. ASSUME NEW d \in 1 .. k + 1
        PROVE  e[d] = g[e[d - 1]]
    <3>1. CASE d = k + 1
      <4>1. d - 1 = k
        BY <3>1
      <4>2. QED
        BY <2>5, <2>6, <3>1, <4>1
    <3>2. CASE d # k + 1
      <4>1. d \in 1 .. k /\ d \in 0 .. k /\ d - 1 \in 0 .. k
        BY <3>2
      <4>2. QED
        BY <2>3, <2>6, <4>1
    <3>3. QED
      BY <3>1, <3>2
  <2>8. Iterating(S, g, x, k + 1)
    BY <2>6, <2>7 DEF Iterating
  <2>9. QED
    BY <1>2, <2>1, <2>8
<1>5. QED
  BY <1>3, <1>4

(* There is only one way to do it. *)
Stepwise(g, n, f) == \A d \in 1 .. n : f[d] = g[f[d - 1]]

LEMMA IteratesAlike ==
  ASSUME NEW g, NEW n \in Nat, NEW e, NEW f, e[0] = f[0], Stepwise(g, n, e), Stepwise(g, n, f)
  PROVE  \A d \in 0 .. n : e[d] = f[d]
<1> DEFINE T == {d \in 0 .. n : e[d] # f[d]}
<1>1. SUFFICES ASSUME T # {} PROVE FALSE
  OBVIOUS
<1>2. PICK d \in T : \A k \in T : d <= k
  <2>1. T \subseteq Nat
    OBVIOUS
  <2>2. QED
    BY <1>1, <2>1, LeastNatural
<1>3. d \in 1 .. n /\ d - 1 \in 0 .. n /\ ~(d <= d - 1)
  BY <1>2
<1>4. e[d - 1] = f[d - 1]
  BY <1>2, <1>3
<1>5. QED
  BY <1>2, <1>3, <1>4 DEF Stepwise

(* The values along the way, without an end. *)
Chained(S, g, x, f) == f \in [Nat -> S] /\ f[0] = x /\ \A d \in Nat : f[d + 1] = g[f[d]]

LEMMA Chains ==
  ASSUME NEW S, NEW g \in [S -> S], NEW x \in S
  PROVE  \E f : Chained(S, g, x, f)
<1> DEFINE Way(n, f) == f \in [0 .. n -> S] /\ f[0] = x /\ \A d \in 1 .. n : f[d] = g[f[d - 1]]
           F == [n \in Nat |-> CHOOSE f : Way(n, f)]
<1>1. \A n \in Nat : Way(n, F[n])
  <2>1. TAKE n \in Nat
  <2>2. Iterating(S, g, x, n)
    BY Iterates
  <2>3. PICK f : f \in [0 .. n -> S] /\ f[0] = x /\ \A d \in 1 .. n : f[d] = g[f[d - 1]]
    BY <2>2 DEF Iterating
  <2>4. Way(n, f)
    BY <2>3
  <2>5. QED
    BY <2>4
<1> HIDE DEF F
<1>2. ASSUME NEW n \in Nat
      PROVE  F[n + 1][n] = F[n][n]
  <2>1. PICK e, f : e = F[n + 1] /\ f = F[n]
    OBVIOUS
  <2>2. Way(n + 1, e) /\ Way(n, f)
    BY <1>1, <2>1
  <2>3. \A d \in 1 .. n : d \in 1 .. n + 1
    OBVIOUS
  <2>4. e[0] = f[0]
    BY <2>2
  <2>5. Stepwise(g, n, e) /\ Stepwise(g, n, f)
    BY <2>2, <2>3 DEF Stepwise
  <2> HIDE DEF Way
  <2>6. \A d \in 0 .. n : e[d] = f[d]
    BY <2>4, <2>5, IteratesAlike
  <2>7. n \in 0 .. n
    OBVIOUS
  <2>8. QED
    BY <2>1, <2>7, <2>6
<1>3. PICK f : f = [n \in Nat |-> F[n][n]]
  OBVIOUS
<1>4. \A n \in Nat : n \in 0 .. n /\ n + 1 \in 1 .. n + 1 /\ (n + 1) - 1 = n /\ n + 1 \in Nat
  OBVIOUS
<1>5. f \in [Nat -> S] /\ f[0] = x
  BY <1>1, <1>3, <1>4
<1>6. ASSUME NEW d \in Nat
      PROVE  f[d + 1] = g[f[d]]
  <2>1. f[d + 1] = F[d + 1][d + 1]
    BY <1>3, <1>4
  <2>2. F[d + 1][d + 1] = g[F[d + 1][d]]
    BY <1>1, <1>4
  <2>3. QED
    BY <1>2, <1>3, <2>1, <2>2
<1>7. QED
  BY <1>5, <1>6 DEF Chained

(* A set that can only shrink, and goes on from what it is alone, has       *)
(* become what it remains when it could have lost all its elements.         *)
Shrinks(f) == \A k \in Nat : f[k + 1] \subseteq f[k]
Stays(f, m) == \A k \in Nat : k >= m => f[k] = f[m]

LEMMA Settles ==
  ASSUME NEW D, IsFiniteSet(D), NEW g, NEW x, NEW f, Chained(SUBSET D, g, x, f), Shrinks(f),
         NEW m \in Nat, Cardinality(D) <= m
  PROVE  Stays(f, m)
<1> USE DEF Shrinks, Stays
<1>1. \A k \in Nat : /\ k + 1 \in Nat /\ f[k] \subseteq D /\ f[k + 1] = g[f[k]]
                     /\ IsFiniteSet(f[k]) /\ Cardinality(f[k]) \in Nat
  <2>1. TAKE k \in Nat
  <2>2. f[k] \subseteq D /\ f[k + 1] = g[f[k]]
    BY DEF Chained
  <2>3. IsFiniteSet(f[k])
    BY <2>2, FS_Subset
  <2>4. QED
    BY <2>2, <2>3, FS_CardinalityType
<1>2. \E j \in 0 .. m : f[j + 1] = f[j]
  <2>1. SUFFICES ASSUME \A j \in 0 .. m : f[j + 1] # f[j] PROVE FALSE
    OBVIOUS
  <2> DEFINE T == {j \in 0 .. m + 1 : ~(Cardinality(f[j]) <= m - j)}
  <2>2. T # {}
    <3>1. m + 1 \in 0 .. m + 1 /\ m - (m + 1) = -1
      OBVIOUS
    <3>2. ~(Cardinality(f[m + 1]) <= -1)
      <4>1. Cardinality(f[m + 1]) \in Nat
        BY <1>1
      <4>2. QED
        BY <4>1
    <3>3. QED
      BY <3>1, <3>2
  <2>3. PICK j \in T : \A k \in T : j <= k
    <3>1. T \subseteq Nat
      OBVIOUS
    <3>2. QED
      BY <2>2, <3>1, LeastNatural
  <2>4. CASE j = 0
    <3>1. Cardinality(f[0]) <= Cardinality(D) /\ Cardinality(D) \in Nat /\ Cardinality(f[0]) \in Nat
      <4>1. f[0] \subseteq D
        BY <1>1
      <4>2. QED
        BY <1>1, <4>1, FS_Subset, FS_CardinalityType
    <3>2. Cardinality(f[0]) <= m - 0
      BY <3>1
    <3>3. QED
      BY <2>3, <2>4, <3>2
  <2>5. CASE j # 0
    <3>1. PICK i \in 0 .. m : j = i + 1 /\ ~(j <= i)
      <4>1. j \in 0 .. m + 1 /\ j # 0
        BY <2>3, <2>5
      <4>2. j - 1 \in 0 .. m /\ j = (j - 1) + 1 /\ ~(j <= j - 1)
        BY <4>1
      <4>3. QED
        BY <4>2
    <3>2. Cardinality(f[i]) <= m - i
      <4>1. i \in 0 .. m + 1 /\ i \notin T
        BY <2>3, <3>1
      <4>2. QED
        BY <4>1
    <3>3. f[i + 1] \subseteq f[i] /\ f[i + 1] # f[i] /\ i \in Nat
      BY <2>1
    <3>4. Cardinality(f[i + 1]) <= Cardinality(f[i]) /\ Cardinality(f[i + 1]) # Cardinality(f[i])
      BY <1>1, <3>3, FS_Subset
    <3>5. Cardinality(f[i + 1]) \in Nat /\ Cardinality(f[i]) \in Nat
      BY <1>1, <3>3
    <3>6. Cardinality(f[i + 1]) <= m - (i + 1)
      BY <3>2, <3>3, <3>4, <3>5
    <3>7. QED
      BY <2>3, <3>1, <3>6
  <2>6. QED
    BY <2>4, <2>5
<1>3. PICK j \in 0 .. m : f[j + 1] = f[j]
  BY <1>2
<1>4. ASSUME NEW k \in Nat, k >= j
      PROVE  f[k] = f[j]
  <2> DEFINE T == {i \in Nat : i >= j /\ f[i] # f[j]}
  <2>1. SUFFICES ASSUME T # {} PROVE FALSE
    BY <1>4
  <2>2. PICK i \in T : \A l \in T : i <= l
    <3>1. T \subseteq Nat
      OBVIOUS
    <3>2. QED
      BY <2>1, <3>1, LeastNatural
  <2>3. i \in Nat /\ i >= j /\ i # j
    BY <2>2
  <2>4. PICK l \in Nat : l + 1 = i /\ l >= j /\ ~(i <= l)
    <3>1. i - 1 \in Nat /\ (i - 1) + 1 = i /\ i - 1 >= j /\ ~(i <= i - 1)
      BY <2>3
    <3>2. QED
      BY <3>1
  <2>5. f[l] = f[j]
    BY <2>2, <2>4
  <2>6. f[l + 1] = g[f[l]] /\ f[j + 1] = g[f[j]]
    BY <1>1
  <2>7. QED
    BY <1>3, <2>2, <2>4, <2>5, <2>6
<1>5. m >= j /\ j \in Nat
  OBVIOUS
<1>6. ASSUME NEW k \in Nat, k >= m
      PROVE  f[k] = f[m]
  <2>1. k >= j
    BY <1>5, <1>6
  <2>2. QED
    BY <1>4, <1>5, <2>1
<1>7. QED
  BY <1>6

-----------------------------------------------------------------------------
(***************************************************************************)
(* The inductive invariant.                                                *)
(***************************************************************************)

(* The values when there are n arrays. *)
Value(n) ==
  {Number(i) : i \in Int} \cup {Text(s) : s \in Seq(Int)}
  \cup {Bool(TRUE), Bool(FALSE), Void} \cup {Array(a) : a \in 1 .. n}

(* The text of a value is one. *)
Spelling == \A n \in Nat : \A v \in Value(n) : Spelled(v) \in Seq(Int)

(* An assignment to an item, and a loop or find. *)
Writing(n) ==
  [what : {"write"}, inside : BOOLEAN, array : 1 .. n, index : {Number(i) : i \in Int}, op : {"=", "+"}]

Going(n) ==
  [what : Loops \cup {"find"}, inside : BOOLEAN, array : 0 .. n, items : Seq(Value(n)), given : Value(n),
   item : Value(n)]

Beginning(n) == [with : Seq(Value(n)) \cup Seq(Int), rounds : Nat]

(* All that a loop with an end is to go over. *)
Course(what, with) ==
  IF what = "range" THEN Between(with[1], with[2])
  ELSE IF what = "upto" THEN Numbers(0, with[2]) ELSE with

Bounded(what, with) ==
  /\ with \in Seq(Int) /\ Len(with) = 2
  /\ with[1] \in Bottom .. Top /\ with[2] \in Bottom .. Top
  /\ what = "upto" => with[1] = 0

(* What is left is the course without what the rounds went over. *)
Left(go, start) ==
  LET course == Course(go.what, start.with)
  IN  /\ IF go.what \in {"range", "upto"} THEN Bounded(go.what, start.with) ELSE TRUE
      /\ start.rounds <= Len(course)
      /\ Len(go.items) = Len(course) - start.rounds
      /\ \A i \in 1 .. Len(go.items) : go.items[i] = course[start.rounds + i]
      /\ start.rounds > 0 => go.given = course[start.rounds]

(* A number that is reached from another in so many steps upwards. *)
Around(v, from, steps) ==
  \E m \in Bottom .. Top, around \in 0 .. steps :
    v = Number(m) /\ m = from + steps - around * 2 * (Top + 1)

Onwards(go, start) ==
  /\ start.with \in Seq(Int) /\ Len(start.with) = 1
  /\ Len(go.items) = 1 /\ Around(go.items[1], start.with[1], start.rounds)
  /\ start.rounds > 0 => Around(go.given, start.with[1], start.rounds - 1)

Underway(n) ==
  (Writing(n) \X Beginning(n))
  \cup {p \in Going(n) \X Beginning(n) : IF p[1].what = "from" THEN Onwards(p[1], p[2]) ELSE Left(p[1], p[2])}

Activity(n) == Writing(n) \cup Going(n)

(* A stack of activities, and what they began with. *)
Nested(n) ==
  {p \in Seq(Activity(n)) \X Seq(Beginning(n)) :
     Len(p[2]) = Len(p[1]) /\ \A k \in 1 .. Len(p[1]) : <<p[1][k], p[2][k]>> \in Underway(n)}

IInv ==
  \E n \in Nat :
    /\ n = Len(heap)
    /\ heap \in Seq(Seq(Value(n)))
    /\ store \in [Var -> Value(n)]
    /\ program \in [mentions : SUBSET Value(0), statements : Nat]
    /\ <<stack, begun>> \in Nested(n)

-----------------------------------------------------------------------------
(***************************************************************************)
(* Values.                                                                 *)
(***************************************************************************)

(* A value of each kind, told by the kind. *)
LEMMA Kinds ==
  ASSUME NEW n \in Nat, NEW v \in Value(n)
  PROVE  /\ v[1] \in {"number", "string", "bool", "void", "array"}
         /\ v[1] = "number" => v[2] \in Int /\ v = Number(v[2])
         /\ v[1] = "string" => v[2] \in Seq(Int) /\ v = Text(v[2])
         /\ v[1] = "bool" => v = Bool(TRUE) \/ v = Bool(FALSE)
         /\ v[1] = "void" => v = Void
         /\ v[1] = "array" => v[2] \in 1 .. n /\ v = Array(v[2])
<1>1. CASE \E i \in Int : v = Number(i)
  BY <1>1 DEF Number
<1>2. CASE \E s \in Seq(Int) : v = Text(s)
  BY <1>2 DEF Text
<1>3. CASE \E a \in 1 .. n : v = Array(a)
  BY <1>3 DEF Array
<1>4. CASE v = Void
  BY <1>4 DEF Void
<1>5. CASE v = Bool(TRUE) \/ v = Bool(FALSE)
  <2>1. \A b \in BOOLEAN : Bool(b)[1] = "bool"
    BY DEF Bool
  <2>2. v[1] = "bool"
    BY <1>5, <2>1
  <2>3. QED
    BY <1>5, <2>2
<1>6. QED
  BY <1>1, <1>2, <1>3, <1>4, <1>5 DEF Value

(* Values of each kind. *)
LEMMA Made ==
  ASSUME NEW n \in Nat
  PROVE  /\ \A i \in Int : Number(i) \in Value(n)
         /\ \A s \in Seq(Int) : Text(s) \in Value(n)
         /\ \A b \in BOOLEAN : Bool(b) \in Value(n)
         /\ Void \in Value(n)
         /\ \A a \in 1 .. n : Array(a) \in Value(n)
<1>1. \A b \in BOOLEAN : Bool(b) \in {Bool(TRUE), Bool(FALSE)}
  OBVIOUS
<1>2. QED
  BY <1>1 DEF Value

(* More arrays make more values. *)
LEMMA Grows ==
  ASSUME NEW n \in Nat, NEW m \in Nat, n <= m
  PROVE  Value(n) \subseteq Value(m)
<1>1. 1 .. n \subseteq 1 .. m
  OBVIOUS
<1>2. QED
  BY <1>1 DEF Value

LEMMA PlainValues ==
  ASSUME NEW v, Plain(v)
  PROVE  v \in Value(0)
BY Made DEF Plain, Is

-----------------------------------------------------------------------------
(***************************************************************************)
(* What the operators make of values.                                      *)
(***************************************************************************)

(* A result that is one is a value. *)
Fits(result, n) == result.status = "ok" => result.value \in Value(n)

LEMMA Statuses ==
  /\ \A v : Got(v).status = "ok" /\ Got(v).value = v
  /\ Failed.status = "error" /\ Panics.status = "panic" /\ Overflows.status = "overflow"
BY DEF Got, Failed, Panics, Overflows

(* An item of an array is a value. *)
LEMMA ItemFits ==
  ASSUME NEW n \in Nat, NEW h \in Seq(Seq(Value(n))), Len(h) = n, NEW a \in 1 .. n, NEW i \in Int
  PROVE  Fits(Item(a, Number(i), h), n)
<1>1. h[a] \in Seq(Value(n))
  BY ElementOfSeq, LenProperties
<1>2. ASSUME Place(Number(i)) \in DOMAIN h[a]
      PROVE  h[a][Place(Number(i))] \in Value(n)
  BY <1>1, <1>2, ElementOfSeq, LenProperties
<1>3. QED
  BY <1>2, Statuses DEF Item, Fits

LEMMA EqualityFits ==
  ASSUME NEW n \in Nat, NEW h, NEW v, NEW w, NEW op
  PROVE  Fits(Equality(op, v, w, h), n)
<1> DEFINE b == (Compared(v, w, h) = "same") = (op = "==")
<1>1. b \in BOOLEAN
  OBVIOUS
<1>2. Equality(op, v, w, h) = Overflows \/ Equality(op, v, w, h) = Got(Bool(b))
  BY DEF Equality
<1> HIDE DEF b
<1>3. QED
  BY <1>1, <1>2, Made, Statuses DEF Fits

LEMMA HoldsFits ==
  ASSUME NEW n \in Nat, NEW h, NEW a, NEW v
  PROVE  Fits(Holds(a, v, h), n)
<1>1. Holds(a, v, h) \in {Got(Bool(TRUE)), Got(Bool(FALSE)), Overflows}
  BY DEF Holds
<1>2. Bool(TRUE) \in Value(n) /\ Bool(FALSE) \in Value(n)
  BY DEF Value
<1>3. QED
  BY <1>1, <1>2, Statuses DEF Fits

(* A text is a string. *)
LEMMA TextFits ==
  ASSUME Spelling, NEW n \in Nat, NEW h, NEW v \in Value(n), TextOf(v, h).status = "ok"
  PROVE  TextOf(v, h).value[2] \in Seq(Int) /\ TextOf(v, h).value \in Value(n)
<1>1. CASE Is("string", v)
  BY <1>1, Kinds, Statuses DEF TextOf, Is
<1>2. CASE ~Is("string", v)
  <2>1. TextOf(v, h) = Got(Text(Spelled(v)))
    BY <1>2, Statuses DEF TextOf
  <2>2. Spelled(v) \in Seq(Int)
    BY DEF Spelling
  <2>3. QED
    BY <2>1, <2>2, Made, Statuses DEF Text
<1>3. QED
  BY <1>1, <1>2

LEMMA OperateFits ==
  ASSUME Spelling, NEW n \in Nat, NEW h, NEW v \in Value(n), NEW w \in Value(n), NEW op, NEW kind
  PROVE  Fits(Operate(kind, op, v, w, h), n)
<1> DEFINE r == Operate(kind, op, v, w, h)
<1>1. CASE kind \notin Prototypes
  BY <1>1, Statuses DEF Operate, Fits, Prototypes
<1>2. CASE kind = "number" /\ Is("number", v) /\ Is("number", w)
  <2>1. v[2] \in Int /\ w[2] \in Int
    BY <1>2, Kinds DEF Is
  <2>2. (IF op = "+" THEN v[2] + w[2] ELSE v[2] - w[2]) \in Int
    BY <2>1
  <2>3. r = Got(Number(IF op = "+" THEN v[2] + w[2] ELSE v[2] - w[2]))
    BY <1>2 DEF Operate, Prototypes
  <2>4. QED
    BY <2>2, <2>3, Made, Statuses DEF Fits
<1>3. CASE kind = "string" /\ op = "+" /\ Is("string", v)
  <2>1. r = (IF TextOf(w, h).status = "ok" THEN Got(Text(v[2] \o TextOf(w, h).value[2])) ELSE TextOf(w, h))
    BY <1>3 DEF Operate, Prototypes
  <2>2. ASSUME TextOf(w, h).status = "ok"
        PROVE  v[2] \o TextOf(w, h).value[2] \in Seq(Int)
    BY <1>3, <2>2, TextFits, Kinds, ConcatProperties DEF Is
  <2>3. QED
    BY <2>1, <2>2, Made, Statuses DEF Fits
<1>4. CASE /\ kind \in Prototypes
           /\ ~(kind = "number" /\ Is("number", v) /\ Is("number", w))
           /\ ~(kind = "string" /\ op = "+" /\ Is("string", v))
  <2>1. ASSUME kind = "number" PROVE r = Failed
    BY <1>4, <2>1 DEF Operate, Prototypes
  <2>2. ASSUME kind # "number" PROVE r = Failed
    <3>1. kind \in Prototypes /\ ~(kind = "string" /\ op = "+" /\ Is("string", v))
      BY <1>4
    <3>2. QED
      BY <2>2, <3>1 DEF Operate
  <2>3. r = Failed
    BY <2>1, <2>2
  <2>4. QED
    BY <2>3, Statuses DEF Fits
<1>5. QED
  BY <1>1, <1>2, <1>3, <1>4

LEMMA CompoundFits ==
  ASSUME Spelling, NEW n \in Nat, NEW h, NEW v \in Value(n), NEW w \in Value(n), NEW op
  PROVE  Fits(Compound(op, v, w, h), n)
BY OperateFits, Statuses DEF Compound, Fits

-----------------------------------------------------------------------------
(***************************************************************************)
(* The numbers of a range.                                                 *)
(***************************************************************************)

LEMMA Reversed ==
  ASSUME NEW S, NEW s \in Seq(S)
  PROVE  /\ Reverse(s) \in Seq(S) /\ Len(Reverse(s)) = Len(s)
         /\ \A i \in 1 .. Len(s) : Reverse(s)[i] = s[Len(s) - i + 1]
<1> DEFINE f == [i \in 1 .. Len(s) |-> s[(Len(s) - i) + 1]]
<1>1. Len(s) \in Nat
  BY LenProperties
<1>2. \A i \in 1 .. Len(s) : (Len(s) - i) + 1 \in 1 .. Len(s)
  BY <1>1
<1>3. f \in [1 .. Len(s) -> S]
  BY <1>2, ElementOfSeq
<1>4. f \in Seq(S) /\ DOMAIN f = 1 .. Len(s)
  BY <1>1, <1>3, SeqDef
<1>5. Len(f) = Len(s)
  BY <1>1, <1>4, LenProperties
<1>6. Reverse(s) = f
  BY DEF Reverse
<1>7. QED
  BY <1>4, <1>5, <1>6

LEMMA Wholes ==
  ASSUME NEW i \in Int
  PROVE  Whole(Number(i)) \in Bottom .. Top
BY TopAssumption DEF Whole, Number, Bottom

LEMMA NumbersCount ==
  ASSUME NEW n \in Nat, NEW from \in Int, NEW to \in Int
  PROVE  /\ Numbers(from, to) \in Seq(Value(n))
         /\ Len(Numbers(from, to)) = (IF from <= to THEN to - from ELSE 0)
         /\ \A i \in 1 .. Len(Numbers(from, to)) : Numbers(from, to)[i] = Number(from + i - 1)
<1> DEFINE length == IF from <= to THEN to - from ELSE 0
           f == [i \in 1 .. length |-> Number(from + i - 1)]
<1>1. length \in Nat /\ 1 .. length = 1 .. to - from
  OBVIOUS
<1>2. \A i \in 1 .. length : Number(from + i - 1) \in Value(n)
  BY <1>1, Made
<1>3. f \in Seq(Value(n)) /\ Len(f) = length
  <2> HIDE DEF length
  <2>1. f \in [1 .. length -> Value(n)]
    BY <1>2
  <2>2. f \in Seq(Value(n)) /\ DOMAIN f = 1 .. length
    BY <1>1, <2>1, SeqDef
  <2>3. QED
    BY <1>1, <2>2, LenProperties
<1>4. Numbers(from, to) = f
  BY <1>1 DEF Numbers
<1>5. QED
  BY <1>3, <1>4

(* Those of a range with two ends, upwards and downwards. *)
LEMMA BetweenCount ==
  ASSUME NEW n \in Nat, NEW l \in Bottom .. Top, NEW r \in Bottom .. Top
  PROVE  /\ Between(l, r) \in Seq(Value(n))
         /\ Len(Between(l, r)) = (IF l <= r THEN r - l ELSE IF l = Top THEN 0 ELSE l - r)
         /\ \A i \in 1 .. Len(Between(l, r)) :
              Between(l, r)[i] = Number(IF l <= r THEN l + i - 1 ELSE l - i + 1)
<1>1. Bottom \in Int /\ Top \in Nat
  BY TopAssumption DEF Bottom
<1>2. CASE l < r
  <2>1. /\ Numbers(l, r) \in Seq(Value(n)) /\ Len(Numbers(l, r)) = r - l
        /\ \A i \in 1 .. Len(Numbers(l, r)) : Numbers(l, r)[i] = Number(l + i - 1)
    <3>1. l \in Int /\ r \in Int /\ l <= r
      BY <1>1, <1>2
    <3>2. QED
      BY <3>1, NumbersCount
  <2>2. Between(l, r) = Numbers(l, r) /\ l <= r
    BY <1>1, <1>2 DEF Between
  <2>3. QED
    BY <2>1, <2>2
<1>3. CASE ~(l < r)
  <2> DEFINE s == Numbers(Wrap(r + 1), Wrap(l + 1))
  <2>1. Wrap(r + 1) \in Int /\ Wrap(l + 1) \in Int
    BY <1>1 DEF Wrap
  <2>2. /\ s \in Seq(Value(n))
        /\ Len(s) = (IF Wrap(r + 1) <= Wrap(l + 1) THEN Wrap(l + 1) - Wrap(r + 1) ELSE 0)
        /\ \A i \in 1 .. Len(s) : s[i] = Number(Wrap(r + 1) + i - 1)
    BY <2>1, NumbersCount
  <2>3. Len(s) = (IF l = Top THEN 0 ELSE l - r)
    BY <1>1, <1>3, <2>2 DEF Wrap, Bottom
  <2>4. Between(l, r) = Reverse(s)
    BY <1>3 DEF Between
  <2>5. /\ Reverse(s) \in Seq(Value(n)) /\ Len(Reverse(s)) = Len(s)
        /\ \A i \in 1 .. Len(s) : Reverse(s)[i] = s[Len(s) - i + 1]
    BY <2>2, Reversed
  <2>6. ASSUME NEW i \in 1 .. Len(s)
        PROVE  Reverse(s)[i] = Number(IF l <= r THEN l + i - 1 ELSE l - i + 1)
    <3>1. Len(s) \in Nat /\ Len(s) - i + 1 \in 1 .. Len(s)
      BY <2>2, LenProperties
    <3>2. l # Top /\ l \in Int /\ r \in Int /\ Len(s) = l - r /\ Wrap(r + 1) = r + 1
      BY <1>1, <1>3, <2>3, <3>1 DEF Wrap
    <3>3. r < l
      BY <3>1, <3>2, <2>6
    <3>4. Wrap(r + 1) + (Len(s) - i + 1) - 1 = l - i + 1
      BY <3>2
    <3>5. Reverse(s)[i] = Number(Wrap(r + 1) + (Len(s) - i + 1) - 1)
      BY <2>2, <2>5, <3>1
    <3>6. QED
      BY <3>2, <3>3, <3>4, <3>5
  <2>7. Len(s) = (IF l <= r THEN r - l ELSE IF l = Top THEN 0 ELSE l - r)
    BY <1>1, <1>3, <2>3
  <2> HIDE DEF s
  <2>8. QED
    BY <2>4, <2>5, <2>6, <2>7
<1>4. QED
  BY <1>2, <1>3

-----------------------------------------------------------------------------
(***************************************************************************)
(* Stacks of activities.                                                   *)
(***************************************************************************)

LEMMA UnderwayParts ==
  ASSUME NEW n \in Nat, NEW p \in Underway(n)
  PROVE  p[1] \in Activity(n) /\ p[2] \in Beginning(n) /\ p = <<p[1], p[2]>>
BY DEF Underway, Activity

(* With more arrays they are still what they were. *)
LEMMA UnderwayGrows ==
  ASSUME NEW n \in Nat, NEW m \in Nat, n <= m
  PROVE  Activity(n) \subseteq Activity(m) /\ Beginning(n) \subseteq Beginning(m) /\ Underway(n) \subseteq Underway(m)
<1>1. Value(n) \subseteq Value(m) /\ 1 .. n \subseteq 1 .. m /\ 0 .. n \subseteq 0 .. m
  BY Grows
<1>2. Seq(Value(n)) \subseteq Seq(Value(m))
  BY <1>1, SeqMonotonic
<1>3. Writing(n) \subseteq Writing(m)
  BY <1>1 DEF Writing
<1>4. Going(n) \subseteq Going(m)
  BY <1>1, <1>2 DEF Going
<1>5. Beginning(n) \subseteq Beginning(m)
  BY <1>2 DEF Beginning
<1>6. QED
  BY <1>3, <1>4, <1>5 DEF Activity, Underway

LEMMA NestedGrows ==
  ASSUME NEW n \in Nat, NEW m \in Nat, n <= m
  PROVE  Nested(n) \subseteq Nested(m)
<1>1. Activity(n) \subseteq Activity(m) /\ Beginning(n) \subseteq Beginning(m) /\ Underway(n) \subseteq Underway(m)
  BY UnderwayGrows
<1>2. Seq(Activity(n)) \subseteq Seq(Activity(m)) /\ Seq(Beginning(n)) \subseteq Seq(Beginning(m))
  BY <1>1, SeqMonotonic
<1>3. QED
  BY <1>1, <1>2 DEF Nested

LEMMA NestedParts ==
  ASSUME NEW n \in Nat, NEW s, NEW b, <<s, b>> \in Nested(n)
  PROVE  /\ s \in Seq(Activity(n)) /\ b \in Seq(Beginning(n)) /\ Len(s) \in Nat /\ Len(b) = Len(s)
         /\ DOMAIN s = 1 .. Len(s) /\ DOMAIN b = 1 .. Len(s)
         /\ \A k \in 1 .. Len(s) : <<s[k], b[k]>> \in Underway(n)
BY LenProperties DEF Nested

LEMMA NestedFrom ==
  ASSUME NEW n \in Nat, NEW s \in Seq(Activity(n)), NEW b \in Seq(Beginning(n)), Len(b) = Len(s),
         \A k \in 1 .. Len(s) : <<s[k], b[k]>> \in Underway(n)
  PROVE  <<s, b>> \in Nested(n)
BY DEF Nested

LEMMA NestedEmpty ==
  ASSUME NEW n \in Nat
  PROVE  << << >>, << >> >> \in Nested(n)
<1>1. << >> \in Seq(Activity(n)) /\ << >> \in Seq(Beginning(n)) /\ Len(<< >>) = 0
  BY EmptySeq
<1>2. \A k \in 1 .. 0 : << << >>[k], << >>[k] >> \in Underway(n)
  OBVIOUS
<1>3. QED
  BY <1>1, <1>2 DEF Nested

LEMMA NestedPushed ==
  ASSUME NEW n \in Nat, NEW s, NEW b, <<s, b>> \in Nested(n), NEW act, NEW start, <<act, start>> \in Underway(n)
  PROVE  <<Append(s, act), Append(b, start)>> \in Nested(n)
<1>1. act \in Activity(n) /\ start \in Beginning(n)
  BY UnderwayParts
<1>2. /\ s \in Seq(Activity(n)) /\ b \in Seq(Beginning(n)) /\ Len(s) \in Nat /\ Len(b) = Len(s)
      /\ \A k \in 1 .. Len(s) : <<s[k], b[k]>> \in Underway(n)
  BY NestedParts
<1> DEFINE t == Append(s, act)
           c == Append(b, start)
<1>3. /\ t \in Seq(Activity(n)) /\ Len(t) = Len(s) + 1 /\ t[Len(s) + 1] = act
      /\ \A k \in 1 .. Len(s) : t[k] = s[k]
  BY <1>1, <1>2, AppendProperties
<1>4. /\ c \in Seq(Beginning(n)) /\ Len(c) = Len(s) + 1 /\ c[Len(s) + 1] = start
      /\ \A k \in 1 .. Len(s) : c[k] = b[k]
  BY <1>1, <1>2, AppendProperties
<1> HIDE DEF t, c
<1>5. ASSUME NEW k \in 1 .. Len(t)
      PROVE  <<t[k], c[k]>> \in Underway(n)
  <2>1. CASE k = Len(s) + 1
    BY <1>3, <1>4, <2>1
  <2>2. CASE k \in 1 .. Len(s)
    BY <1>2, <1>3, <1>4, <2>2
  <2>3. QED
    BY <1>2, <1>3, <2>1, <2>2
<1>6. <<t, c>> \in Nested(n)
  BY <1>3, <1>4, <1>5, NestedFrom
<1>7. QED
  BY <1>6 DEF t, c

LEMMA NestedPopped ==
  ASSUME NEW n \in Nat, NEW s, NEW b, <<s, b>> \in Nested(n), s # << >>
  PROVE  <<Front(s), Front(b)>> \in Nested(n)
<1>1. /\ s \in Seq(Activity(n)) /\ b \in Seq(Beginning(n)) /\ Len(s) \in Nat /\ Len(b) = Len(s)
      /\ \A k \in 1 .. Len(s) : <<s[k], b[k]>> \in Underway(n)
  BY NestedParts
<1>2. b # << >>
  BY <1>1, EmptySeq
<1>3. /\ Len(s) >= 1 /\ Front(s) \in Seq(Activity(n)) /\ Len(Front(s)) = Len(s) - 1
      /\ \A k \in 1 .. Len(s) - 1 : Front(s)[k] = s[k]
  BY <1>1, FrontLast
<1>4. /\ Front(b) \in Seq(Beginning(n)) /\ Len(Front(b)) = Len(s) - 1
      /\ \A k \in 1 .. Len(s) - 1 : Front(b)[k] = b[k]
  BY <1>1, <1>2, FrontLast
<1>5. ASSUME NEW k \in 1 .. Len(Front(s))
      PROVE  <<Front(s)[k], Front(b)[k]>> \in Underway(n)
  <2>1. k \in 1 .. Len(s) - 1 /\ k \in 1 .. Len(s)
    BY <1>1, <1>3
  <2>2. Front(s)[k] = s[k] /\ Front(b)[k] = b[k]
    BY <1>3, <1>4, <2>1
  <2>3. QED
    BY <1>1, <2>1, <2>2
<1>6. QED
  BY <1>3, <1>4, <1>5, NestedFrom

(* The last activity. *)
LEMMA NestedLast ==
  ASSUME NEW n \in Nat, NEW s, NEW b, <<s, b>> \in Nested(n), s # << >>
  PROVE  /\ Len(s) \in Nat /\ Len(s) \in 1 .. Len(s) /\ Len(b) = Len(s)
         /\ Last(s) = s[Len(s)] /\ Last(b) = b[Len(s)]
         /\ Last(s) \in Activity(n) /\ Last(b) \in Beginning(n) /\ <<Last(s), Last(b)>> \in Underway(n)
<1>1. /\ s \in Seq(Activity(n)) /\ b \in Seq(Beginning(n)) /\ Len(s) \in Nat /\ Len(b) = Len(s)
      /\ \A k \in 1 .. Len(s) : <<s[k], b[k]>> \in Underway(n)
  BY NestedParts
<1>2. b # << >>
  BY <1>1, EmptySeq
<1>3. Len(s) >= 1 /\ Last(s) \in Activity(n) /\ Last(s) = s[Len(s)]
  BY <1>1, FrontLast
<1>4. Last(b) \in Beginning(n) /\ Last(b) = b[Len(s)]
  BY <1>1, <1>2, FrontLast
<1>5. QED
  BY <1>1, <1>3, <1>4

LEMMA NestedReplaced ==
  ASSUME NEW n \in Nat, NEW s, NEW b, <<s, b>> \in Nested(n), s # << >>,
         NEW act, NEW start, <<act, start>> \in Underway(n)
  PROVE  /\ <<[s EXCEPT ![Len(s)] = act], [b EXCEPT ![Len(b)] = start]>> \in Nested(n)
         /\ start = Last(b) => <<[s EXCEPT ![Len(s)] = act], b>> \in Nested(n)
<1>1. act \in Activity(n) /\ start \in Beginning(n)
  BY UnderwayParts
<1>2. /\ s \in Seq(Activity(n)) /\ b \in Seq(Beginning(n)) /\ Len(s) \in Nat /\ Len(b) = Len(s)
      /\ \A k \in 1 .. Len(s) : <<s[k], b[k]>> \in Underway(n)
  BY NestedParts
<1>3. Len(s) \in 1 .. Len(s) /\ Last(b) = b[Len(s)]
  BY NestedLast
<1> DEFINE t == [s EXCEPT ![Len(s)] = act]
           c == [b EXCEPT ![Len(b)] = start]
<1>4. /\ t \in Seq(Activity(n)) /\ Len(t) = Len(s) /\ t[Len(s)] = act
      /\ \A k \in 1 .. Len(s) : k # Len(s) => t[k] = s[k]
  BY <1>1, <1>2, <1>3, ElementReplaced
<1>5. /\ c \in Seq(Beginning(n)) /\ Len(c) = Len(s) /\ c[Len(s)] = start
      /\ \A k \in 1 .. Len(s) : k # Len(s) => c[k] = b[k]
  BY <1>1, <1>2, <1>3, ElementReplaced
<1> HIDE DEF t, c
<1>6. <<t, c>> \in Nested(n)
  <2>1. \A k \in 1 .. Len(t) : <<t[k], c[k]>> \in Underway(n)
    BY <1>2, <1>4, <1>5
  <2>2. QED
    BY <1>4, <1>5, <2>1, NestedFrom
<1>7. ASSUME start = Last(b)
      PROVE  <<t, b>> \in Nested(n)
  <2>1. \A k \in 1 .. Len(t) : <<t[k], b[k]>> \in Underway(n)
    BY <1>2, <1>3, <1>4, <1>7
  <2>2. QED
    BY <1>2, <1>4, <2>1, NestedFrom
<1>8. QED
  BY <1>6, <1>7 DEF t, c

-----------------------------------------------------------------------------
(***************************************************************************)
(* Parts of steps.                                                         *)
(***************************************************************************)

LEMMA Facts ==
  ASSUME IInv
  PROVE  /\ Len(heap) \in Nat
         /\ heap \in Seq(Seq(Value(Len(heap))))
         /\ \A a \in 1 .. Len(heap) : heap[a] \in Seq(Value(Len(heap)))
         /\ store \in [Var -> Value(Len(heap))]
         /\ program \in [mentions : SUBSET Value(0), statements : Nat]
         /\ <<stack, begun>> \in Nested(Len(heap))
<1>1. PICK n \in Nat : /\ n = Len(heap) /\ heap \in Seq(Seq(Value(n)))
                       /\ store \in [Var -> Value(n)]
                       /\ program \in [mentions : SUBSET Value(0), statements : Nat]
                       /\ <<stack, begun>> \in Nested(n)
  BY DEF IInv
<1>2. \A a \in 1 .. Len(heap) : heap[a] \in Seq(Value(n))
  BY <1>1, ElementOfSeq
<1>3. QED
  BY <1>1, <1>2

LEMMA Named ==
  ASSUME IInv, NEW v \in Mentioned
  PROVE  v \in Value(Len(heap))
<1>1. /\ Len(heap) \in Nat /\ store \in [Var -> Value(Len(heap))]
      /\ program \in [mentions : SUBSET Value(0), statements : Nat] /\ <<stack, begun>> \in Nested(Len(heap))
  BY Facts
<1>2. Value(0) \subseteq Value(Len(heap))
  BY <1>1, Grows
<1>3. CASE \E x \in Var : v = store[x]
  BY <1>1, <1>3
<1>4. CASE v \in program.mentions
  BY <1>1, <1>2, <1>4
<1>5. CASE \E m \in DOMAIN stack : stack[m].what # "write" /\ v = stack[m].item
  <2>1. PICK m \in DOMAIN stack : stack[m].what # "write" /\ v = stack[m].item
    BY <1>5
  <2>2. stack[m] \in Activity(Len(heap))
    BY <1>1, <2>1, NestedParts, ElementOfSeq
  <2>3. stack[m] \in Going(Len(heap))
    BY <2>1, <2>2 DEF Activity, Writing
  <2>4. QED
    BY <2>1, <2>3 DEF Going
<1>6. QED
  BY <1>3, <1>4, <1>5 DEF Mentioned

(* The program mentions what it did. *)
LEMMA Kept ==
  ASSUME IInv, Statement \/ UNCHANGED program
  PROVE  program' \in [mentions : SUBSET Value(0), statements : Nat]
<1>1. program \in [mentions : SUBSET Value(0), statements : Nat]
  BY Facts
<1>2. CASE Statement
  <2>1. program.statements > 0 /\ program' = [program EXCEPT !.statements = program.statements - 1]
    BY <1>2 DEF Statement
  <2>2. program.statements - 1 \in Nat
    BY <1>1, <2>1
  <2>3. QED
    BY <1>1, <2>1, <2>2
<1>3. QED
  BY <1>1, <1>2

(* The arrays stay what they are. *)
LEMMA Stacking ==
  ASSUME IInv, Statement \/ UNCHANGED program, UNCHANGED heap,
         store' \in [Var -> Value(Len(heap))], <<stack', begun'>> \in Nested(Len(heap))
  PROVE  IInv'
<1>1. Len(heap) \in Nat /\ heap \in Seq(Seq(Value(Len(heap))))
  BY Facts
<1>2. program' \in [mentions : SUBSET Value(0), statements : Nat]
  BY Kept
<1>3. PICK n : n = Len(heap)
  OBVIOUS
<1>4. QED
  BY <1>1, <1>2, <1>3 DEF IInv

LEMMA Ending ==
  ASSUME IInv, Statement \/ UNCHANGED program, NEW how, Ends(how)
  PROVE  IInv'
<1>1. store \in [Var -> Value(Len(heap))] /\ <<stack, begun>> \in Nested(Len(heap))
  BY Facts
<1>2. UNCHANGED <<heap, store, stack, begun>>
  BY DEF Ends
<1>3. QED
  BY <1>1, <1>2, Stacking

LEMMA Getting ==
  ASSUME IInv, Statement, NEW x \in Var, NEW result, Fits(result, Len(heap)), Gets(x, result)
  PROVE  IInv'
<1>1. store \in [Var -> Value(Len(heap))] /\ <<stack, begun>> \in Nested(Len(heap))
  BY Facts
<1>2. CASE result.status = "ok"
  <2>1. store' = [store EXCEPT ![x] = result.value] /\ UNCHANGED <<heap, stack, begun>>
    BY <1>2 DEF Gets
  <2>2. result.value \in Value(Len(heap))
    BY <1>2 DEF Fits
  <2>3. store' \in [Var -> Value(Len(heap))]
    BY <1>1, <2>1, <2>2
  <2>4. QED
    BY <1>1, <2>1, <2>3, Stacking
<1>3. CASE result.status # "ok"
  BY <1>3, Ending DEF Gets
<1>4. QED
  BY <1>2, <1>3

(* One of the arrays changes. *)
LEMMA Changing ==
  ASSUME IInv, Statement \/ UNCHANGED program,
         NEW a \in 1 .. Len(heap), NEW items \in Seq(Value(Len(heap))), Changes(a, items),
         store' \in [Var -> Value(Len(heap))], <<stack', begun'>> \in Nested(Len(heap))
  PROVE  IInv'
<1>1. Len(heap) \in Nat /\ heap \in Seq(Seq(Value(Len(heap))))
  BY Facts
<1>2. program' \in [mentions : SUBSET Value(0), statements : Nat]
  BY Kept
<1>3. heap' = [heap EXCEPT ![a] = items]
  BY DEF Changes
<1>4. heap' \in Seq(Seq(Value(Len(heap)))) /\ Len(heap') = Len(heap)
  BY <1>1, <1>3, ElementReplaced
<1>5. PICK n : n = Len(heap)
  OBVIOUS
<1>6. QED
  BY <1>1, <1>2, <1>4, <1>5 DEF IInv

LEMMA Beginnings ==
  ASSUME IInv, Statement, NEW act, NEW with,
         <<act, [with |-> with, rounds |-> 0]>> \in Underway(Len(heap)), Begins(act, with)
  PROVE  IInv'
<1>1. /\ Len(heap) \in Nat /\ store \in [Var -> Value(Len(heap))]
      /\ <<stack, begun>> \in Nested(Len(heap))
  BY Facts
<1>2. /\ stack' = Append(stack, act) /\ begun' = Append(begun, [with |-> with, rounds |-> 0])
      /\ UNCHANGED <<heap, store>>
  BY DEF Begins
<1>3. <<stack', begun'>> \in Nested(Len(heap))
  BY <1>1, <1>2, NestedPushed
<1>4. QED
  BY <1>1, <1>2, <1>3, Stacking

-----------------------------------------------------------------------------
(***************************************************************************)
(* Statements.                                                             *)
(***************************************************************************)

LEMMA LetStep ==
  ASSUME IInv, NEW x \in Var, Let(x)
  PROVE  IInv'
<1>1. PICK v \in Mentioned : Gets(x, Got(v))
  BY DEF Let
<1>2. Fits(Got(v), Len(heap))
  BY Named, Statuses DEF Fits
<1>3. QED
  BY <1>1, <1>2, Getting DEF Let

LEMMA CreateStep ==
  ASSUME IInv, NEW x \in Var, Create(x)
  PROVE  IInv'
<1>1. /\ Len(heap) \in Nat /\ heap \in Seq(Seq(Value(Len(heap))))
      /\ store \in [Var -> Value(Len(heap))] /\ <<stack, begun>> \in Nested(Len(heap))
  BY Facts
<1>2. PICK n : n = Len(heap)
  OBVIOUS
<1>3. n \in Nat /\ n + 1 \in Nat /\ n <= n + 1
  BY <1>1, <1>2
<1>4. PICK items \in {<< >>} \cup {<<v>> : v \in Mentioned} :
        heap' = Append(heap, items) /\ store' = [store EXCEPT ![x] = Array(n + 1)]
  BY <1>2 DEF Create
<1>5. Value(n) \subseteq Value(n + 1) /\ Nested(n) \subseteq Nested(n + 1)
  BY <1>3, Grows, NestedGrows
<1>6. items \in Seq(Value(n + 1))
  <2>1. CASE items = << >>
    BY <2>1, EmptySeq
  <2>2. CASE \E v \in Mentioned : items = <<v>>
    <3>1. PICK v \in Mentioned : items = <<v>>
      BY <2>2
    <3>2. v \in Value(n + 1)
      BY <1>2, <1>5, Named
    <3>3. QED
      BY <3>1, <3>2
  <2>3. QED
    BY <1>4, <2>1, <2>2
<1>7. Seq(Value(n)) \subseteq Seq(Value(n + 1))
  BY <1>5, SeqMonotonic
<1>8. heap \in Seq(Seq(Value(n + 1)))
  BY <1>1, <1>2, <1>7, SeqMonotonic
<1>9. heap' \in Seq(Seq(Value(n + 1))) /\ Len(heap') = n + 1
  BY <1>2, <1>4, <1>6, <1>8, AppendProperties
<1>10. store' \in [Var -> Value(n + 1)]
  <2>1. Array(n + 1) \in Value(n + 1)
    BY <1>3, Made
  <2>2. QED
    BY <1>1, <1>2, <1>4, <1>5, <2>1
<1>11. program' \in [mentions : SUBSET Value(0), statements : Nat]
  BY Kept DEF Create
<1>12. <<stack', begun'>> \in Nested(n + 1)
  BY <1>1, <1>2, <1>5 DEF Create
<1>13. QED
  BY <1>3, <1>9, <1>10, <1>11, <1>12 DEF IInv

LEMMA AssignStep ==
  ASSUME Spelling, IInv, NEW x \in Var, Assign(x)
  PROVE  IInv'
<1>1. Statement /\ Len(heap) \in Nat /\ store[x] \in Value(Len(heap))
  BY Facts DEF Assign
<1>2. PICK op \in {"+", "-"}, v \in Mentioned : Gets(x, Compound(op, store[x], v, heap))
  BY DEF Assign
<1>3. v \in Value(Len(heap))
  BY Named
<1>4. Fits(Compound(op, store[x], v, heap), Len(heap))
  BY <1>1, <1>3, CompoundFits
<1>5. QED
  BY <1>1, <1>2, <1>4, Getting

LEMMA ReadStep ==
  ASSUME IInv, NEW x \in Var, Read(x)
  PROVE  IInv'
<1>1. Statement /\ Len(heap) \in Nat /\ heap \in Seq(Seq(Value(Len(heap))))
  BY Facts DEF Read
<1>2. PICK v \in Mentioned, i \in Mentioned :
        Is("number", i) /\ Gets(x, IF Is("array", v) THEN Item(v[2], i, heap) ELSE Failed)
  BY DEF Read
<1>3. v \in Value(Len(heap)) /\ i \in Value(Len(heap))
  BY Named
<1>4. CASE Is("array", v)
  <2>1. v[2] \in 1 .. Len(heap) /\ i[2] \in Int /\ i = Number(i[2])
    BY <1>1, <1>2, <1>3, <1>4, Kinds DEF Is
  <2>2. Fits(Item(v[2], i, heap), Len(heap))
    BY <1>1, <2>1, ItemFits
  <2>3. QED
    BY <1>1, <1>2, <1>4, <2>2, Getting
<1>5. CASE ~Is("array", v)
  <2>1. Fits(Failed, Len(heap))
    BY Statuses DEF Fits
  <2>2. QED
    BY <1>1, <1>2, <1>5, <2>1, Getting
<1>6. QED
  BY <1>4, <1>5

LEMMA EqualStep ==
  ASSUME IInv, NEW x \in Var, Equal(x)
  PROVE  IInv'
<1>1. Statement /\ Len(heap) \in Nat
  BY Facts DEF Equal
<1>2. PICK v \in Mentioned, w \in Mentioned : Gets(x, Equality("==", v, w, heap))
  BY DEF Equal
<1>3. QED
  BY <1>1, <1>2, EqualityFits, Getting

LEMMA NoMethodStep ==
  ASSUME IInv, Statement, NEW v, NoMethod(v)
  PROVE  IInv'
BY Ending DEF NoMethod

LEMMA AskStep ==
  ASSUME Spelling, IInv, NEW x \in Var, Ask(x)
  PROVE  IInv'
<1>1. Statement /\ Len(heap) \in Nat /\ \A a \in 1 .. Len(heap) : heap[a] \in Seq(Value(Len(heap)))
  BY Facts DEF Ask
<1>2. PICK v \in Mentioned :
        IF ~Is("array", v) THEN NoMethod(v)
        ELSE \/ \E w \in Mentioned : Gets(x, Holds(v[2], w, heap))
             \/ Gets(x, Got(Number(Len(heap[v[2]]))))
             \/ Gets(x, TextOf(v, heap))
  BY DEF Ask
<1>3. v \in Value(Len(heap))
  BY Named
<1>4. CASE ~Is("array", v)
  BY <1>1, <1>2, <1>4, NoMethodStep
<1>5. CASE Is("array", v)
  <2>1. CASE \E w \in Mentioned : Gets(x, Holds(v[2], w, heap))
    BY <1>1, <2>1, HoldsFits, Getting
  <2>2. CASE Gets(x, Got(Number(Len(heap[v[2]]))))
    <3>1. Len(heap[v[2]]) \in Int
      BY <1>1, <1>3, <1>5, Kinds, LenProperties DEF Is
    <3>2. Number(Len(heap[v[2]])) \in Value(Len(heap))
      BY <1>1, <3>1, Made
    <3>3. Fits(Got(Number(Len(heap[v[2]]))), Len(heap))
      BY <3>2, Statuses DEF Fits
    <3>4. QED
      BY <1>1, <2>2, <3>3, Getting
  <2>3. CASE Gets(x, TextOf(v, heap))
    <3>1. Fits(TextOf(v, heap), Len(heap))
      BY <1>1, <1>3, TextFits DEF Fits
    <3>2. QED
      BY <1>1, <2>3, <3>1, Getting
  <2>4. QED
    BY <1>2, <1>5, <2>1, <2>2, <2>3
<1>6. QED
  BY <1>4, <1>5

LEMMA ChangeStep ==
  ASSUME IInv, Change
  PROVE  IInv'
<1>1. /\ Statement /\ \A a \in 1 .. Len(heap) : heap[a] \in Seq(Value(Len(heap)))
      /\ store \in [Var -> Value(Len(heap))] /\ <<stack, begun>> \in Nested(Len(heap)) /\ Len(heap) \in Nat
  BY Facts DEF Change
<1>2. PICK v \in Mentioned :
        IF ~Is("array", v) THEN NoMethod(v)
        ELSE /\ \/ \E w \in Mentioned : Changes(v[2], Append(heap[v[2]], w))
                \/ Changes(v[2], Reverse(heap[v[2]]))
             /\ UNCHANGED <<store, stack, outcome, begun>>
  BY DEF Change
<1>3. v \in Value(Len(heap))
  BY Named
<1>4. CASE ~Is("array", v)
  BY <1>1, <1>2, <1>4, NoMethodStep
<1>5. CASE Is("array", v)
  <2>1. v[2] \in 1 .. Len(heap)
    BY <1>1, <1>3, <1>5, Kinds DEF Is
  <2>2. PICK items \in Seq(Value(Len(heap))) : Changes(v[2], items)
    <3>1. CASE \E w \in Mentioned : Changes(v[2], Append(heap[v[2]], w))
      BY <1>1, <2>1, <3>1, Named, AppendProperties
    <3>2. CASE Changes(v[2], Reverse(heap[v[2]]))
      BY <1>1, <2>1, <3>2, Reversed
    <3>3. QED
      BY <1>2, <1>5, <3>1, <3>2
  <2>3. UNCHANGED <<store, stack, begun>>
    BY <1>2, <1>5
  <2>4. QED
    BY <1>1, <2>1, <2>2, <2>3, Changing
<1>6. QED
  BY <1>4, <1>5

LEMMA FindByMethodStep ==
  ASSUME IInv, NEW x \in Var, FindByMethod(x)
  PROVE  IInv'
<1>1. /\ Statement /\ \A a \in 1 .. Len(heap) : heap[a] \in Seq(Value(Len(heap)))
      /\ store \in [Var -> Value(Len(heap))] /\ <<stack, begun>> \in Nested(Len(heap)) /\ Len(heap) \in Nat
  BY Facts DEF FindByMethod
<1>2. PICK v \in {u \in Mentioned : Is("array", u)} :
        \/ Gets(x, IF heap[v[2]] = << >> THEN Got(Void)
                   ELSE IF Holds(v[2], Head(heap[v[2]]), heap).status = "ok" THEN Got(Head(heap[v[2]])) ELSE Overflows)
        \/ /\ Changes(v[2], heap[v[2]] \o heap[v[2]])
           /\ store' = [store EXCEPT ![x] = Void] /\ UNCHANGED <<stack, outcome, begun>>
  BY DEF FindByMethod
<1>3. v[2] \in 1 .. Len(heap)
  BY <1>1, <1>2, Named, Kinds DEF Is
<1>4. heap[v[2]] \in Seq(Value(Len(heap)))
  BY <1>1, <1>3
<1>5. Void \in Value(Len(heap))
  BY <1>1, Made
<1>6. ASSUME NEW result,
             result = (IF heap[v[2]] = << >> THEN Got(Void)
                       ELSE IF Holds(v[2], Head(heap[v[2]]), heap).status = "ok" THEN Got(Head(heap[v[2]])) ELSE Overflows)
      PROVE  Fits(result, Len(heap))
  <2>1. heap[v[2]] # << >> => Head(heap[v[2]]) \in Value(Len(heap))
    BY <1>4, HeadTailProperties
  <2>2. QED
    BY <1>5, <1>6, <2>1, Statuses DEF Fits
<1>7. ASSUME Changes(v[2], heap[v[2]] \o heap[v[2]]), store' = [store EXCEPT ![x] = Void], UNCHANGED <<stack, begun>>
      PROVE  IInv'
  <2>1. heap[v[2]] \o heap[v[2]] \in Seq(Value(Len(heap)))
    BY <1>4, ConcatProperties
  <2>2. store' \in [Var -> Value(Len(heap))]
    BY <1>1, <1>5, <1>7
  <2>3. QED
    BY <1>1, <1>3, <1>7, <2>1, <2>2, Changing
<1>8. QED
  BY <1>1, <1>2, <1>6, <1>7, Getting

-----------------------------------------------------------------------------
(***************************************************************************)
(* Assignments to an item.                                                 *)
(***************************************************************************)

LEMMA BeginWriteStep ==
  ASSUME IInv, BeginWrite
  PROVE  IInv'
<1>1. Statement /\ Len(heap) \in Nat
  BY Facts DEF BeginWrite
<1>2. PICK v \in Mentioned, i \in Mentioned, op \in {"=", "+"} :
        IF Is("array", v) /\ Is("number", i)
        THEN Begins([what |-> "write", inside |-> TRUE, array |-> v[2], index |-> i, op |-> op], << >>)
        ELSE Ends("error")
  BY DEF BeginWrite
<1>3. v \in Value(Len(heap)) /\ i \in Value(Len(heap))
  BY Named
<1>4. CASE Is("array", v) /\ Is("number", i)
  <2> DEFINE act == [what |-> "write", inside |-> TRUE, array |-> v[2], index |-> i, op |-> op]
             start == [with |-> << >>, rounds |-> 0]
  <2>1. v[2] \in 1 .. Len(heap) /\ i \in {Number(m) : m \in Int}
    BY <1>1, <1>3, <1>4, Kinds DEF Is
  <2>2. act \in Writing(Len(heap))
    BY <2>1 DEF Writing
  <2>3. start \in Beginning(Len(heap))
    BY EmptySeq DEF Beginning
  <2>4. <<act, start>> \in Underway(Len(heap))
    BY <2>2, <2>3 DEF Underway
  <2> HIDE DEF act
  <2>5. Begins(act, << >>)
    BY <1>2, <1>4 DEF act
  <2>6. QED
    BY <1>1, <2>4, <2>5, Beginnings
<1>5. CASE ~(Is("array", v) /\ Is("number", i))
  BY <1>1, <1>2, <1>5, Ending
<1>6. QED
  BY <1>4, <1>5

LEMMA WrittenFits ==
  ASSUME NEW n \in Nat, NEW items \in Seq(Value(n)), NEW i \in Nat, i >= 1, NEW v \in Value(n)
  PROVE  Written(items, i, v) \in Seq(Value(n))
<1>1. Len(items) \in Nat /\ Void \in Value(n)
  BY LenProperties, Made
<1>2. Max({Len(items), i}) \in {Len(items), i}
  <2>1. \E m \in {Len(items), i} : \A k \in {Len(items), i} : m >= k
    BY <1>1
  <2>2. QED
    BY <2>1 DEF Max
<1> DEFINE m == Max({Len(items), i})
           f == [j \in 1 .. m |-> IF j = i THEN v ELSE IF j \in DOMAIN items THEN items[j] ELSE Void]
<1>3. m \in Nat
  BY <1>1, <1>2
<1> HIDE DEF m
<1>4. \A j \in DOMAIN items : items[j] \in Value(n)
  BY ElementOfSeq, LenProperties
<1>5. f \in [1 .. m -> Value(n)]
  BY <1>1, <1>4
<1>6. f \in Seq(Value(n))
  BY <1>3, <1>5, SeqDef
<1>7. QED
  BY <1>6 DEF Written, m

LEMMA EndWriteStep ==
  ASSUME Spelling, IInv, EndWrite
  PROVE  IInv'
<1>1. /\ \A a \in 1 .. Len(heap) : heap[a] \in Seq(Value(Len(heap)))
      /\ heap \in Seq(Seq(Value(Len(heap))))
      /\ store \in [Var -> Value(Len(heap))] /\ <<stack, begun>> \in Nested(Len(heap)) /\ Len(heap) \in Nat
  BY Facts
<1>2. stack # << >> /\ Last(stack).what = "write" /\ UNCHANGED program
  BY DEF EndWrite, Doing
<1> DEFINE to == Last(stack)
<1>3. to \in Writing(Len(heap))
  <2>1. to \in Activity(Len(heap))
    BY <1>1, <1>2, NestedLast
  <2>2. QED
    BY <1>2, <2>1 DEF Activity, Going, Loops
<1>4. /\ to.array \in 1 .. Len(heap) /\ to.index \in {Number(m) : m \in Int}
  BY <1>3 DEF Writing
<1>5. PICK i \in Int : to.index = Number(i)
  BY <1>4
<1>6. Place(to.index) \in Nat /\ Place(to.index) >= 1
  BY <1>5 DEF Place, Number
<1>7. PICK v \in Mentioned : \E old, made :
        /\ old = (IF to.op = "=" \/ v[1] \notin Prototypes THEN Got(Void) ELSE Item(to.array, to.index, heap))
        /\ made = (IF old.status = "ok" THEN Compound(to.op, old.value, v, heap) ELSE old)
        /\ IF made.status # "ok" THEN Ends(made.status)
           ELSE /\ Changes(to.array, Written(heap[to.array], Place(to.index), made.value))
                /\ Pops /\ UNCHANGED <<store, outcome>>
  BY DEF EndWrite
<1>8. PICK old, made :
        /\ old = (IF to.op = "=" \/ v[1] \notin Prototypes THEN Got(Void) ELSE Item(to.array, to.index, heap))
        /\ made = (IF old.status = "ok" THEN Compound(to.op, old.value, v, heap) ELSE old)
        /\ IF made.status # "ok" THEN Ends(made.status)
           ELSE /\ Changes(to.array, Written(heap[to.array], Place(to.index), made.value))
                /\ Pops /\ UNCHANGED <<store, outcome>>
  BY <1>7
<1>9. Fits(old, Len(heap))
  <2>1. Fits(Got(Void), Len(heap))
    BY <1>1, Made, Statuses DEF Fits
  <2>2. Fits(Item(to.array, to.index, heap), Len(heap))
    BY <1>1, <1>4, <1>5, ItemFits
  <2>3. QED
    BY <1>8, <2>1, <2>2
<1>10. Fits(made, Len(heap))
  <2>1. CASE old.status = "ok"
    <3>1. old.value \in Value(Len(heap))
      BY <1>9, <2>1 DEF Fits
    <3>2. QED
      BY <1>1, <1>8, <2>1, <3>1, Named, CompoundFits
  <2>2. CASE old.status # "ok"
    BY <1>8, <2>2 DEF Fits
  <2>3. QED
    BY <2>1, <2>2
<1>11. CASE made.status # "ok"
  BY <1>2, <1>8, <1>11, Ending
<1>12. CASE made.status = "ok"
  <2>1. Written(heap[to.array], Place(to.index), made.value) \in Seq(Value(Len(heap)))
    BY <1>1, <1>4, <1>6, <1>10, <1>12, WrittenFits DEF Fits
  <2>2. <<stack', begun'>> \in Nested(Len(heap))
    BY <1>1, <1>2, <1>8, <1>12, NestedPopped DEF Pops
  <2>3. Changes(to.array, Written(heap[to.array], Place(to.index), made.value)) /\ UNCHANGED store
    BY <1>8, <1>12
  <2>4. QED
    BY <1>1, <1>2, <1>4, <2>1, <2>2, <2>3, Changing
<1>13. QED
  BY <1>11, <1>12

-----------------------------------------------------------------------------
(***************************************************************************)
(* Loops and find begin.                                                   *)
(***************************************************************************)

(* One that goes over its course sets out on it. *)
LEMMA Outset ==
  ASSUME NEW n \in Nat, NEW what \in {"for", "find", "range", "upto"}, NEW array \in 0 .. n,
         NEW with, with \in Seq(Value(n)) \/ with \in Seq(Int),
         NEW items \in Seq(Value(n)), items = Course(what, with),
         what \in {"range", "upto"} => Bounded(what, with)
  PROVE  <<Rounds(what, array, items), [with |-> with, rounds |-> 0]>> \in Underway(n)
<1> DEFINE go == Rounds(what, array, items)
           start == [with |-> with, rounds |-> 0]
<1>1. Void \in Value(n)
  BY Made
<1>2. go \in Going(n) /\ go.what = what /\ go.items = items
  BY <1>1 DEF Rounds, Going, Loops
<1>3. start \in Beginning(n) /\ start.with = with /\ start.rounds = 0
  BY DEF Beginning
<1> HIDE DEF go, start
<1>4. Len(items) \in Nat /\ Course(go.what, start.with) = items
  BY <1>2, <1>3, LenProperties
<1>5. Left(go, start)
  <2>1. IF go.what \in {"range", "upto"} THEN Bounded(go.what, start.with) ELSE TRUE
    BY <1>2, <1>3
  <2>2. Len(items) = Len(items) - start.rounds /\ start.rounds <= Len(items)
    BY <1>3, <1>4
  <2>3. \A i \in 1 .. Len(items) : items[i] = items[start.rounds + i]
    BY <1>3
  <2>4. QED
    BY <1>2, <1>3, <1>4, <2>1, <2>2, <2>3 DEF Left
<1>6. <<go, start>> \in Underway(n)
  BY <1>2, <1>3, <1>5 DEF Underway
<1>7. QED
  BY <1>6 DEF go, start

LEMMA BeginForStep ==
  ASSUME IInv, BeginFor
  PROVE  IInv'
<1>1. Statement /\ Len(heap) \in Nat /\ \A a \in 1 .. Len(heap) : heap[a] \in Seq(Value(Len(heap)))
  BY Facts DEF BeginFor
<1>2. PICK v \in Mentioned :
        IF Is("array", v) THEN Begins(Rounds("for", v[2], heap[v[2]]), heap[v[2]]) ELSE Ends("error")
  BY DEF BeginFor
<1>3. CASE Is("array", v)
  <2>1. v[2] \in 1 .. Len(heap)
    BY <1>1, <1>3, Named, Kinds DEF Is
  <2>2. heap[v[2]] \in Seq(Value(Len(heap))) /\ v[2] \in 0 .. Len(heap)
    BY <1>1, <2>1
  <2>3. heap[v[2]] = Course("for", heap[v[2]])
    BY DEF Course
  <2>4. <<Rounds("for", v[2], heap[v[2]]), [with |-> heap[v[2]], rounds |-> 0]>> \in Underway(Len(heap))
    BY <1>1, <2>2, <2>3, Outset
  <2>5. QED
    BY <1>1, <1>2, <1>3, <2>4, Beginnings
<1>4. CASE ~Is("array", v)
  BY <1>1, <1>2, <1>4, Ending
<1>5. QED
  BY <1>3, <1>4

LEMMA BeginFindStep ==
  ASSUME IInv, BeginFind
  PROVE  IInv'
<1>1. Statement /\ Len(heap) \in Nat /\ \A a \in 1 .. Len(heap) : heap[a] \in Seq(Value(Len(heap)))
  BY Facts DEF BeginFind
<1>2. PICK v \in Mentioned :
        IF Is("array", v) THEN Begins(Rounds("find", v[2], heap[v[2]]), heap[v[2]]) ELSE NoMethod(v)
  BY DEF BeginFind
<1>3. CASE Is("array", v)
  <2>1. v[2] \in 1 .. Len(heap)
    BY <1>1, <1>3, Named, Kinds DEF Is
  <2>2. heap[v[2]] \in Seq(Value(Len(heap))) /\ v[2] \in 0 .. Len(heap)
    BY <1>1, <2>1
  <2>3. heap[v[2]] = Course("find", heap[v[2]])
    BY DEF Course
  <2>4. <<Rounds("find", v[2], heap[v[2]]), [with |-> heap[v[2]], rounds |-> 0]>> \in Underway(Len(heap))
    BY <1>1, <2>2, <2>3, Outset
  <2>5. QED
    BY <1>1, <1>2, <1>3, <2>4, Beginnings
<1>4. CASE ~Is("array", v)
  BY <1>1, <1>2, <1>4, NoMethodStep
<1>5. QED
  BY <1>3, <1>4

LEMMA BeginRangeStep ==
  ASSUME IInv, BeginRange
  PROVE  IInv'
<1>1. Statement /\ Len(heap) \in Nat
  BY Facts DEF BeginRange
<1>2. PICK l \in Mentioned, r \in Mentioned :
        IF ~Is("number", l) \/ ~Is("number", r) THEN Ends("panic")
        ELSE \/ Begins(Rounds("range", 0, Between(Whole(l), Whole(r))), <<Whole(l), Whole(r)>>)
             \/ Whole(l) >= Whole(r) /\ Top = Whole(l) /\ Ends("panic")
  BY DEF BeginRange
<1>3. ASSUME Is("number", l), Is("number", r),
             Begins(Rounds("range", 0, Between(Whole(l), Whole(r))), <<Whole(l), Whole(r)>>)
      PROVE  IInv'
  <2>1. Whole(l) \in Bottom .. Top /\ Whole(r) \in Bottom .. Top
    BY <1>1, <1>3, Named, Kinds, Wholes DEF Is
  <2>2. PICK with : with = <<Whole(l), Whole(r)>>
    OBVIOUS
  <2>3. with \in Seq(Int) /\ Len(with) = 2 /\ with[1] = Whole(l) /\ with[2] = Whole(r)
    BY <2>1, <2>2 DEF Bottom
  <2>4. Bounded("range", with)
    BY <2>1, <2>3 DEF Bounded
  <2>5. PICK items : items = Between(Whole(l), Whole(r))
    OBVIOUS
  <2>6. items \in Seq(Value(Len(heap))) /\ items = Course("range", with)
    BY <1>1, <2>1, <2>3, <2>5, BetweenCount DEF Course
  <2>7. <<Rounds("range", 0, items), [with |-> with, rounds |-> 0]>> \in Underway(Len(heap))
    <3>1. 0 \in 0 .. Len(heap)
      BY <1>1
    <3>2. QED
      BY <1>1, <2>3, <2>4, <2>6, <3>1, Outset
  <2>8. QED
    BY <1>1, <1>3, <2>2, <2>5, <2>7, Beginnings
<1>4. ASSUME Ends("panic")
      PROVE  IInv'
  BY <1>1, <1>4, Ending
<1>5. QED
  BY <1>2, <1>3, <1>4

LEMMA BeginUpToStep ==
  ASSUME IInv, BeginUpTo
  PROVE  IInv'
<1>1. Statement /\ Len(heap) \in Nat
  BY Facts DEF BeginUpTo
<1>2. PICK r \in Mentioned :
        IF Is("number", r) THEN Begins(Rounds("upto", 0, Numbers(0, Whole(r))), <<0, Whole(r)>>) ELSE Ends("panic")
  BY DEF BeginUpTo
<1>3. CASE Is("number", r)
  <2>1. Whole(r) \in Bottom .. Top /\ 0 \in Bottom .. Top
    <3>1. Whole(r) \in Bottom .. Top
      BY <1>1, <1>3, Named, Kinds, Wholes DEF Is
    <3>2. QED
      BY <3>1, TopAssumption DEF Bottom
  <2>2. PICK with : with = <<0, Whole(r)>>
    OBVIOUS
  <2>3. with \in Seq(Int) /\ Len(with) = 2 /\ with[1] = 0 /\ with[2] = Whole(r)
    BY <2>1, <2>2 DEF Bottom
  <2>4. Bounded("upto", with)
    BY <2>1, <2>3 DEF Bounded
  <2>5. PICK items : items = Numbers(0, Whole(r))
    OBVIOUS
  <2>6. items \in Seq(Value(Len(heap))) /\ items = Course("upto", with)
    BY <1>1, <2>1, <2>3, <2>5, NumbersCount DEF Course
  <2>7. <<Rounds("upto", 0, items), [with |-> with, rounds |-> 0]>> \in Underway(Len(heap))
    <3>1. 0 \in 0 .. Len(heap)
      BY <1>1
    <3>2. QED
      BY <1>1, <2>3, <2>4, <2>6, <3>1, Outset
  <2>8. QED
    BY <1>1, <1>2, <1>3, <2>2, <2>5, <2>7, Beginnings
<1>4. CASE ~Is("number", r)
  BY <1>1, <1>2, <1>4, Ending
<1>5. QED
  BY <1>3, <1>4

(* One without an end sets out with the number it begins with. *)
LEMMA BeginFromStep ==
  ASSUME IInv, BeginFrom
  PROVE  IInv'
<1>1. Statement /\ Len(heap) \in Nat
  BY Facts DEF BeginFrom
<1>2. PICK l \in Mentioned :
        IF Is("number", l) THEN Begins(Rounds("from", 0, <<Number(Whole(l))>>), <<Whole(l)>>) ELSE Ends("panic")
  BY DEF BeginFrom
<1>3. CASE Is("number", l)
  <2>1. Whole(l) \in Bottom .. Top /\ Whole(l) \in Int
    <3>1. Whole(l) \in Bottom .. Top
      BY <1>1, <1>3, Named, Kinds, Wholes DEF Is
    <3>2. QED
      BY <3>1, TopAssumption DEF Bottom
  <2>2. PICK with, items : with = <<Whole(l)>> /\ items = <<Number(Whole(l))>>
    OBVIOUS
  <2> DEFINE go == Rounds("from", 0, items)
             start == [with |-> with, rounds |-> 0]
  <2>3. with \in Seq(Int) /\ Len(with) = 1 /\ with[1] = Whole(l)
    BY <2>1, <2>2
  <2>4. items \in Seq(Value(Len(heap))) /\ Len(items) = 1 /\ items[1] = Number(Whole(l))
    <3>1. Number(Whole(l)) \in Value(Len(heap))
      BY <1>1, <2>1, Made
    <3>2. QED
      BY <2>2, <3>1
  <2>5. Void \in Value(Len(heap)) /\ 0 \in 0 .. Len(heap)
    BY <1>1, Made
  <2>6. go \in Going(Len(heap)) /\ go.what = "from" /\ go.items = items
    BY <2>4, <2>5 DEF Rounds, Going, Loops
  <2>7. start \in Beginning(Len(heap)) /\ start.with = with /\ start.rounds = 0
    BY <2>3 DEF Beginning
  <2> HIDE DEF go, start
  <2>8. Around(items[1], with[1], 0)
    <3>1. Whole(l) = with[1] + 0 - 0 * 2 * (Top + 1)
      BY <2>1, <2>3, TopAssumption
    <3>2. QED
      BY <2>1, <2>4, <3>1 DEF Around
  <2>9. Onwards(go, start)
    BY <2>3, <2>4, <2>6, <2>7, <2>8 DEF Onwards
  <2>10. <<go, start>> \in Underway(Len(heap))
    BY <2>6, <2>7, <2>9 DEF Underway
  <2>11. QED
    BY <1>1, <1>2, <1>3, <2>2, <2>10, Beginnings DEF go, start
<1>4. CASE ~Is("number", l)
  BY <1>1, <1>2, <1>4, Ending
<1>5. QED
  BY <1>3, <1>4

-----------------------------------------------------------------------------
(***************************************************************************)
(* A round.                                                                *)
(***************************************************************************)

(* The next number, after the largest the least. *)
LEMMA AroundNext ==
  ASSUME NEW v, NEW from \in Int, NEW steps \in Nat, Around(v, from, steps)
  PROVE  v[2] \in Bottom .. Top /\ Around(Number(Wrap(v[2] + 1)), from, steps + 1)
<1>1. PICK m \in Bottom .. Top, around \in 0 .. steps :
        v = Number(m) /\ m = from + steps - around * 2 * (Top + 1)
  BY DEF Around
<1>2. v[2] = m /\ m \in Int /\ Bottom = -Top - 1 /\ Top \in Nat
  BY <1>1, TopAssumption DEF Number, Bottom
<1>3. CASE m < Top
  <2>1. Wrap(m + 1) = m + 1 /\ m + 1 \in Bottom .. Top
    BY <1>2, <1>3 DEF Wrap
  <2>2. m + 1 = from + (steps + 1) - around * 2 * (Top + 1) /\ around \in 0 .. steps + 1
    BY <1>1, <1>2
  <2>3. QED
    BY <1>1, <1>2, <2>1, <2>2 DEF Around
<1>4. CASE m = Top
  <2>1. Wrap(m + 1) = Bottom /\ Bottom \in Bottom .. Top
    BY <1>2, <1>4 DEF Wrap
  <2>2. around + 1 \in 0 .. steps + 1 /\ around \in Nat
    BY <1>1
  <2>3. (around + 1) * 2 * (Top + 1) = around * 2 * (Top + 1) + 2 * (Top + 1)
    BY <1>2, <2>2
  <2>4. Bottom = from + (steps + 1) - (around + 1) * 2 * (Top + 1)
    BY <1>1, <1>2, <1>4, <2>2, <2>3
  <2>5. QED
    BY <1>1, <1>2, <2>1, <2>2, <2>4 DEF Around
<1>5. QED
  BY <1>1, <1>2, <1>3, <1>4

LEMMA AroundValue ==
  ASSUME NEW n \in Nat, NEW v, NEW from, NEW steps, Around(v, from, steps)
  PROVE  v \in Value(n)
<1>1. PICK m \in Bottom .. Top : v = Number(m)
  BY DEF Around
<1>2. m \in Int
  BY <1>1, TopAssumption DEF Bottom
<1>3. QED
  BY <1>1, <1>2, Made

(* What a round makes of a loop. *)
LEMMA RoundUnderway ==
  ASSUME NEW n \in Nat, NEW go \in Going(n), NEW start \in Beginning(n), <<go, start>> \in Underway(n),
         go.items # << >>
  PROVE  << [go EXCEPT !.inside = TRUE, !.items = Rest(go), !.given = Head(go.items), !.item = Head(go.items)],
            [start EXCEPT !.rounds = start.rounds + 1] >> \in Underway(n)
<1>1. IF go.what = "from" THEN Onwards(go, start) ELSE Left(go, start)
  BY DEF Underway, Writing, Going, Loops
<1>2. go.items \in Seq(Value(n)) /\ start.rounds \in Nat /\ go.what \in Loops \cup {"find"}
  BY DEF Going, Beginning
<1>3. /\ Head(go.items) = go.items[1] /\ Head(go.items) \in Value(n)
      /\ Tail(go.items) \in Seq(Value(n)) /\ Len(go.items) \in Nat
      /\ Len(Tail(go.items)) = Len(go.items) - 1
      /\ \A i \in 1 .. Len(Tail(go.items)) : Tail(go.items)[i] = go.items[i + 1]
  BY <1>2, HeadTailProperties, LenProperties
<1>4. PICK rest : rest = Rest(go)
  OBVIOUS
<1> DEFINE went == [go EXCEPT !.inside = TRUE, !.items = rest, !.given = Head(go.items), !.item = Head(go.items)]
           since == [start EXCEPT !.rounds = start.rounds + 1]
<1>5. /\ went.what = go.what /\ went.items = rest /\ went.given = go.items[1]
      /\ rest \in Seq(Value(n)) => went \in Going(n)
  BY <1>3 DEF Going
<1>6. since.with = start.with /\ since.rounds = start.rounds + 1 /\ since \in Beginning(n)
  BY <1>2 DEF Beginning
<1> HIDE DEF went, since
<1>7. CASE go.what = "from"
  <2>1. /\ start.with \in Seq(Int) /\ Len(start.with) = 1
        /\ Len(go.items) = 1 /\ Around(go.items[1], start.with[1], start.rounds)
    BY <1>1, <1>7 DEF Onwards
  <2>2. start.with[1] \in Int
    BY <2>1, ElementOfSeq
  <2>3. Around(Number(Wrap(go.items[1][2] + 1)), start.with[1], start.rounds + 1)
    BY <1>2, <2>1, <2>2, AroundNext
  <2>4. rest = <<Number(Wrap(go.items[1][2] + 1))>>
    BY <1>3, <1>4, <1>7 DEF Rest
  <2>5. Number(Wrap(go.items[1][2] + 1)) \in Value(n)
    BY <2>3, AroundValue
  <2>6. rest \in Seq(Value(n)) /\ Len(rest) = 1 /\ rest[1] = Number(Wrap(go.items[1][2] + 1))
    BY <2>4, <2>5
  <2>7. since.rounds - 1 = start.rounds
    BY <1>2, <1>6
  <2>8. Onwards(went, since)
    BY <1>5, <1>6, <2>1, <2>3, <2>6, <2>7 DEF Onwards
  <2>9. <<went, since>> \in Underway(n)
    BY <1>5, <1>6, <1>7, <2>6, <2>8 DEF Underway
  <2>10. QED
    BY <1>4, <2>9 DEF went, since
<1>8. CASE go.what # "from"
  <2> DEFINE course == Course(go.what, start.with)
  <2>1. /\ IF go.what \in {"range", "upto"} THEN Bounded(go.what, start.with) ELSE TRUE
        /\ start.rounds <= Len(course)
        /\ Len(go.items) = Len(course) - start.rounds
        /\ \A i \in 1 .. Len(go.items) : go.items[i] = course[start.rounds + i]
    BY <1>1, <1>8 DEF Left
  <2>2. Len(course) \in Nat
    <3>1. CASE go.what \in {"range", "upto"}
      <4>1. /\ start.with[1] \in Bottom .. Top /\ start.with[2] \in Bottom .. Top
        BY <2>1, <3>1 DEF Bounded
      <4>2. start.with[1] \in Int /\ start.with[2] \in Int
        BY <4>1, TopAssumption DEF Bottom
      <4>3. course \in Seq(Value(n))
        <5>1. Between(start.with[1], start.with[2]) \in Seq(Value(n))
          BY <4>1, BetweenCount
        <5>2. Numbers(0, start.with[2]) \in Seq(Value(n))
          <6>1. PICK to \in Int : to = start.with[2]
            BY <4>2
          <6>2. 0 \in Int
            OBVIOUS
          <6>3. Numbers(0, to) \in Seq(Value(n))
            BY <6>2, NumbersCount
          <6>4. QED
            BY <6>1, <6>3
        <5>3. QED
          BY <3>1, <5>1, <5>2 DEF Course
      <4>4. QED
        BY <4>3, LenProperties
    <3>2. CASE go.what \notin {"range", "upto"}
      <4>1. course = start.with
        BY <3>2 DEF Course
      <4>2. start.with \in Seq(Value(n)) \/ start.with \in Seq(Int)
        BY DEF Beginning
      <4>3. QED
        BY <4>1, <4>2, LenProperties
    <3>3. QED
      BY <3>1, <3>2
  <2>3. rest = Tail(go.items)
    BY <1>4, <1>8 DEF Rest
  <2>4. Len(go.items) >= 1
    BY <1>2, <1>3, EmptySeq
  <2>5. course = Course(went.what, since.with)
    BY <1>5, <1>6
  <2> HIDE DEF course
  <2>6. since.rounds <= Len(course) /\ Len(rest) = Len(course) - since.rounds
    BY <1>2, <1>3, <1>6, <2>1, <2>2, <2>3, <2>4
  <2>7. ASSUME NEW i \in 1 .. Len(rest)
        PROVE  rest[i] = course[since.rounds + i]
    <3>1. i \in 1 .. Len(go.items) - 1
      BY <1>3, <2>3
    <3>2. i + 1 \in 1 .. Len(go.items) /\ i \in Int
      BY <1>3, <3>1
    <3>3. start.rounds + (i + 1) = since.rounds + i
      BY <1>2, <1>6, <3>2
    <3>4. QED
      BY <1>3, <2>1, <2>3, <3>2, <3>3
  <2>8. went.given = course[since.rounds]
    <3>1. 1 \in 1 .. Len(go.items)
      BY <1>3, <2>4
    <3>2. QED
      BY <1>5, <1>6, <2>1, <3>1
  <2>9. Left(went, since)
    BY <1>5, <1>6, <2>1, <2>5, <2>6, <2>7, <2>8 DEF Left
  <2>10. <<went, since>> \in Underway(n)
    BY <1>3, <1>5, <1>6, <1>8, <2>3, <2>9 DEF Underway
  <2>11. QED
    BY <1>4, <2>10 DEF went, since
<1>9. QED
  BY <1>7, <1>8

(* A change to the variable of a loop, or to whether a round is on, leaves  *)
(* what is left to go over as it was.                                       *)
LEMMA SameRounds ==
  ASSUME NEW n \in Nat, NEW go \in Going(n), NEW start, <<go, start>> \in Underway(n),
         NEW inside \in BOOLEAN, NEW item \in Value(n)
  PROVE  <<[go EXCEPT !.inside = inside, !.item = item], start>> \in Underway(n)
<1> DEFINE went == [go EXCEPT !.inside = inside, !.item = item]
<1>1. /\ went.what = go.what /\ went.items = go.items /\ went.given = go.given
      /\ went \in Going(n)
  BY DEF Going
<1> HIDE DEF went
<1>2. start \in Beginning(n) /\ (IF go.what = "from" THEN Onwards(go, start) ELSE Left(go, start))
  BY DEF Underway, Writing, Going, Loops
<1>3. IF went.what = "from" THEN Onwards(went, start) ELSE Left(went, start)
  BY <1>1, <1>2 DEF Onwards, Left
<1>4. <<went, start>> \in Underway(n)
  BY <1>1, <1>2, <1>3 DEF Underway
<1>5. QED
  BY <1>4 DEF went

(* The innermost activity is a loop or a find. *)
LEMMA Innermost ==
  ASSUME IInv, Doing(Loops \cup {"find"})
  PROVE  /\ Len(heap) \in Nat /\ stack # << >> /\ <<stack, begun>> \in Nested(Len(heap))
         /\ Last(stack) \in Going(Len(heap)) /\ Last(begun) \in Beginning(Len(heap))
         /\ <<Last(stack), Last(begun)>> \in Underway(Len(heap))
         /\ Last(stack) = stack[Len(stack)] /\ Last(begun) = begun[Len(begun)]
<1>1. Len(heap) \in Nat /\ <<stack, begun>> \in Nested(Len(heap))
  BY Facts
<1>2. stack # << >> /\ Last(stack).what \in Loops \cup {"find"}
  BY DEF Doing
<1>3. /\ Last(stack) \in Activity(Len(heap)) /\ Last(begun) \in Beginning(Len(heap))
      /\ <<Last(stack), Last(begun)>> \in Underway(Len(heap))
      /\ Last(stack) = stack[Len(stack)] /\ Last(begun) = begun[Len(begun)]
  BY <1>1, <1>2, NestedLast
<1>4. Last(stack) \in Going(Len(heap))
  BY <1>2, <1>3 DEF Activity, Writing, Loops
<1>5. QED
  BY <1>1, <1>2, <1>3, <1>4

LEMMA RoundStep ==
  ASSUME IInv, Round
  PROVE  IInv'
<1>1. /\ Len(heap) \in Nat /\ stack # << >> /\ <<stack, begun>> \in Nested(Len(heap))
      /\ Last(stack) \in Going(Len(heap)) /\ Last(begun) \in Beginning(Len(heap))
      /\ <<Last(stack), Last(begun)>> \in Underway(Len(heap))
      /\ Last(stack) = stack[Len(stack)] /\ Last(begun) = begun[Len(begun)]
  BY Innermost DEF Round
<1>2. Last(stack).items # << >> /\ UNCHANGED program /\ store \in [Var -> Value(Len(heap))]
  BY Facts DEF Round
<1> DEFINE go == Last(stack)
           went == [go EXCEPT !.inside = TRUE, !.items = Rest(go), !.given = Head(go.items), !.item = Head(go.items)]
           since == [Last(begun) EXCEPT !.rounds = Last(begun).rounds + 1]
<1>3. CASE /\ stack' = [stack EXCEPT ![Len(stack)] = went]
           /\ begun' = [begun EXCEPT ![Len(begun)] = since]
           /\ UNCHANGED <<heap, store, outcome>>
  <2>1. <<went, since>> \in Underway(Len(heap))
    BY <1>1, <1>2, RoundUnderway
  <2> HIDE DEF went, since
  <2>2. <<stack', begun'>> \in Nested(Len(heap))
    BY <1>1, <1>3, <2>1, NestedReplaced
  <2>3. QED
    BY <1>2, <1>3, <2>2, Stacking
<1>4. CASE Ends("panic")
  BY <1>2, <1>4, Ending
<1>5. QED
  BY <1>1, <1>3, <1>4 DEF Round

LEMMA SetItemStep ==
  ASSUME IInv, SetItem
  PROVE  IInv'
<1>1. /\ Len(heap) \in Nat /\ stack # << >> /\ <<stack, begun>> \in Nested(Len(heap))
      /\ Last(stack) \in Going(Len(heap)) /\ <<Last(stack), Last(begun)>> \in Underway(Len(heap))
      /\ Last(stack) = stack[Len(stack)]
  BY Innermost DEF SetItem
<1>2. PICK v \in Mentioned : stack' = [stack EXCEPT ![Len(stack)].item = v]
  BY DEF SetItem
<1>3. Statement /\ UNCHANGED <<heap, store, begun>> /\ store \in [Var -> Value(Len(heap))]
  BY Facts DEF SetItem
<1> DEFINE went == [Last(stack) EXCEPT !.inside = Last(stack).inside, !.item = v]
<1>4. <<went, Last(begun)>> \in Underway(Len(heap))
  BY <1>1, Named, SameRounds DEF Going
<1>5. went = [Last(stack) EXCEPT !.item = v]
  BY <1>1 DEF Going
<1> HIDE DEF went
<1>6. stack' = [stack EXCEPT ![Len(stack)] = went]
  BY <1>1, <1>2, <1>5
<1>7. <<stack', begun'>> \in Nested(Len(heap))
  BY <1>1, <1>3, <1>4, <1>6, NestedReplaced
<1>8. QED
  BY <1>3, <1>7, Stacking

(* A round of a loop or a find is over. *)
LEMMA RoundOver ==
  ASSUME IInv, Doing(Loops \cup {"find"}), stack' = [stack EXCEPT ![Len(stack)].inside = FALSE], UNCHANGED begun
  PROVE  <<stack', begun'>> \in Nested(Len(heap))
<1>1. /\ Len(heap) \in Nat /\ stack # << >> /\ <<stack, begun>> \in Nested(Len(heap))
      /\ Last(stack) \in Going(Len(heap)) /\ <<Last(stack), Last(begun)>> \in Underway(Len(heap))
      /\ Last(stack) = stack[Len(stack)]
  BY Innermost
<1> DEFINE went == [Last(stack) EXCEPT !.inside = FALSE, !.item = Last(stack).item]
<1>2. <<went, Last(begun)>> \in Underway(Len(heap))
  BY <1>1, SameRounds DEF Going
<1>3. went = [Last(stack) EXCEPT !.inside = FALSE]
  BY <1>1 DEF Going
<1> HIDE DEF went
<1>4. stack' = [stack EXCEPT ![Len(stack)] = went]
  BY <1>1, <1>3
<1>5. QED
  BY <1>1, <1>2, <1>4, NestedReplaced

LEMMA EndRoundStep ==
  ASSUME IInv, EndRound
  PROVE  IInv'
<1>1. Doing(Loops \cup {"find"}) /\ UNCHANGED <<heap, store, program, begun>>
  BY DEF EndRound, Doing
<1>2. <<stack', begun'>> \in Nested(Len(heap))
  BY <1>1, RoundOver DEF EndRound
<1>3. QED
  BY <1>1, <1>2, Facts, Stacking

LEMMA Popping ==
  ASSUME IInv, stack # << >>, Pops, UNCHANGED <<heap, program>>, store' \in [Var -> Value(Len(heap))]
  PROVE  IInv'
<1>1. Len(heap) \in Nat /\ <<stack, begun>> \in Nested(Len(heap))
  BY Facts
<1>2. <<stack', begun'>> \in Nested(Len(heap))
  BY <1>1, NestedPopped DEF Pops
<1>3. QED
  BY <1>2, Stacking

LEMMA BreakStep ==
  ASSUME IInv, Break \/ EndLoop
  PROVE  IInv'
<1>1. stack # << >> /\ Pops /\ UNCHANGED <<heap, store, program>>
  BY DEF Break, EndLoop, Doing
<1>2. QED
  BY <1>1, Facts, Popping

LEMMA AnswerStep ==
  ASSUME IInv, NEW x \in Var, Answer(x)
  PROVE  IInv'
<1>1. Doing(Loops \cup {"find"}) /\ UNCHANGED <<heap, program>> /\ stack # << >>
  BY DEF Answer, Doing
<1>2. /\ Len(heap) \in Nat /\ Last(stack) \in Going(Len(heap)) /\ store \in [Var -> Value(Len(heap))]
  BY <1>1, Innermost, Facts
<1>3. CASE Pops /\ store' = [store EXCEPT ![x] = Last(stack).given]
  <2>1. Last(stack).given \in Value(Len(heap))
    BY <1>2 DEF Going
  <2>2. store' \in [Var -> Value(Len(heap))]
    BY <1>2, <1>3, <2>1
  <2>3. QED
    BY <1>1, <1>3, <2>2, Popping
<1>4. CASE stack' = [stack EXCEPT ![Len(stack)].inside = FALSE] /\ UNCHANGED <<store, begun>>
  <2>1. <<stack', begun'>> \in Nested(Len(heap))
    BY <1>1, <1>4, RoundOver
  <2>2. QED
    BY <1>1, <1>2, <1>4, <2>1, Stacking
<1>5. QED
  BY <1>3, <1>4 DEF Answer

LEMMA EndFindStep ==
  ASSUME IInv, NEW x \in Var, EndFind(x)
  PROVE  IInv'
<1>1. stack # << >> /\ Pops /\ UNCHANGED <<heap, program>> /\ store' = [store EXCEPT ![x] = Void]
  BY DEF EndFind, Doing
<1>2. Void \in Value(Len(heap)) /\ store \in [Var -> Value(Len(heap))]
  BY Facts, Made
<1>3. store' \in [Var -> Value(Len(heap))]
  BY <1>1, <1>2
<1>4. QED
  BY <1>1, <1>3, Popping

-----------------------------------------------------------------------------
LEMMA Initially ==
  ASSUME ArraysInit
  PROVE  IInv
<1>1. heap \in Seq(Seq(Value(0))) /\ Len(heap) = 0
  BY EmptySeq DEF ArraysInit
<1>2. store \in [Var -> Value(0)]
  BY Made DEF ArraysInit
<1>3. program \in [mentions : SUBSET Value(0), statements : Nat]
  <2>1. program \in Programs
    BY DEF ArraysInit
  <2>2. /\ program = [mentions |-> program.mentions, statements |-> program.statements]
        /\ program.statements \in Nat /\ \A v \in program.mentions : Plain(v)
    BY <2>1, ProgramsAssumption
  <2>3. program.mentions \subseteq Value(0)
    BY <2>2, PlainValues
  <2>4. QED
    BY <2>2, <2>3
<1>4. <<stack, begun>> \in Nested(0)
  BY NestedEmpty DEF ArraysInit
<1>5. QED
  BY <1>1, <1>2, <1>3, <1>4 DEF IInv

LEMMA Stutter ==
  ASSUME IInv, UNCHANGED arraysVars
  PROVE  IInv'
BY Facts, Stacking DEF arraysVars

LEMMA Step ==
  ASSUME Spelling, IInv, [ArraysNext]_arraysVars
  PROVE  IInv'
<1>1. ASSUME NEW x \in Var,
             \/ Let(x) \/ Create(x) \/ Assign(x) \/ Read(x) \/ Equal(x) \/ Ask(x)
             \/ FindByMethod(x) \/ Answer(x) \/ EndFind(x)
      PROVE  IInv'
  BY <1>1, LetStep, CreateStep, AssignStep, ReadStep, EqualStep, AskStep, FindByMethodStep, AnswerStep, EndFindStep
<1>2. CASE \/ Change \/ BeginWrite \/ EndWrite
           \/ BeginFor \/ BeginFind \/ BeginRange \/ BeginUpTo \/ BeginFrom
  BY <1>2, ChangeStep, BeginWriteStep, EndWriteStep, BeginForStep, BeginFindStep, BeginRangeStep, BeginUpToStep,
     BeginFromStep
<1>3. CASE Round \/ SetItem \/ EndRound \/ Break \/ EndLoop
  BY <1>3, RoundStep, SetItemStep, EndRoundStep, BreakStep
<1>4. QED
  BY <1>1, <1>2, <1>3, Stutter DEF ArraysNext

LEMMA Invariance ==
  ASSUME Spelling
  PROVE  ArraysSpec => []IInv
<1>1. ArraysInit => IInv
  BY Initially
<1>2. IInv /\ [ArraysNext]_arraysVars => IInv'
  BY Step
<1>3. QED
  BY <1>1, <1>2, PTL DEF ArraysSpec

-----------------------------------------------------------------------------
(***************************************************************************)
(* What the invariant means for the rounds.                                *)
(***************************************************************************)

LEMMA ListSettled ==
  ASSUME NEW n \in Nat, NEW go \in Going(n), NEW start \in Beginning(n), Left(go, start), go.what \in {"for", "find"}
  PROVE  Settled(go, start)
<1>1. Course(go.what, start.with) = start.with
  BY DEF Course
<1>2. start.rounds \in Nat /\ Len(start.with) \in Nat
  BY LenProperties DEF Beginning
<1>3. start.rounds + Len(go.items) = Len(start.with)
  BY <1>1, <1>2 DEF Left
<1>4. start.rounds > 0 => go.given = start.with[start.rounds]
  BY <1>1 DEF Left
<1>5. QED
  BY <1>3, <1>4 DEF Settled

LEMMA RangeSettled ==
  ASSUME NEW n \in Nat, NEW go \in Going(n), NEW start \in Beginning(n), Left(go, start), go.what \in {"range", "upto"}
  PROVE  Settled(go, start)
<1> DEFINE with == start.with
           rounds == start.rounds
           course == Course(go.what, with)
           steps == IF with[1] <= with[2] THEN rounds - 1 ELSE 1 - rounds
           distance == IF with[1] <= with[2] THEN with[2] - with[1] ELSE with[1] - with[2]
           all == IF with[2] < with[1] /\ (go.what = "upto" \/ with[1] = Top) THEN 0 ELSE distance
<1>1. /\ with[1] \in Bottom .. Top /\ with[2] \in Bottom .. Top
      /\ go.what = "upto" => with[1] = 0
  BY DEF Left, Bounded
<1>2. with[1] \in Int /\ with[2] \in Int /\ rounds \in Nat
  BY <1>1, TopAssumption DEF Bottom, Beginning
<1>3. /\ rounds <= Len(course) /\ Len(go.items) = Len(course) - rounds
      /\ rounds > 0 => go.given = course[rounds]
  BY DEF Left
<1>4. /\ Len(course) = all
      /\ \A i \in 1 .. Len(course) :
           course[i] = Number(with[1] + (IF with[1] <= with[2] THEN i - 1 ELSE 1 - i))
  <2>1. CASE go.what = "range"
    <3>1. course = Between(with[1], with[2])
      BY <2>1 DEF Course
    <3> HIDE DEF course
    <3>2. /\ course \in Seq(Value(n))
          /\ Len(course) = (IF with[1] <= with[2] THEN with[2] - with[1]
                            ELSE IF with[1] = Top THEN 0 ELSE with[1] - with[2])
          /\ \A i \in 1 .. Len(course) :
               course[i] = Number(IF with[1] <= with[2] THEN with[1] + i - 1 ELSE with[1] - i + 1)
      BY <1>1, <3>1, BetweenCount
    <3>3. Len(course) = all
      BY <1>2, <2>1, <3>2
    <3>4. ASSUME NEW i \in 1 .. Len(course)
          PROVE  course[i] = Number(with[1] + (IF with[1] <= with[2] THEN i - 1 ELSE 1 - i))
      <4>1. i \in Int
        OBVIOUS
      <4>2. (IF with[1] <= with[2] THEN with[1] + i - 1 ELSE with[1] - i + 1)
              = with[1] + (IF with[1] <= with[2] THEN i - 1 ELSE 1 - i)
        BY <1>2, <4>1
      <4>3. QED
        BY <3>2, <4>2
    <3>5. QED
      BY <3>3, <3>4
  <2>2. CASE go.what = "upto"
    <3>1. course = Numbers(0, with[2]) /\ with[1] = 0
      BY <1>1, <2>2 DEF Course
    <3>2. PICK to \in Int : to = with[2]
      BY <1>2
    <3>3. 0 \in Int
      OBVIOUS
    <3> HIDE DEF course
    <3>4. /\ course \in Seq(Value(n))
          /\ Len(course) = (IF 0 <= to THEN to - 0 ELSE 0)
          /\ \A i \in 1 .. Len(course) : course[i] = Number(0 + i - 1)
      BY <3>1, <3>2, <3>3, NumbersCount
    <3>5. Len(course) = all
      BY <2>2, <3>1, <3>2, <3>4
    <3>6. ASSUME NEW i \in 1 .. Len(course)
          PROVE  course[i] = Number(with[1] + (IF with[1] <= with[2] THEN i - 1 ELSE 1 - i))
      <4>1. i \in Int /\ i >= 1 /\ Len(course) >= 1
        BY <3>2, <3>4
      <4>2. with[1] <= with[2]
        BY <3>1, <3>2, <3>4, <4>1
      <4>3. 0 + i - 1 = with[1] + (IF with[1] <= with[2] THEN i - 1 ELSE 1 - i)
        BY <3>1, <4>1, <4>2
      <4>4. QED
        BY <3>4, <4>3
    <3>7. QED
      BY <3>5, <3>6
  <2>3. QED
    BY <2>1, <2>2
<1> HIDE DEF course
<1>5. all \in Int
  BY <1>2
<1>6. rounds + Len(go.items) = all
  BY <1>2, <1>3, <1>4, <1>5
<1>7. rounds > 0 => go.given = Number(with[1] + steps)
  <2>1. ASSUME rounds > 0
        PROVE  rounds \in 1 .. Len(course)
    BY <1>2, <1>3, <1>4, <1>5, <2>1
  <2>2. QED
    BY <1>3, <1>4, <2>1
<1>8. QED
  BY <1>6, <1>7 DEF Settled

LEMMA EndlessSettled ==
  ASSUME NEW n \in Nat, NEW go \in Going(n), NEW start \in Beginning(n), Onwards(go, start), go.what = "from"
  PROVE  Settled(go, start)
<1> DEFINE with == start.with
           rounds == start.rounds
<1>1. with[1] \in Int /\ rounds \in Nat
  BY ElementOfSeq DEF Onwards, Beginning
<1>2. ASSUME rounds > 0
      PROVE  \E around \in 0 .. rounds :
               /\ go.given = Number(with[1] + rounds - 1 - around * 2 * (Top + 1))
               /\ go.given[2] \in Bottom .. Top
  <2>1. Around(go.given, with[1], rounds - 1)
    BY <1>2 DEF Onwards
  <2>2. PICK m \in Bottom .. Top, around \in 0 .. rounds - 1 :
          go.given = Number(m) /\ m = with[1] + (rounds - 1) - around * 2 * (Top + 1)
    BY <2>1 DEF Around
  <2>3. around \in 0 .. rounds /\ around \in Int
    BY <1>1, <2>2
  <2>4. around * 2 * (Top + 1) \in Int
    BY <2>3, TopAssumption
  <2>5. m = with[1] + rounds - 1 - around * 2 * (Top + 1)
    BY <1>1, <2>2, <2>4
  <2>6. go.given[2] = m
    BY <2>2 DEF Number
  <2>7. QED
    BY <2>2, <2>3, <2>5, <2>6
<1>3. QED
  BY <1>2 DEF Settled

LEMMA RoundsFollow ==
  ASSUME IInv
  PROVE  RoundsSettled
<1>1. SUFFICES ASSUME NEW k \in DOMAIN stack, stack[k].what # "write"
               PROVE  Settled(stack[k], begun[k])
  BY DEF RoundsSettled
<1>2. PICK n \in Nat : <<stack, begun>> \in Nested(n)
  BY DEF IInv
<1>3. PICK go, start : go = stack[k] /\ start = begun[k]
  OBVIOUS
<1>4. <<go, start>> \in Underway(n) /\ go.what # "write"
  BY <1>1, <1>2, <1>3, NestedParts
<1>5. /\ go \in Going(n) /\ start \in Beginning(n)
      /\ IF go.what = "from" THEN Onwards(go, start) ELSE Left(go, start)
  BY <1>4 DEF Underway, Writing
<1>6. go.what \in {"for", "find", "range", "upto", "from"}
  BY <1>5 DEF Going, Loops
<1>7. Settled(go, start)
  BY <1>5, <1>6, ListSettled, RangeSettled, EndlessSettled
<1>8. QED
  BY <1>3, <1>7

(* Every loop and every find goes over exactly what it was to go over when  *)
(* it began, whatever its rounds do to the array (eval_for, and find).      *)
THEOREM Rounding ==
  ASSUME Spelling
  PROVE  ArraysSpec => []RoundsSettled
<1>1. IInv => RoundsSettled
  BY RoundsFollow
<1>2. ArraysSpec => []IInv
  BY Invariance
<1>3. QED
  BY <1>1, <1>2, PTL

-----------------------------------------------------------------------------
(***************************************************************************)
(* What the operators agree on.                                            *)
(***************************************************************************)

(* An operation that makes something is one of two numbers, or joins        *)
(* something to a string.                                                   *)
LEMMA Operations ==
  ASSUME NEW v, NEW w, NEW h, NEW op, NEW kind, Operate(kind, op, v, w, h).status = "ok"
  PROVE  \/ kind = "number" /\ v[1] = "number" /\ w[1] = "number"
         \/ kind = "string" /\ v[1] = "string"
<1>1. CASE kind \notin Prototypes
  BY <1>1, Statuses DEF Operate, Prototypes
<1>2. CASE kind = "number"
  BY <1>2, Statuses DEF Operate, Prototypes, Is
<1>3. CASE kind = "string"
  BY <1>3, Statuses DEF Operate, Prototypes, Is
<1>4. CASE kind \in Prototypes /\ kind # "number" /\ kind # "string"
  BY <1>4, Statuses DEF Operate, Is
<1>5. QED
  BY <1>1, <1>2, <1>3, <1>4

LEMMA SumsAgree ==
  ASSUME NEW v, NEW w, NEW h, NEW op \in {"+", "-"}
  PROVE  /\ Compound(op, v, w, h).status = "ok" => Compound(op, v, w, h) = Binary(op, v, w, h)
         /\ Binary(op, v, w, h).status = "ok" /\ Compound(op, v, w, h) # Binary(op, v, w, h) =>
              Is("string", v) /\ ~Is("string", w)
<1>1. Compound(op, v, w, h) = Operate(w[1], op, v, w, h) /\ Binary(op, v, w, h) = Operate(v[1], op, v, w, h)
  BY DEF Compound, Binary
<1>2. CASE v[1] = w[1]
  BY <1>1, <1>2
<1>3. CASE v[1] # w[1]
  <2>1. Compound(op, v, w, h).status # "ok"
    BY <1>1, <1>3, Operations
  <2>2. Binary(op, v, w, h).status = "ok" => v[1] = "string"
    BY <1>1, <1>3, Operations
  <2>3. QED
    BY <1>3, <2>1, <2>2 DEF Is
<1>4. QED
  BY <1>2, <1>3

LEMMA LeastOf ==
  ASSUME NEW T, T \subseteq Nat, T # {}
  PROVE  Min(T) \in T
<1>1. \E m \in T : \A n \in T : m <= n
  BY LeastNatural
<1>2. QED
  BY <1>1 DEF Min

LEMMA Signs ==
  ASSUME NEW a \in Int, NEW b \in Int
  PROVE  /\ Sign(a - b) = "less" <=> Sign(b - a) = "greater"
         /\ Sign(a - b) = "equal" <=> a = b
BY DEF Sign

(* Places where two strings differ. *)
Differing(s, t) == {i \in (DOMAIN s) \cap DOMAIN t : s[i] # t[i]}

LEMMA StringOrder ==
  ASSUME NEW s \in Seq(Int), NEW t \in Seq(Int)
  PROVE  /\ Order(Text(s), Text(t)) = "less" <=> Order(Text(t), Text(s)) = "greater"
         /\ Order(Text(s), Text(t)) = "equal" <=> s = t
<1>1. /\ Len(s) \in Nat /\ Len(t) \in Nat /\ DOMAIN s = 1 .. Len(s) /\ DOMAIN t = 1 .. Len(t)
      /\ \A i \in 1 .. Len(s) : s[i] \in Int
      /\ \A i \in 1 .. Len(t) : t[i] \in Int
  BY LenProperties, ElementOfSeq
<1>2. ASSUME NEW a \in Seq(Int), NEW b \in Seq(Int)
      PROVE  Order(Text(a), Text(b)) =
               IF Differing(a, b) = {} THEN Sign(Len(a) - Len(b))
               ELSE Sign(a[Min(Differing(a, b))] - b[Min(Differing(a, b))])
  BY DEF Order, Text, Is, Differing
<1>3. Differing(s, t) = Differing(t, s)
  BY DEF Differing
<1>4. CASE Differing(s, t) = {}
  <2>1. Len(s) = Len(t) => s = t
    <3>1. ASSUME Len(s) = Len(t)
          PROVE  \A i \in 1 .. Len(s) : s[i] = t[i]
      BY <1>1, <1>4, <3>1 DEF Differing
    <3>2. QED
      BY <3>1, SeqEqual
  <2>2. Order(Text(s), Text(t)) = Sign(Len(s) - Len(t)) /\ Order(Text(t), Text(s)) = Sign(Len(t) - Len(s))
    BY <1>2, <1>3, <1>4
  <2>3. PICK a \in Int, b \in Int : a = Len(s) /\ b = Len(t)
    <3>1. Len(s) \in Int /\ Len(t) \in Int
      BY <1>1
    <3>2. QED
      BY <3>1
  <2>4. /\ Sign(Len(s) - Len(t)) = "less" <=> Sign(Len(t) - Len(s)) = "greater"
        /\ Sign(Len(s) - Len(t)) = "equal" <=> Len(s) = Len(t)
    BY <2>3, Signs
  <2>5. QED
    BY <2>1, <2>2, <2>4
<1>5. CASE Differing(s, t) # {}
  <2>1. PICK i : i = Min(Differing(s, t))
    OBVIOUS
  <2>2. Differing(s, t) \subseteq Nat
    BY <1>1 DEF Differing
  <2>3. i \in Differing(s, t)
    BY <1>5, <2>1, <2>2, LeastOf
  <2>4. s[i] \in Int /\ t[i] \in Int /\ s[i] # t[i] /\ s # t
    BY <1>1, <2>3 DEF Differing
  <2>5. Order(Text(s), Text(t)) = Sign(s[i] - t[i]) /\ Order(Text(t), Text(s)) = Sign(t[i] - s[i])
    BY <1>2, <1>3, <1>5, <2>1
  <2>6. QED
    BY <2>4, <2>5 DEF Sign
<1>6. QED
  BY <1>4, <1>5

(* Less one way is greater the other, and only the same are neither, but    *)
(* for arrays, which have no order.                                         *)
LEMMA Orders ==
  ASSUME NEW n \in Nat, NEW v \in Value(n), NEW w \in Value(n)
  PROVE  /\ Order(v, w) = "less" <=> Order(w, v) = "greater"
         /\ ~Is("array", v) => (Order(v, w) = "equal" <=> v = w)
<1>1. CASE v[1] # w[1]
  <2>1. Order(v, w) = "none" /\ Order(w, v) = "none" /\ v # w
    BY <1>1 DEF Order
  <2>2. QED
    BY <2>1
<1>2. CASE v[1] = w[1] /\ v[1] = "number"
  <2>1. v[2] \in Int /\ w[2] \in Int /\ v = Number(v[2]) /\ w = Number(w[2])
    BY <1>2, Kinds
  <2>2. Order(v, w) = Sign(v[2] - w[2]) /\ Order(w, v) = Sign(w[2] - v[2])
    BY <1>2 DEF Order, Is
  <2>3. v = w <=> v[2] = w[2]
    BY <2>1
  <2>4. QED
    BY <2>1, <2>2, <2>3 DEF Sign
<1>3. CASE v[1] = w[1] /\ v[1] = "bool"
  <2>1. (v = Bool(TRUE) \/ v = Bool(FALSE)) /\ (w = Bool(TRUE) \/ w = Bool(FALSE))
    BY <1>3, Kinds
  <2>2. /\ Order(Bool(TRUE), Bool(TRUE)) = "equal" /\ Order(Bool(FALSE), Bool(FALSE)) = "equal"
        /\ Order(Bool(TRUE), Bool(FALSE)) = "greater" /\ Order(Bool(FALSE), Bool(TRUE)) = "less"
    BY DEF Order, Bool, Is, Sign
  <2>3. QED
    BY <2>1, <2>2
<1>4. CASE v[1] = w[1] /\ v[1] = "string"
  <2>1. v[2] \in Seq(Int) /\ w[2] \in Seq(Int) /\ v = Text(v[2]) /\ w = Text(w[2])
    BY <1>4, Kinds
  <2>2. PICK s \in Seq(Int), t \in Seq(Int) : v = Text(s) /\ w = Text(t)
    BY <2>1
  <2>3. v = w <=> s = t
    BY <2>2 DEF Text
  <2>4. QED
    BY <2>2, <2>3, StringOrder
<1>5. CASE v[1] = w[1] /\ v[1] = "void"
  <2>1. v = Void /\ w = Void
    BY <1>5, Kinds
  <2>2. Order(v, w) = "equal" /\ Order(w, v) = "equal"
    BY <1>5 DEF Order, Is
  <2>3. QED
    BY <2>1, <2>2
<1>6. CASE v[1] = w[1] /\ v[1] = "array"
  BY <1>6 DEF Order, Is
<1>7. QED
  BY <1>1, <1>2, <1>3, <1>4, <1>5, <1>6, Kinds

LEMMA TruthOfBool ==
  ASSUME NEW b \in BOOLEAN
  PROVE  Truth(Bool(b)) = b
BY DEF Truth, Bool, Is

(* Of values that are not both arrays, the same are equal. *)
LEMMA EqualityOfOthers ==
  ASSUME NEW v, NEW w, NEW h, ~Is("array", v)
  PROVE  Truth(Equality("==", v, w, h).value) = (v = w)
<1>1. Compared(v, w, h) = IF v = w THEN "same" ELSE "different"
  BY DEF Compared, ComparedItems
<1> DEFINE b == (Compared(v, w, h) = "same") = ("==" = "==")
<1>2. b \in BOOLEAN /\ b = (v = w)
  BY <1>1
<1>3. Equality("==", v, w, h) = Got(Bool(b))
  BY <1>1 DEF Equality
<1> HIDE DEF b
<1>4. Truth(Bool(b)) = b
  BY <1>2, TruthOfBool
<1>5. QED
  BY <1>2, <1>3, <1>4, Statuses

LEMMA RelationsAgree ==
  ASSUME NEW n \in Nat, NEW v \in Value(n), NEW w \in Value(n), NEW h
  PROVE  /\ Relation("<", v, w) = Relation(">", w, v)
         /\ ~Is("array", v) =>
              Truth(Relation("<=", v, w)) = (Truth(Relation("<", v, w)) \/ Truth(Equality("==", v, w, h).value))
<1> DEFINE lt == Order(v, w) \in {"less"}
           gt == Order(w, v) \in {"greater"}
           le == Order(v, w) \in {"less", "equal"}
<1>1. Relation("<", v, w) = Bool(lt) /\ Relation(">", w, v) = Bool(gt) /\ Relation("<=", v, w) = Bool(le)
  BY DEF Relation
<1>2. lt \in BOOLEAN /\ gt \in BOOLEAN /\ le \in BOOLEAN
  OBVIOUS
<1>3. lt = gt
  BY Orders
<1>4. ~Is("array", v) => le = (lt \/ v = w)
  BY Orders
<1> HIDE DEF lt, gt, le
<1>5. Truth(Bool(lt)) = lt /\ Truth(Bool(le)) = le
  BY <1>2, TruthOfBool
<1>6. ~Is("array", v) => Truth(Equality("==", v, w, h).value) = (v = w)
  BY EqualityOfOthers
<1>7. QED
  BY <1>1, <1>3, <1>4, <1>5, <1>6

(* In every state that programs reach, operators make of the values there   *)
(* what the assignments with them do, and relations agree with equality     *)
(* (eval_binary_op and the prototypes, partial_cmp).                        *)
THEOREM Operators ==
  ASSUME Spelling
  PROVE  ArraysSpec => []OperatorsAgree
<1>1. IInv => OperatorsAgree
  <2>1. SUFFICES ASSUME IInv, NEW v \in Mentioned, NEW w \in Mentioned
                 PROVE  /\ \A op \in {"+", "-"} :
                             /\ Compound(op, v, w, heap).status = "ok" => Compound(op, v, w, heap) = Binary(op, v, w, heap)
                             /\ Binary(op, v, w, heap).status = "ok" /\ Compound(op, v, w, heap) # Binary(op, v, w, heap) =>
                                  Is("string", v) /\ ~Is("string", w)
                        /\ Relation("<", v, w) = Relation(">", w, v)
                        /\ ~Is("array", v) =>
                             Truth(Relation("<=", v, w)) = (Truth(Relation("<", v, w)) \/ Truth(Equality("==", v, w, heap).value))
    BY DEF OperatorsAgree
  <2>2. Len(heap) \in Nat /\ v \in Value(Len(heap)) /\ w \in Value(Len(heap))
    BY <2>1, Facts, Named
  <2>3. QED
    BY <2>1, <2>2, SumsAgree, RelationsAgree
<1>2. ArraysSpec => []IInv
  BY Invariance
<1>3. QED
  BY <1>1, <1>2, PTL

-----------------------------------------------------------------------------
(***************************************************************************)
(* How comparing goes with more and more room on the stack, beside what it *)
(* is to find out: how deep arrays go, and what tells them apart.          *)
(***************************************************************************)

(* The contents of n arrays. *)
Heaped(n, h) == n \in Nat /\ h \in Seq(Seq(Value(n))) /\ Len(h) = n

LEMMA HeapedParts ==
  ASSUME NEW n, NEW h, Heaped(n, h)
  PROVE  /\ n \in Nat /\ DOMAIN h = 1 .. n
         /\ \A a \in 1 .. n : /\ Len(h[a]) \in Nat /\ DOMAIN h[a] = 1 .. Len(h[a])
                              /\ \A i \in DOMAIN h[a] : h[a][i] \in Value(n)
         /\ \A v \in Value(n) : Is("array", v) => v[2] \in 1 .. n /\ v = Array(v[2])
<1>1. n \in Nat /\ DOMAIN h = 1 .. n /\ \A a \in 1 .. n : h[a] \in Seq(Value(n))
  BY LenProperties, ElementOfSeq DEF Heaped
<1>2. ASSUME NEW a \in 1 .. n
      PROVE  /\ Len(h[a]) \in Nat /\ DOMAIN h[a] = 1 .. Len(h[a])
             /\ \A i \in DOMAIN h[a] : h[a][i] \in Value(n)
  <2>1. PICK s \in Seq(Value(n)) : s = h[a]
    BY <1>1
  <2>2. Len(s) \in Nat /\ DOMAIN s = 1 .. Len(s) /\ \A i \in 1 .. Len(s) : s[i] \in Value(n)
    BY LenProperties, ElementOfSeq
  <2>3. QED
    BY <2>1, <2>2
<1>3. \A v \in Value(n) : Is("array", v) => v[2] \in 1 .. n /\ v = Array(v[2])
  BY <1>1, Kinds DEF Is
<1>4. QED
  BY <1>1, <1>2, <1>3

(* Arrays with a path through so many arrays, from one more on.             *)
Deeper(h, L) == {a \in DOMAIN h : \E i \in DOMAIN h[a] : Is("array", h[a][i]) /\ h[a][i][2] \in L}
Deepening(h, L) == L \in [Nat -> SUBSET DOMAIN h] /\ L[0] = DOMAIN h /\ \A k \in Nat : L[k + 1] = Deeper(h, L[k])

(* Arrays that nothing tells apart so far on, from one more on.             *)
AlikeBut(v, w, Q) == IF Is("array", v) /\ Is("array", w) THEN <<v[2], w[2]>> \in Q ELSE v = w
Closer(h, Q) ==
  {p \in (DOMAIN h) \X DOMAIN h :
     Len(h[p[1]]) = Len(h[p[2]]) /\ \A i \in DOMAIN h[p[1]] : AlikeBut(h[p[1]][i], h[p[2]][i], Q)}
AsLong(h) == {p \in (DOMAIN h) \X DOMAIN h : Len(h[p[1]]) = Len(h[p[2]])}
Closing(h, P) ==
  P \in [Nat -> SUBSET ((DOMAIN h) \X DOMAIN h)] /\ P[0] = AsLong(h) /\ \A k \in Nat : P[k + 1] = Closer(h, P[k])

(* What comparing them comes to with more and more room. *)
Verdict == {"same", "different", "overflow"}
Comparing(h, C) ==
  /\ C \in [Nat -> [(DOMAIN h) \X DOMAIN h -> Verdict]]
  /\ \A p \in (DOMAIN h) \X DOMAIN h :
       /\ C[0][p] = "overflow"
       /\ \A k \in Nat : C[k + 1][p] = ComparedLists(h[p[1]], h[p[2]], C[k])

LEMMA DeepeningIs ==
  ASSUME NEW h
  PROVE  \E L : Deepening(h, L) /\ \E g : Chained(SUBSET DOMAIN h, g, L[0], L)
<1> DEFINE S == SUBSET DOMAIN h
           g == [L \in S |-> Deeper(h, L)]
           x == DOMAIN h
<1>1. g \in [S -> S] /\ x \in S /\ \A L \in S : g[L] = Deeper(h, L)
  BY DEF Deeper
<1>2. PICK R, y, r : R = S /\ y = x /\ r = g
  OBVIOUS
<1>3. r \in [R -> R] /\ y \in R
  BY <1>1, <1>2
<1>4. PICK L : Chained(R, r, y, L)
  BY <1>3, Chains
<1>5. L \in [Nat -> S] /\ L[0] = x /\ \A d \in Nat : L[d + 1] = g[L[d]]
  BY <1>2, <1>4 DEF Chained
<1>6. \A d \in Nat : L[d + 1] = Deeper(h, L[d])
  BY <1>1, <1>5
<1>7. Deepening(h, L)
  BY <1>5, <1>6 DEF Deepening
<1>8. Chained(SUBSET DOMAIN h, r, L[0], L)
  BY <1>2, <1>4, <1>5
<1>9. QED
  BY <1>7, <1>8

LEMMA ClosingIs ==
  ASSUME NEW h
  PROVE  \E P : Closing(h, P) /\ \E g : Chained(SUBSET ((DOMAIN h) \X DOMAIN h), g, P[0], P)
<1> DEFINE S == SUBSET ((DOMAIN h) \X DOMAIN h)
           g == [Q \in S |-> Closer(h, Q)]
           x == AsLong(h)
<1>1. g \in [S -> S] /\ x \in S /\ \A Q \in S : g[Q] = Closer(h, Q)
  BY DEF Closer, AsLong
<1>2. PICK R, y, r : R = S /\ y = x /\ r = g
  OBVIOUS
<1>3. r \in [R -> R] /\ y \in R
  BY <1>1, <1>2
<1>4. PICK P : Chained(R, r, y, P)
  BY <1>3, Chains
<1>5. P \in [Nat -> S] /\ P[0] = x /\ \A d \in Nat : P[d + 1] = g[P[d]]
  BY <1>2, <1>4 DEF Chained
<1>6. \A d \in Nat : P[d + 1] = Closer(h, P[d])
  BY <1>1, <1>5
<1>7. Closing(h, P)
  BY <1>5, <1>6 DEF Closing
<1>8. Chained(SUBSET ((DOMAIN h) \X DOMAIN h), r, P[0], P)
  BY <1>2, <1>4, <1>5
<1>9. QED
  BY <1>7, <1>8

(* A verdict on two lists is that on their first items that are not the     *)
(* same, if there are any.                                                  *)
LEMMA ListVerdict ==
  ASSUME NEW S, NEW s \in Seq(S), NEW t \in Seq(S), NEW d
  PROVE  \/ Len(s) # Len(t) /\ ComparedLists(s, t, d) = "different"
         \/ /\ Len(s) = Len(t) /\ ComparedLists(s, t, d) = "same"
            /\ \A i \in DOMAIN s : ComparedItems(s[i], t[i], d) = "same"
         \/ /\ Len(s) = Len(t)
            /\ \E i \in DOMAIN s : ComparedItems(s[i], t[i], d) # "same" /\ ComparedLists(s, t, d) = ComparedItems(s[i], t[i], d)
<1>1. DOMAIN s = 1 .. Len(s) /\ DOMAIN t = 1 .. Len(t) /\ Len(s) \in Nat /\ Len(t) \in Nat
  BY LenProperties
<1> DEFINE items == [i \in (DOMAIN s) \cap DOMAIN t |-> ComparedItems(s[i], t[i], d)]
           others == {i \in DOMAIN items : items[i] # "same"}
<1>2. ComparedLists(s, t, d) = IF Len(s) # Len(t) THEN "different" ELSE IF others = {} THEN "same" ELSE items[Min(others)]
  BY DEF ComparedLists
<1>3. \A i \in (DOMAIN s) \cap DOMAIN t : items[i] = ComparedItems(s[i], t[i], d)
  OBVIOUS
<1>4. DOMAIN items = (DOMAIN s) \cap DOMAIN t
  OBVIOUS
<1>5. ASSUME Len(s) = Len(t), others # {}
      PROVE  Min(others) \in others
  <2>1. others \subseteq Nat
    BY <1>1, <1>4
  <2>2. PICK O : O = others
    OBVIOUS
  <2>3. O \subseteq Nat /\ O # {}
    BY <1>5, <2>1, <2>2
  <2>4. PICK m \in O : \A i \in O : m <= i
    BY <2>3, LeastNatural
  <2>5. Min(O) \in O
    BY <2>4 DEF Min
  <2>6. QED
    BY <2>2, <2>5
<1> HIDE DEF items
<1>6. CASE Len(s) # Len(t)
  BY <1>2, <1>6
<1>7. CASE Len(s) = Len(t) /\ others = {}
  BY <1>1, <1>2, <1>3, <1>4, <1>7
<1>8. CASE Len(s) = Len(t) /\ others # {}
  BY <1>1, <1>2, <1>3, <1>4, <1>5, <1>8
<1>9. QED
  BY <1>6, <1>7, <1>8

LEMMA ComparingIs ==
  ASSUME NEW n, NEW h, Heaped(n, h)
  PROVE  \E C : Comparing(h, C)
<1> DEFINE D == (DOMAIN h) \X DOMAIN h
           S == [D -> Verdict]
           step(c) == [p \in D |-> ComparedLists(h[p[1]], h[p[2]], c)]
           g == [c \in S |-> step(c)]
           x == [p \in D |-> "overflow"]
<1>1. ASSUME NEW c \in S
      PROVE  step(c) \in S
  <2>1. ASSUME NEW p \in D
        PROVE  ComparedLists(h[p[1]], h[p[2]], c) \in Verdict
    <3>1. PICK a \in 1 .. n, b \in 1 .. n : p[1] = a /\ p[2] = b
      BY HeapedParts
    <3>2. h[a] \in Seq(Value(n)) /\ h[b] \in Seq(Value(n))
      BY ElementOfSeq DEF Heaped
    <3>3. ASSUME NEW i \in DOMAIN h[a], i \in DOMAIN h[b]
          PROVE  ComparedItems(h[a][i], h[b][i], c) \in Verdict
      <4>1. PICK v, w : v = h[a][i] /\ w = h[b][i]
        OBVIOUS
      <4>2. v \in Value(n) /\ w \in Value(n)
        BY <3>3, <4>1, HeapedParts
      <4>3. Is("array", v) /\ Is("array", w) => <<v[2], w[2]>> \in D
        BY <4>2, HeapedParts
      <4>4. ComparedItems(v, w, c) \in Verdict
        BY <4>3 DEF ComparedItems, Verdict
      <4>5. QED
        BY <4>1, <4>4
    <3>4. DOMAIN h[a] = 1 .. Len(h[a]) /\ DOMAIN h[b] = 1 .. Len(h[b])
      BY HeapedParts
    <3>5. PICK s, t, r : s = h[a] /\ t = h[b] /\ r = ComparedLists(s, t, c)
      OBVIOUS
    <3>6. \/ r = "different" \/ r = "same"
          \/ Len(s) = Len(t) /\ \E i \in DOMAIN s : r = ComparedItems(s[i], t[i], c)
      BY <3>2, <3>5, ListVerdict
    <3>7. Len(s) = Len(t) => \A i \in DOMAIN s : ComparedItems(s[i], t[i], c) \in Verdict
      BY <3>3, <3>4, <3>5
    <3>8. r \in Verdict
      BY <3>6, <3>7 DEF Verdict
    <3>9. ComparedLists(h[a], h[b], c) \in Verdict
      BY <3>5, <3>8
    <3>10. QED
      BY <3>1, <3>9
  <2>2. QED
    BY <2>1
<1>2. g \in [S -> S] /\ \A c \in S : g[c] = step(c)
  BY <1>1
<1>3. x \in S
  BY DEF Verdict
<1>4. PICK R, y, r : R = S /\ y = x /\ r = g
  OBVIOUS
<1>5. r \in [R -> R] /\ y \in R
  BY <1>2, <1>3, <1>4
<1>6. PICK C : Chained(R, r, y, C)
  BY <1>5, Chains
<1>7. C \in [Nat -> S] /\ C[0] = x /\ \A k \in Nat : C[k + 1] = g[C[k]]
  BY <1>4, <1>6 DEF Chained
<1>8. \A k \in Nat : C[k + 1] = step(C[k])
  BY <1>2, <1>7
<1>9. \A p \in D : C[0][p] = "overflow"
  BY <1>7
<1>10. \A p \in D : \A k \in Nat : C[k + 1][p] = ComparedLists(h[p[1]], h[p[2]], C[k])
  BY <1>8
<1>11. Comparing(h, C)
  BY <1>7, <1>9, <1>10 DEF Comparing
<1>12. QED
  BY <1>11

(* What each verdict on two arrays says of their items.                     *)
Inner(n, v, w) == Is("array", v) /\ Is("array", w) /\ v[2] \in 1 .. n /\ w[2] \in 1 .. n
FoundSame(n, s, t, d) ==
  /\ Len(s) = Len(t)
  /\ \A i \in DOMAIN s : IF Inner(n, s[i], t[i]) THEN d[<<s[i][2], t[i][2]>>] = "same"
                         ELSE s[i] = t[i] /\ ~Is("array", s[i])
FoundOverflow(n, s, t, d) ==
  /\ Len(s) = Len(t)
  /\ \E i \in DOMAIN s : Inner(n, s[i], t[i]) /\ d[<<s[i][2], t[i][2]>>] = "overflow"
FoundDifferent(n, s, t, d) ==
  \/ Len(s) # Len(t)
  \/ \E i \in DOMAIN s : IF Inner(n, s[i], t[i]) THEN d[<<s[i][2], t[i][2]>>] = "different" ELSE s[i] # t[i]
Found(n, s, t, d, r) ==
  \/ r = "same" /\ FoundSame(n, s, t, d)
  \/ r = "overflow" /\ FoundOverflow(n, s, t, d)
  \/ r = "different" /\ FoundDifferent(n, s, t, d)

LEMMA ItemVerdict ==
  ASSUME NEW n \in Nat, NEW v \in Value(n), NEW w \in Value(n), NEW d
  PROVE  IF Inner(n, v, w) THEN ComparedItems(v, w, d) = d[<<v[2], w[2]>>]
         ELSE /\ ComparedItems(v, w, d) = IF v = w THEN "same" ELSE "different"
              /\ v = w => ~Is("array", v)
<1>1. Is("array", v) /\ Is("array", w) => Inner(n, v, w)
  BY Kinds DEF Is, Inner
<1>2. CASE Inner(n, v, w)
  BY <1>2 DEF ComparedItems, Inner
<1>3. CASE ~Inner(n, v, w)
  BY <1>1, <1>3 DEF ComparedItems
<1>4. QED
  BY <1>2, <1>3

LEMMA Verdicts ==
  ASSUME NEW n, NEW h, Heaped(n, h), NEW C, Comparing(h, C), NEW k \in Nat, NEW a \in 1 .. n, NEW b \in 1 .. n
  PROVE  Found(n, h[a], h[b], C[k], C[k + 1][<<a, b>>])
<1>1. h[a] \in Seq(Value(n)) /\ h[b] \in Seq(Value(n)) /\ DOMAIN h = 1 .. n /\ n \in Nat
  BY HeapedParts, ElementOfSeq DEF Heaped
<1>2. PICK s, t, d : s = h[a] /\ t = h[b] /\ d = C[k]
  OBVIOUS
<1>3. PICK r : r = C[k + 1][<<a, b>>]
  OBVIOUS
<1>4. PICK p : p = <<a, b>>
  OBVIOUS
<1>5. p \in (DOMAIN h) \X DOMAIN h /\ p[1] = a /\ p[2] = b
  BY <1>1, <1>4
<1>6. r = ComparedLists(s, t, d)
  BY <1>2, <1>3, <1>4, <1>5 DEF Comparing
<1>7. r \in Verdict
  BY <1>3, <1>4, <1>5 DEF Comparing
<1>8. \/ Len(s) # Len(t) /\ r = "different"
      \/ Len(s) = Len(t) /\ r = "same" /\ \A i \in DOMAIN s : ComparedItems(s[i], t[i], d) = "same"
      \/ Len(s) = Len(t) /\ \E i \in DOMAIN s : r # "same" /\ r = ComparedItems(s[i], t[i], d)
  BY <1>1, <1>2, <1>6, ListVerdict
<1>9. ASSUME Len(s) = Len(t), NEW i \in DOMAIN s
      PROVE  IF Inner(n, s[i], t[i]) THEN ComparedItems(s[i], t[i], d) = d[<<s[i][2], t[i][2]>>]
             ELSE /\ ComparedItems(s[i], t[i], d) = IF s[i] = t[i] THEN "same" ELSE "different"
                  /\ s[i] = t[i] => ~Is("array", s[i])
  <2>1. s[i] \in Value(n) /\ t[i] \in Value(n)
    <3>1. i \in 1 .. Len(s) /\ i \in 1 .. Len(t) /\ s \in Seq(Value(n)) /\ t \in Seq(Value(n))
      BY <1>1, <1>2, <1>9, LenProperties
    <3>2. QED
      BY <3>1, ElementOfSeq
  <2>2. QED
    BY <1>1, <2>1, ItemVerdict
<1>10. CASE Len(s) # Len(t) /\ r = "different"
  BY <1>10, <1>2, <1>3 DEF Found, FoundDifferent
<1>11. CASE Len(s) = Len(t) /\ r = "same" /\ \A i \in DOMAIN s : ComparedItems(s[i], t[i], d) = "same"
  <2>1. FoundSame(n, s, t, d)
    BY <1>9, <1>11 DEF FoundSame
  <2>2. QED
    BY <1>2, <1>3, <1>11, <2>1 DEF Found
<1>12. CASE Len(s) = Len(t) /\ \E i \in DOMAIN s : r # "same" /\ r = ComparedItems(s[i], t[i], d)
  <2>1. PICK i \in DOMAIN s : r # "same" /\ r = ComparedItems(s[i], t[i], d)
    BY <1>12
  <2>2. r = "overflow" => FoundOverflow(n, s, t, d)
    BY <1>9, <1>12, <2>1 DEF FoundOverflow
  <2>3. r = "different" => FoundDifferent(n, s, t, d)
    BY <1>9, <1>12, <2>1 DEF FoundDifferent
  <2>4. QED
    BY <1>2, <1>3, <1>7, <2>1, <2>2, <2>3 DEF Found, Verdict
<1>13. QED
  BY <1>8, <1>10, <1>11, <1>12

(* What is the same with any room, nothing tells apart. *)
LEMMA SameAlike ==
  ASSUME NEW n, NEW h, Heaped(n, h), NEW C, Comparing(h, C), NEW P, Closing(h, P)
  PROVE  \A j \in Nat, k \in Nat, a \in 1 .. n, b \in 1 .. n : C[k][<<a, b>>] = "same" => <<a, b>> \in P[j]
<1> DEFINE T == {j \in Nat : \E k \in Nat, a \in 1 .. n, b \in 1 .. n : C[k][<<a, b>>] = "same" /\ <<a, b>> \notin P[j]}
<1>1. SUFFICES ASSUME T # {} PROVE FALSE
  OBVIOUS
<1>2. PICK j \in T : \A l \in T : j <= l
  <2>1. T \subseteq Nat
    OBVIOUS
  <2>2. QED
    BY <1>1, <2>1, LeastNatural
<1>3. PICK k \in Nat, a \in 1 .. n, b \in 1 .. n : C[k][<<a, b>>] = "same" /\ <<a, b>> \notin P[j]
  BY <1>2
<1>4. \A c, d \in 1 .. n : <<c, d>> \in (DOMAIN h) \X DOMAIN h
  BY HeapedParts
<1>5. PICK l \in Nat : k = l + 1
  <2>1. k # 0
    BY <1>3, <1>4 DEF Comparing
  <2>2. k - 1 \in Nat /\ k = (k - 1) + 1
    BY <2>1
  <2>3. QED
    BY <2>2
<1>6. FoundSame(n, h[a], h[b], C[l])
  <2>1. Found(n, h[a], h[b], C[l], C[l + 1][<<a, b>>])
    BY Verdicts
  <2>2. QED
    BY <1>3, <1>5, <2>1 DEF Found
<1>7. Len(h[a]) = Len(h[b])
  BY <1>6 DEF FoundSame
<1>8. CASE j = 0
  <2>1. P[0] = AsLong(h)
    BY DEF Closing
  <2>2. <<a, b>> \in AsLong(h)
    BY <1>4, <1>7 DEF AsLong
  <2>3. QED
    BY <1>3, <1>8, <2>1, <2>2
<1>9. CASE j # 0
  <2>1. PICK i \in Nat : j = i + 1 /\ i \notin T
    <3>1. j - 1 \in Nat /\ j = (j - 1) + 1 /\ ~(j <= j - 1)
      BY <1>2, <1>9
    <3>2. QED
      BY <1>2, <3>1
  <2>2. ASSUME NEW m \in DOMAIN h[a]
        PROVE  AlikeBut(h[a][m], h[b][m], P[i])
    <3>1. CASE Inner(n, h[a][m], h[b][m])
      <4>1. h[a][m][2] \in 1 .. n /\ h[b][m][2] \in 1 .. n /\ C[l][<<h[a][m][2], h[b][m][2]>>] = "same"
        BY <1>6, <3>1 DEF FoundSame, Inner
      <4>2. <<h[a][m][2], h[b][m][2]>> \in P[i]
        BY <2>1, <4>1
      <4>3. QED
        BY <3>1, <4>2 DEF AlikeBut, Inner
    <3>2. CASE ~Inner(n, h[a][m], h[b][m])
      <4>1. h[a][m] = h[b][m] /\ ~Is("array", h[a][m])
        BY <1>6, <3>2 DEF FoundSame
      <4>2. QED
        BY <4>1 DEF AlikeBut
    <3>3. QED
      BY <3>1, <3>2
  <2>3. <<a, b>> \in Closer(h, P[i])
    BY <1>4, <1>7, <2>2 DEF Closer
  <2>4. P[j] = Closer(h, P[i])
    BY <2>1 DEF Closing
  <2>5. QED
    BY <1>3, <2>3, <2>4
<1>10. QED
  BY <1>8, <1>9

(* What is different, is told apart by something. *)
LEMMA DifferentApart ==
  ASSUME NEW n, NEW h, Heaped(n, h), NEW C, Comparing(h, C), NEW G, G = Closer(h, G)
  PROVE  \A k \in Nat, a \in 1 .. n, b \in 1 .. n : C[k][<<a, b>>] = "different" => <<a, b>> \notin G
<1> DEFINE T == {k \in Nat : \E a \in 1 .. n, b \in 1 .. n : C[k][<<a, b>>] = "different" /\ <<a, b>> \in G}
<1>1. SUFFICES ASSUME T # {} PROVE FALSE
  OBVIOUS
<1>2. PICK k \in T : \A l \in T : k <= l
  <2>1. T \subseteq Nat
    OBVIOUS
  <2>2. QED
    BY <1>1, <2>1, LeastNatural
<1>3. PICK a \in 1 .. n, b \in 1 .. n : C[k][<<a, b>>] = "different" /\ <<a, b>> \in G
  BY <1>2
<1>4. \A c, d \in 1 .. n : <<c, d>> \in (DOMAIN h) \X DOMAIN h
  BY HeapedParts
<1>5. PICK l \in Nat : k = l + 1 /\ l \notin T
  <2>1. k # 0
    BY <1>3, <1>4 DEF Comparing
  <2>2. k - 1 \in Nat /\ k = (k - 1) + 1 /\ ~(k <= k - 1)
    BY <1>2, <2>1
  <2>3. QED
    BY <1>2, <2>2
<1>6. Len(h[a]) = Len(h[b]) /\ \A i \in DOMAIN h[a] : AlikeBut(h[a][i], h[b][i], G)
  <2>1. PICK p : p = <<a, b>>
    OBVIOUS
  <2>2. p \in Closer(h, G) /\ p[1] = a /\ p[2] = b
    BY <1>3, <2>1
  <2>3. QED
    BY <2>2 DEF Closer
<1>7. FoundDifferent(n, h[a], h[b], C[l])
  <2>1. Found(n, h[a], h[b], C[l], C[l + 1][<<a, b>>])
    BY Verdicts
  <2>2. QED
    BY <1>3, <1>5, <2>1 DEF Found
<1>8. PICK i \in DOMAIN h[a] : IF Inner(n, h[a][i], h[b][i]) THEN C[l][<<h[a][i][2], h[b][i][2]>>] = "different"
                               ELSE h[a][i] # h[b][i]
  BY <1>6, <1>7 DEF FoundDifferent
<1>9. AlikeBut(h[a][i], h[b][i], G)
  BY <1>6
<1>10. CASE Inner(n, h[a][i], h[b][i])
  <2>1. h[a][i][2] \in 1 .. n /\ h[b][i][2] \in 1 .. n /\ C[l][<<h[a][i][2], h[b][i][2]>>] = "different"
    BY <1>8, <1>10 DEF Inner
  <2>2. <<h[a][i][2], h[b][i][2]>> \in G
    BY <1>9, <1>10 DEF AlikeBut, Inner
  <2>3. QED
    BY <1>5, <2>1, <2>2
<1>11. CASE ~Inner(n, h[a][i], h[b][i])
  <2>1. ~(Is("array", h[a][i]) /\ Is("array", h[b][i]))
    <3>1. PICK v, w : v = h[a][i] /\ w = h[b][i]
      OBVIOUS
    <3>2. v \in Value(n) /\ w \in Value(n) /\ n \in Nat
      BY <1>6, <3>1, HeapedParts
    <3>3. Is("array", v) /\ Is("array", w) => Inner(n, v, w)
      BY <3>2, Kinds DEF Is, Inner
    <3>4. QED
      BY <1>11, <3>1, <3>3
  <2>2. QED
    BY <1>8, <1>9, <1>11, <2>1 DEF AlikeBut
<1>12. QED
  BY <1>10, <1>11

(* Where a comparison runs out of room, both are that deep; what it finds   *)
(* the same is not.                                                         *)
LEMMA OverflowsDeep ==
  ASSUME NEW n, NEW h, Heaped(n, h), NEW C, Comparing(h, C), NEW L, Deepening(h, L)
  PROVE  \A k \in Nat, a \in 1 .. n, b \in 1 .. n :
           /\ C[k][<<a, b>>] = "overflow" => a \in L[k] /\ b \in L[k]
           /\ C[k][<<a, b>>] = "same" => a \notin L[k]
<1> DEFINE Bad(k, a, b) == \/ C[k][<<a, b>>] = "overflow" /\ (a \notin L[k] \/ b \notin L[k])
                           \/ C[k][<<a, b>>] = "same" /\ a \in L[k]
           T == {k \in Nat : \E a \in 1 .. n, b \in 1 .. n : Bad(k, a, b)}
<1>1. SUFFICES ASSUME T # {} PROVE FALSE
  OBVIOUS
<1>2. PICK k \in T : \A l \in T : k <= l
  <2>1. T \subseteq Nat
    OBVIOUS
  <2>2. QED
    BY <1>1, <2>1, LeastNatural
<1>3. PICK a \in 1 .. n, b \in 1 .. n : Bad(k, a, b)
  BY <1>2
<1>4. DOMAIN h = 1 .. n /\ \A c, d \in 1 .. n : <<c, d>> \in (DOMAIN h) \X DOMAIN h
  BY HeapedParts
<1>5. PICK l \in Nat : k = l + 1 /\ l \notin T
  <2>1. k # 0
    <3>1. C[0][<<a, b>>] = "overflow" /\ L[0] = DOMAIN h
      BY <1>4 DEF Comparing, Deepening
    <3>2. ~Bad(0, a, b)
      BY <1>4, <3>1
    <3>3. QED
      BY <1>3, <3>2
  <2>2. k - 1 \in Nat /\ k = (k - 1) + 1 /\ ~(k <= k - 1)
    BY <1>2, <2>1
  <2>3. QED
    BY <1>2, <2>2
<1>6. L[k] = Deeper(h, L[l])
  BY <1>5 DEF Deepening
<1>7. Found(n, h[a], h[b], C[l], C[l + 1][<<a, b>>])
  BY Verdicts
<1>8. CASE C[k][<<a, b>>] = "overflow"
  <2>1. FoundOverflow(n, h[a], h[b], C[l])
    BY <1>5, <1>8, <1>7 DEF Found
  <2>2. PICK i \in DOMAIN h[a] : Inner(n, h[a][i], h[b][i]) /\ C[l][<<h[a][i][2], h[b][i][2]>>] = "overflow"
    BY <2>1 DEF FoundOverflow
  <2>3. Len(h[a]) = Len(h[b])
    BY <2>1 DEF FoundOverflow
  <2>4. h[a][i][2] \in L[l] /\ h[b][i][2] \in L[l]
    BY <1>5, <2>2 DEF Inner
  <2>5. i \in DOMAIN h[b]
    BY <2>2, <2>3, HeapedParts
  <2>6. a \in Deeper(h, L[l]) /\ b \in Deeper(h, L[l])
    BY <1>4, <2>2, <2>4, <2>5 DEF Deeper, Inner
  <2>7. QED
    BY <1>3, <1>6, <1>8, <2>6
<1>9. CASE C[k][<<a, b>>] = "same"
  <2>1. FoundSame(n, h[a], h[b], C[l])
    BY <1>5, <1>9, <1>7 DEF Found
  <2>2. PICK i \in DOMAIN h[a] : Is("array", h[a][i]) /\ h[a][i][2] \in L[l]
    BY <1>3, <1>6, <1>9 DEF Deeper
  <2>3. Inner(n, h[a][i], h[b][i]) /\ C[l][<<h[a][i][2], h[b][i][2]>>] = "same"
    BY <2>1, <2>2 DEF FoundSame
  <2>4. QED
    BY <1>5, <2>2, <2>3 DEF Inner
<1>10. QED
  BY <1>3, <1>8, <1>9

(* With all the room there is. *)
LEMMA ComparedIs ==
  ASSUME NEW h, NEW C, Comparing(h, C)
  PROVE  ComparedArrays(h) = C[Depth]
<1> DEFINE D == (DOMAIN h) \X DOMAIN h
           x == [p \in D |-> "overflow"]
           step(c) == [p \in D |-> ComparedLists(h[p[1]], h[p[2]], c)]
           compared == CHOOSE c : c = [m \in 0 .. Depth |-> IF m = 0 THEN x ELSE step(c[m - 1])]
<1>1. Depth \in Nat
  BY RoomAssumption
<1>2. ComparedArrays(h) = compared[Depth]
  BY DEF ComparedArrays
<1>3. C[0] = x
  BY DEF Comparing
<1>4. \A k \in Nat : C[k + 1] = step(C[k])
  <2>1. TAKE k \in Nat
  <2>2. PICK c, e : c = C[k + 1] /\ e = C[k]
    OBVIOUS
  <2>3. c \in [D -> Verdict]
    <3>1. C \in [Nat -> [D -> Verdict]]
      BY DEF Comparing
    <3>2. k + 1 \in Nat
      OBVIOUS
    <3>3. QED
      BY <2>2, <3>1, <3>2
  <2>4. ASSUME NEW p \in D
        PROVE  c[p] = ComparedLists(h[p[1]], h[p[2]], e)
    <3>1. C[k + 1][p] = ComparedLists(h[p[1]], h[p[2]], C[k])
      BY DEF Comparing
    <3>2. QED
      BY <2>2, <3>1
  <2>5. c = step(e)
    BY <2>3, <2>4
  <2>6. QED
    BY <2>2, <2>5
<1> HIDE DEF x, step
<1>5. PICK e : e = [m \in 0 .. Depth |-> C[m]]
  OBVIOUS
<1>6. \A m \in 0 .. Depth : m = 0 \/ (m - 1 \in Nat /\ m - 1 \in 0 .. Depth /\ (m - 1) + 1 = m)
  BY <1>1
<1>7. \A m \in 0 .. Depth : C[m] = IF m = 0 THEN x ELSE step(C[m - 1])
  BY <1>3, <1>4, <1>6
<1>8. e = [m \in 0 .. Depth |-> IF m = 0 THEN x ELSE step(e[m - 1])]
  BY <1>5, <1>6, <1>7
<1>9. compared = [m \in 0 .. Depth |-> IF m = 0 THEN x ELSE step(compared[m - 1])]
  BY <1>8
<1> HIDE DEF compared
<1>10. \A m \in 0 .. Depth : compared[m] = IF m = 0 THEN x ELSE step(compared[m - 1])
  BY <1>9
<1>11. \A m \in 0 .. Depth : compared[m] = C[m]
  <2> DEFINE T == {m \in 0 .. Depth : compared[m] # C[m]}
  <2>1. SUFFICES ASSUME T # {} PROVE FALSE
    OBVIOUS
  <2>2. PICK m \in T : \A l \in T : m <= l
    <3>1. T \subseteq Nat
      BY <1>1
    <3>2. QED
      BY <2>1, <3>1, LeastNatural
  <2>3. m # 0
    BY <1>7, <1>10, <2>2
  <2>4. m - 1 \in 0 .. Depth /\ ~(m <= m - 1) /\ m \in 0 .. Depth
    BY <1>1, <2>2, <2>3
  <2>5. compared[m - 1] = C[m - 1]
    BY <2>2, <2>4
  <2>6. compared[m] = step(compared[m - 1]) /\ C[m] = step(C[m - 1])
    BY <1>7, <1>10, <2>3, <2>4
  <2>7. QED
    BY <2>2, <2>5, <2>6
<1>12. Depth \in 0 .. Depth
  BY <1>1
<1>13. QED
  BY <1>2, <1>11, <1>12

(* The arrays whose text fits are those that are not that deep. *)
LEMMA FlatIs ==
  ASSUME NEW h, NEW L, Deepening(h, L), \A a \in DOMAIN h : \A i \in DOMAIN h[a] : Is("array", h[a][i]) => h[a][i][2] \in DOMAIN h
  PROVE  Flat(h) = (DOMAIN h) \ L[Depth]
<1> DEFINE step(inner) == {a \in DOMAIN h : \A i \in DOMAIN h[a] : Is("array", h[a][i]) => h[a][i][2] \in inner}
           flat == CHOOSE f : f = [m \in 0 .. Depth |-> IF m = 0 THEN {} ELSE step(f[m - 1])]
           G == [m \in Nat |-> (DOMAIN h) \ L[m]]
<1>1. Depth \in Nat
  BY RoomAssumption
<1>2. Flat(h) = flat[Depth]
  BY DEF Flat
<1>3. G[0] = {}
  BY DEF Deepening
<1>4. \A k \in Nat : G[k + 1] = step(G[k])
  <2>1. TAKE k \in Nat
  <2>2. L[k + 1] = Deeper(h, L[k])
    BY DEF Deepening
  <2>3. (DOMAIN h) \ Deeper(h, L[k]) = step((DOMAIN h) \ L[k])
    BY DEF Deeper
  <2>4. QED
    BY <2>2, <2>3
<1> HIDE DEF step, G
<1>5. PICK e : e = [m \in 0 .. Depth |-> G[m]]
  OBVIOUS
<1>6. \A m \in 0 .. Depth : m = 0 \/ (m - 1 \in Nat /\ m - 1 \in 0 .. Depth /\ (m - 1) + 1 = m)
  BY <1>1
<1>7. \A m \in 0 .. Depth : G[m] = IF m = 0 THEN {} ELSE step(G[m - 1])
  BY <1>3, <1>4, <1>6
<1>8. e = [m \in 0 .. Depth |-> IF m = 0 THEN {} ELSE step(e[m - 1])]
  BY <1>5, <1>6, <1>7
<1>9. flat = [m \in 0 .. Depth |-> IF m = 0 THEN {} ELSE step(flat[m - 1])]
  BY <1>8
<1> HIDE DEF flat
<1>10. \A m \in 0 .. Depth : flat[m] = IF m = 0 THEN {} ELSE step(flat[m - 1])
  BY <1>9
<1>11. \A m \in 0 .. Depth : flat[m] = G[m]
  <2> DEFINE T == {m \in 0 .. Depth : flat[m] # G[m]}
  <2>1. SUFFICES ASSUME T # {} PROVE FALSE
    OBVIOUS
  <2>2. PICK m \in T : \A l \in T : m <= l
    <3>1. T \subseteq Nat
      BY <1>1
    <3>2. QED
      BY <2>1, <3>1, LeastNatural
  <2>3. m # 0
    BY <1>7, <1>10, <2>2
  <2>4. m - 1 \in 0 .. Depth /\ ~(m <= m - 1) /\ m \in 0 .. Depth
    BY <1>1, <2>2, <2>3
  <2>5. flat[m - 1] = G[m - 1]
    BY <2>2, <2>4
  <2>6. flat[m] = step(flat[m - 1]) /\ G[m] = step(G[m - 1])
    BY <1>7, <1>10, <2>3, <2>4
  <2>7. QED
    BY <2>2, <2>5, <2>6
<1>12. Depth \in 0 .. Depth
  BY <1>1
<1>13. QED
  BY <1>1, <1>2, <1>11, <1>12 DEF G

-----------------------------------------------------------------------------
(***************************************************************************)
(* Paths, what can be reached along them, and what is seen there: the same *)
(* in two arrays exactly if nothing tells them apart so far on.            *)
(***************************************************************************)

Path == Seq(Nat)
Onto(i, p) == <<i>> \o p
At(p, v) == [path |-> p, value |-> v]
Places(n) == [path : Path, value : Value(n)]
Further(h, X) ==
  X \cup UNION {{At(Append(r.path, i), h[r.value[2]][i]) : i \in DOMAIN h[r.value[2]]} :
                  r \in {q \in X : Is("array", q.value)}}
Reaching(n, h, v, R) ==
  R \in [Nat -> SUBSET Places(n)] /\ R[0] = {At(<<>>, v)} /\ \A k \in Nat : R[k + 1] = Further(h, R[k])
AllReaching(n, h, F) == \A v \in Value(n) : Reaching(n, h, v, F[v])

LEMMA Paths ==
  ASSUME NEW i \in Nat, NEW p \in Path
  PROVE  /\ Onto(i, p) \in Path /\ Len(Onto(i, p)) = Len(p) + 1 /\ Len(p) \in Nat /\ Onto(i, p)[1] = i
         /\ \A j \in 1 .. Len(p) : Onto(i, p)[j + 1] = p[j]
         /\ \A j \in Nat : Append(p, j) \in Path /\ Append(Onto(i, p), j) = Onto(i, Append(p, j))
<1>1. <<i>> \in Seq(Nat) /\ Len(<<i>>) = 1 /\ <<i>>[1] = i /\ p \in Seq(Nat) /\ Len(p) \in Nat
  BY LenProperties DEF Path
<1>2. PICK s : s = <<i>>
  OBVIOUS
<1>3. /\ s \o p \in Seq(Nat) /\ Len(s \o p) = 1 + Len(p)
      /\ \A j \in 1 .. 1 + Len(p) : (s \o p)[j] = IF j <= 1 THEN s[j] ELSE p[j - 1]
  BY <1>1, <1>2, ConcatProperties
<1>4. Onto(i, p) \in Path /\ Len(Onto(i, p)) = Len(p) + 1 /\ Onto(i, p)[1] = i
  BY <1>1, <1>2, <1>3 DEF Onto, Path
<1>5. ASSUME NEW j \in 1 .. Len(p) PROVE Onto(i, p)[j + 1] = p[j]
  <2>1. j + 1 \in 1 .. 1 + Len(p) /\ ~(j + 1 <= 1) /\ (j + 1) - 1 = j
    BY <1>1
  <2>2. QED
    BY <1>2, <1>3, <2>1 DEF Onto
<1>6. ASSUME NEW j \in Nat PROVE Append(p, j) \in Path /\ Append(Onto(i, p), j) = Onto(i, Append(p, j))
  <2>1. Append(p, j) = p \o <<j>> /\ Append(s \o p, j) = (s \o p) \o <<j>>
    BY <1>1, <1>3
  <2>2. (s \o p) \o <<j>> = s \o (p \o <<j>>)
    BY <1>1, <1>2
  <2>3. Append(p, j) \in Path
    BY <1>1 DEF Path
  <2>4. QED
    BY <1>2, <2>1, <2>2, <2>3 DEF Onto
<1>7. QED
  BY <1>1, <1>4, <1>5, <1>6

LEMMA PathsLonger ==
  ASSUME NEW i \in Nat, NEW p \in Path, NEW j \in Nat
  PROVE  Append(Onto(i, p), j) = Onto(i, Append(p, j))
BY Paths

LEMMA PathsApart ==
  ASSUME NEW i \in Nat, NEW p \in Path, NEW j \in Nat, NEW q \in Path, Onto(i, p) = Onto(j, q)
  PROVE  i = j /\ p = q
<1>1. PICK s, t : s = Onto(i, p) /\ t = Onto(j, q)
  OBVIOUS
<1>2. Len(s) = Len(p) + 1 /\ Len(p) \in Nat /\ s[1] = i /\ \A k \in 1 .. Len(p) : s[k + 1] = p[k]
  BY <1>1, Paths
<1>3. Len(t) = Len(q) + 1 /\ Len(q) \in Nat /\ t[1] = j /\ \A k \in 1 .. Len(q) : t[k + 1] = q[k]
  BY <1>1, Paths
<1>4. s = t
  BY <1>1
<1>5. i = j /\ Len(p) = Len(q)
  BY <1>2, <1>3, <1>4
<1>6. \A k \in 1 .. Len(p) : p[k] = q[k]
  BY <1>2, <1>3, <1>4, <1>5
<1>7. QED
  BY <1>5, <1>6, SeqEqual DEF Path

LEMMA FurtherParts ==
  ASSUME NEW h, NEW X
  PROVE  /\ X \subseteq Further(h, X)
         /\ \A r \in X : \A i \in DOMAIN h[r.value[2]] :
              Is("array", r.value) => At(Append(r.path, i), h[r.value[2]][i]) \in Further(h, X)
         /\ \A r \in Further(h, X) :
              \/ r \in X
              \/ \E q \in X : Is("array", q.value) /\ \E i \in DOMAIN h[q.value[2]] :
                   r = At(Append(q.path, i), h[q.value[2]][i])
BY DEF Further

LEMMA ReachingIs ==
  ASSUME NEW n, NEW h, Heaped(n, h)
  PROVE  \E F : AllReaching(n, h, F)
<1> DEFINE S == SUBSET Places(n)
           g == [X \in S |-> Further(h, X)]
<1>1. ASSUME NEW X \in S
      PROVE  Further(h, X) \in S
  <2>1. SUFFICES ASSUME NEW r \in Further(h, X) PROVE r \in Places(n)
    OBVIOUS
  <2>2. CASE r \in X
    BY <2>2
  <2>3. CASE \E q \in X : Is("array", q.value) /\ \E i \in DOMAIN h[q.value[2]] :
                   r = At(Append(q.path, i), h[q.value[2]][i])
    <3>1. PICK q \in X : Is("array", q.value) /\ \E i \in DOMAIN h[q.value[2]] :
                   r = At(Append(q.path, i), h[q.value[2]][i])
      BY <2>3
    <3>2. PICK i \in DOMAIN h[q.value[2]] : r = At(Append(q.path, i), h[q.value[2]][i])
      BY <3>1
    <3>3. PICK a, p : a = q.value[2] /\ p = q.path
      OBVIOUS
    <3>4. p \in Path /\ q.value \in Value(n)
      BY <3>3 DEF Places
    <3>5. a \in 1 .. n
      BY <3>1, <3>3, <3>4, HeapedParts
    <3>6. i \in Nat /\ h[a][i] \in Value(n)
      BY <3>2, <3>3, <3>5, HeapedParts
    <3>7. Append(p, i) \in Path
      BY <3>4, <3>6, Paths
    <3>8. QED
      BY <3>2, <3>3, <3>6, <3>7 DEF At, Places
  <2>4. QED
    BY <2>2, <2>3, FurtherParts
<1>2. g \in [S -> S] /\ \A X \in S : g[X] = Further(h, X)
  BY <1>1
<1>3. ASSUME NEW v \in Value(n)
      PROVE  \E R : Reaching(n, h, v, R)
  <2> DEFINE x == {At(<<>>, v)}
  <2>1. x \in S
    <3>1. <<>> \in Path
      BY DEF Path
    <3>2. QED
      BY <3>1 DEF At, Places
  <2>2. PICK T, y, r : T = S /\ y = x /\ r = g
    OBVIOUS
  <2>3. r \in [T -> T] /\ y \in T
    BY <1>2, <2>1, <2>2
  <2>4. PICK R : Chained(T, r, y, R)
    BY <2>3, Chains
  <2>5. R \in [Nat -> S] /\ R[0] = x /\ \A k \in Nat : R[k + 1] = g[R[k]]
    BY <2>2, <2>4 DEF Chained
  <2>6. \A k \in Nat : R[k + 1] = Further(h, R[k])
    BY <1>2, <2>5
  <2>7. QED
    BY <2>5, <2>6 DEF Reaching
<1>4. PICK F : F = [v \in Value(n) |-> CHOOSE R : Reaching(n, h, v, R)]
  OBVIOUS
<1>5. \A v \in Value(n) : Reaching(n, h, v, F[v])
  BY <1>3, <1>4
<1>6. QED
  BY <1>5 DEF AllReaching

(* Nothing but itself is reached in a value that is not an array. *)
LEMMA OthersReach ==
  ASSUME NEW n, NEW h, NEW F, AllReaching(n, h, F), NEW v \in Value(n), ~Is("array", v)
  PROVE  \A k \in Nat : F[v][k] = {At(<<>>, v)}
<1> DEFINE T == {k \in Nat : F[v][k] # {At(<<>>, v)}}
<1>1. SUFFICES ASSUME T # {} PROVE FALSE
  OBVIOUS
<1>2. PICK k \in T : \A l \in T : k <= l
  <2>1. T \subseteq Nat
    OBVIOUS
  <2>2. QED
    BY <1>1, <2>1, LeastNatural
<1>3. Reaching(n, h, v, F[v])
  BY DEF AllReaching
<1>4. k # 0
  BY <1>2, <1>3 DEF Reaching
<1>5. PICK l \in Nat : k = l + 1 /\ l \notin T
  <2>1. k - 1 \in Nat /\ k = (k - 1) + 1 /\ ~(k <= k - 1)
    BY <1>2, <1>4
  <2>2. QED
    BY <1>2, <2>1
<1>6. F[v][k] = Further(h, F[v][l]) /\ F[v][l] = {At(<<>>, v)}
  BY <1>3, <1>5 DEF Reaching
<1>7. \A q \in F[v][l] : ~Is("array", q.value)
  BY <1>6 DEF At
<1>8. F[v][k] = F[v][l]
  BY <1>6, <1>7, FurtherParts
<1>9. QED
  BY <1>2, <1>6, <1>8

(* What is reached in an array in one round more is it, or is reached in    *)
(* one of its items.                                                        *)
FromItems(n, h, F, v, k) ==
  \A r : r \in F[v][k + 1] <=>
    \/ r = At(<<>>, v)
    \/ \E i \in DOMAIN h[v[2]] : \E q \in F[h[v[2]][i]][k] : r = At(Onto(i, q.path), q.value)

LEMMA ArraysReach ==
  ASSUME NEW n, NEW h, Heaped(n, h), NEW F, AllReaching(n, h, F), NEW v \in Value(n), Is("array", v)
  PROVE  \A k \in Nat : FromItems(n, h, F, v, k)
<1> DEFINE T == {k \in Nat : ~FromItems(n, h, F, v, k)}
<1>1. SUFFICES ASSUME T # {} PROVE FALSE
  OBVIOUS
<1>2. PICK k \in T : \A l \in T : k <= l
  <2>1. T \subseteq Nat
    OBVIOUS
  <2>2. QED
    BY <1>1, <2>1, LeastNatural
<1>3. PICK a : a = v[2] /\ a \in 1 .. n
  BY HeapedParts
<1>4. \A i \in DOMAIN h[a] : i \in Nat /\ h[a][i] \in Value(n)
  BY <1>3, HeapedParts
<1>5. \A w \in Value(n) : \A l \in Nat :
        /\ F[w][l] \subseteq Places(n) /\ F[w][0] = {At(<<>>, w)} /\ F[w][l + 1] = Further(h, F[w][l])
        /\ F[w][l] \subseteq F[w][l + 1]
  <2>1. TAKE w \in Value(n)
  <2>2. TAKE l \in Nat
  <2>3. Reaching(n, h, w, F[w])
    BY DEF AllReaching
  <2>4. F[w][l] \subseteq Places(n) /\ F[w][0] = {At(<<>>, w)} /\ F[w][l + 1] = Further(h, F[w][l])
    BY <2>3 DEF Reaching
  <2>5. QED
    BY <2>4, FurtherParts
<1>6. At(<<>>, v).path = <<>> /\ At(<<>>, v).value = v
  BY DEF At
<1>7. \A i \in Nat : Append(<<>>, i) = Onto(i, <<>>)
  <2>1. TAKE i \in Nat
  <2>2. <<>> \in Seq(Nat) /\ Append(<<>>, i) = <<i>> /\ <<i>> \in Seq(Nat)
    OBVIOUS
  <2>3. <<i>> \o <<>> = <<i>>
    BY <2>2, ConcatEmptySeq
  <2>4. QED
    BY <2>2, <2>3 DEF Onto
<1> DEFINE First(l, r) == r = At(<<>>, v) \/ \E i \in DOMAIN h[a] : \E q \in F[h[a][i]][l] : r = At(Onto(i, q.path), q.value)
<1>8. \A l \in Nat : FromItems(n, h, F, v, l) <=> \A r : r \in F[v][l + 1] <=> First(l, r)
  BY <1>3 DEF FromItems
<1>9. CASE k = 0
  <2>1. F[v][1] = Further(h, F[v][0]) /\ F[v][0] = {At(<<>>, v)}
    <3>1. F[v][0 + 1] = Further(h, F[v][0]) /\ F[v][0] = {At(<<>>, v)}
      BY <1>5
    <3>2. 0 + 1 = 1
      OBVIOUS
    <3>3. QED
      BY <3>1, <3>2
  <2>2. ASSUME NEW i \in DOMAIN h[a], NEW q \in F[h[a][i]][0]
        PROVE  At(Onto(i, q.path), q.value) = At(Append(<<>>, i), h[a][i])
    <3>1. q = At(<<>>, h[a][i])
      <4>1. PICK w \in Value(n) : w = h[a][i]
        BY <1>4
      <4>2. F[w][0] = {At(<<>>, w)}
        BY <1>5
      <4>3. QED
        BY <4>1, <4>2
    <3>2. q.path = <<>> /\ q.value = h[a][i]
      BY <3>1 DEF At
    <3>3. QED
      BY <1>4, <1>7, <3>2
  <2>3. ASSUME NEW r, r \in F[v][1]
        PROVE  First(0, r)
    <3>1. \/ r \in F[v][0]
          \/ \E i \in DOMAIN h[a] : r = At(Append(<<>>, i), h[a][i])
      <4>1. \/ r \in F[v][0]
            \/ \E q \in F[v][0] : Is("array", q.value) /\ \E i \in DOMAIN h[q.value[2]] :
                 r = At(Append(q.path, i), h[q.value[2]][i])
        BY <2>1, <2>3, FurtherParts
      <4>2. \A q \in F[v][0] : q.value = v /\ q.path = <<>>
        BY <1>6, <2>1
      <4>3. QED
        BY <1>3, <4>1, <4>2
    <3>2. ASSUME NEW i \in DOMAIN h[a]
          PROVE  At(<<>>, h[a][i]) \in F[h[a][i]][0]
      BY <1>4, <1>5
    <3>3. QED
      BY <2>1, <2>2, <3>1, <3>2
  <2>4. ASSUME NEW r, First(0, r)
        PROVE  r \in F[v][1]
    <3>1. At(<<>>, v) \in F[v][1]
      BY <2>1, FurtherParts
    <3>2. ASSUME NEW i \in DOMAIN h[a]
          PROVE  At(Append(<<>>, i), h[a][i]) \in F[v][1]
      <4>1. PICK q : q = At(<<>>, v)
        OBVIOUS
      <4>2. q \in F[v][0] /\ q.path = <<>> /\ q.value = v /\ i \in DOMAIN h[q.value[2]]
        BY <1>3, <1>6, <2>1, <4>1
      <4>3. At(Append(q.path, i), h[q.value[2]][i]) \in Further(h, F[v][0])
        BY <4>2, FurtherParts
      <4>4. QED
        BY <1>3, <2>1, <4>2, <4>3
    <3>3. QED
      BY <2>2, <2>4, <3>1, <3>2
  <2>5. \A r : r \in F[v][0 + 1] <=> First(0, r)
    <3>1. 0 + 1 = 1
      OBVIOUS
    <3>2. QED
      BY <2>3, <2>4, <3>1
  <2>6. FromItems(n, h, F, v, 0)
    BY <1>8, <2>5
  <2>7. QED
    BY <1>2, <1>9, <2>6
<1>10. CASE k # 0
  <2>1. PICK l \in Nat : k = l + 1 /\ l \notin T
    <3>1. k - 1 \in Nat /\ k = (k - 1) + 1 /\ ~(k <= k - 1)
      BY <1>2, <1>10
    <3>2. QED
      BY <1>2, <3>1
  <2>2. \A r : r \in F[v][k] <=> First(l, r)
    BY <1>8, <2>1
  <2>3. F[v][k + 1] = Further(h, F[v][k]) /\ F[v][k] \subseteq F[v][k + 1] /\ k \in Nat
    BY <1>2, <1>5
  <2>4. \A i \in DOMAIN h[a] : /\ F[h[a][i]][l] \subseteq F[h[a][i]][k]
                               /\ F[h[a][i]][k] = Further(h, F[h[a][i]][l])
                               /\ F[h[a][i]][l] \subseteq Places(n)
                               /\ At(<<>>, h[a][i]) \in F[h[a][i]][k]
    <3>1. TAKE i \in DOMAIN h[a]
    <3>2. h[a][i] \in Value(n)
      BY <1>4
    <3>3. PICK w : w = h[a][i]
      OBVIOUS
    <3>4. F[w][l] \subseteq F[w][k] /\ F[w][k] = Further(h, F[w][l]) /\ F[w][l] \subseteq Places(n)
      BY <1>5, <2>1, <3>2, <3>3
    <3>5. At(<<>>, w) \in F[w][k]
      <4> DEFINE B == {m \in Nat : At(<<>>, w) \notin F[w][m]}
      <4>1. SUFFICES ASSUME B # {} PROVE FALSE
        BY <2>1
      <4>2. PICK m \in B : \A o \in B : m <= o
        <5>1. B \subseteq Nat
          OBVIOUS
        <5>2. QED
          BY <4>1, <5>1, LeastNatural
      <4>3. m # 0
        BY <1>5, <3>2, <3>3, <4>2
      <4>4. m - 1 \in Nat /\ (m - 1) + 1 = m /\ ~(m <= m - 1)
        BY <4>2, <4>3
      <4>5. At(<<>>, w) \in F[w][m - 1]
        BY <4>2, <4>4
      <4>6. F[w][m - 1] \subseteq F[w][(m - 1) + 1]
        BY <1>5, <3>2, <3>3, <4>4
      <4>7. QED
        BY <4>2, <4>4, <4>5, <4>6
    <3>6. QED
      BY <3>3, <3>4, <3>5
  <2>5. ASSUME NEW r, r \in F[v][k + 1]
        PROVE  First(k, r)
    <3>1. CASE r \in F[v][k]
      BY <2>2, <2>4, <3>1
    <3>2. CASE r \notin F[v][k]
      <4>1. PICK s \in F[v][k] : Is("array", s.value) /\ \E j \in DOMAIN h[s.value[2]] :
                                   r = At(Append(s.path, j), h[s.value[2]][j])
        <5>1. PICK X : X = F[v][k]
          OBVIOUS
        <5>2. r \in Further(h, X) /\ r \notin X
          BY <2>3, <2>5, <3>2, <5>1
        <5>3. \E s \in X : Is("array", s.value) /\ \E j \in DOMAIN h[s.value[2]] :
                            r = At(Append(s.path, j), h[s.value[2]][j])
          BY <5>2, FurtherParts
        <5>4. QED
          BY <5>1, <5>3
      <4>2. PICK j \in DOMAIN h[s.value[2]] : r = At(Append(s.path, j), h[s.value[2]][j])
        BY <4>1
      <4>3. First(l, s)
        BY <2>2
      <4>4. CASE s = At(<<>>, v)
        <5>1. s.path = <<>> /\ s.value = v
          BY <1>6, <4>4
        <5>2. j \in DOMAIN h[a] /\ r = At(Onto(j, <<>>), h[a][j])
          BY <1>3, <1>4, <1>7, <4>2, <5>1
        <5>3. PICK q : q = At(<<>>, h[a][j])
          OBVIOUS
        <5>4. q \in F[h[a][j]][k] /\ q.path = <<>> /\ q.value = h[a][j]
          BY <2>4, <5>2, <5>3 DEF At
        <5>5. QED
          BY <5>2, <5>4
      <4>5. CASE \E i \in DOMAIN h[a] : \E q \in F[h[a][i]][l] : s = At(Onto(i, q.path), q.value)
        <5>1. PICK i \in DOMAIN h[a] : \E q \in F[h[a][i]][l] : s = At(Onto(i, q.path), q.value)
          BY <4>5
        <5>2. PICK q \in F[h[a][i]][l] : s = At(Onto(i, q.path), q.value)
          BY <5>1
        <5>3. s.path = Onto(i, q.path) /\ s.value = q.value
          BY <5>2 DEF At
        <5>4. q.path \in Path /\ q.value \in Value(n)
          BY <2>4, <5>2 DEF Places
        <5>5. j \in Nat
          <6>1. q.value[2] \in 1 .. n
            BY <4>1, <5>3, <5>4, HeapedParts
          <6>2. QED
            BY <4>2, <5>3, <6>1, HeapedParts
        <5>6. Append(s.path, j) = Onto(i, Append(q.path, j))
          <6>1. i \in Nat
            BY <1>4
          <6>2. PICK p, f : p = q.path /\ f = s.path
            OBVIOUS
          <6>3. p \in Path /\ f = Onto(i, p) /\ j \in Nat
            BY <5>3, <5>4, <5>5, <6>1, <6>2
          <6>4. Append(Onto(i, p), j) = Onto(i, Append(p, j))
            BY <6>1, <6>3, PathsLonger
          <6>5. QED
            BY <6>2, <6>3, <6>4
        <5>7. PICK e : e = At(Append(q.path, j), h[q.value[2]][j])
          OBVIOUS
        <5>8. e \in F[h[a][i]][k]
          <6>1. e \in Further(h, F[h[a][i]][l])
            BY <4>1, <4>2, <5>2, <5>3, <5>7, FurtherParts
          <6>2. QED
            BY <2>4, <6>1
        <5>9. r = At(Onto(i, e.path), e.value)
          <6>1. e.path = Append(q.path, j) /\ e.value = h[q.value[2]][j]
            BY <5>7 DEF At
          <6>2. QED
            BY <4>2, <5>3, <5>6, <6>1
        <5>10. QED
          BY <5>8, <5>9
      <4>6. QED
        BY <4>3, <4>4, <4>5
    <3>3. QED
      BY <3>1, <3>2
  <2>6. ASSUME NEW r, First(k, r)
        PROVE  r \in F[v][k + 1]
    <3>1. CASE r = At(<<>>, v)
      BY <2>2, <2>3, <3>1
    <3>2. CASE \E i \in DOMAIN h[a] : \E q \in F[h[a][i]][k] : r = At(Onto(i, q.path), q.value)
      <4>1. PICK i \in DOMAIN h[a] : \E q \in F[h[a][i]][k] : r = At(Onto(i, q.path), q.value)
        BY <3>2
      <4>2. PICK q \in F[h[a][i]][k] : r = At(Onto(i, q.path), q.value)
        BY <4>1
      <4>3. CASE q \in F[h[a][i]][l]
        <5>1. r \in F[v][k]
          BY <2>2, <4>2, <4>3
        <5>2. QED
          BY <2>3, <5>1
      <4>4. CASE q \notin F[h[a][i]][l]
        <5>1. q \in Further(h, F[h[a][i]][l])
          BY <2>4, <4>2
        <5>2. PICK s \in F[h[a][i]][l] : Is("array", s.value) /\ \E j \in DOMAIN h[s.value[2]] :
                                   q = At(Append(s.path, j), h[s.value[2]][j])
          BY <4>4, <5>1, FurtherParts
        <5>3. PICK j \in DOMAIN h[s.value[2]] : q = At(Append(s.path, j), h[s.value[2]][j])
          BY <5>2
        <5>4. PICK e : e = At(Onto(i, s.path), s.value)
          OBVIOUS
        <5>5. e \in F[v][k] /\ e.path = Onto(i, s.path) /\ e.value = s.value
          <6>1. First(l, e)
            BY <5>2, <5>4
          <6>2. e \in F[v][k]
            BY <2>2, <6>1
          <6>3. QED
            BY <5>4, <6>2 DEF At
        <5>6. s.path \in Path /\ s.value \in Value(n)
          BY <2>4, <5>2 DEF Places
        <5>7. j \in Nat
          <6>1. s.value[2] \in 1 .. n
            BY <5>2, <5>6, HeapedParts
          <6>2. QED
            BY <5>3, <6>1, HeapedParts
        <5>8. Append(e.path, j) = Onto(i, Append(s.path, j))
          <6>1. i \in Nat
            BY <1>4
          <6>2. PICK p, f : p = s.path /\ f = e.path
            OBVIOUS
          <6>3. p \in Path /\ f = Onto(i, p) /\ j \in Nat
            BY <5>5, <5>6, <5>7, <6>1, <6>2
          <6>4. Append(Onto(i, p), j) = Onto(i, Append(p, j))
            BY <6>1, <6>3, PathsLonger
          <6>5. QED
            BY <6>2, <6>3, <6>4
        <5>9. At(Append(e.path, j), h[e.value[2]][j]) \in F[v][k + 1]
          <6>1. j \in DOMAIN h[e.value[2]] /\ Is("array", e.value)
            BY <5>2, <5>3, <5>5
          <6>2. At(Append(e.path, j), h[e.value[2]][j]) \in Further(h, F[v][k])
            BY <5>5, <6>1, FurtherParts
          <6>3. QED
            BY <2>3, <6>2
        <5>10. q.path = Append(s.path, j) /\ q.value = h[s.value[2]][j]
          BY <5>3 DEF At
        <5>11. QED
          BY <4>2, <5>5, <5>8, <5>9, <5>10
      <4>5. QED
        BY <4>3, <4>4
    <3>3. QED
      BY <2>6, <3>1, <3>2
  <2>7. FromItems(n, h, F, v, k)
    BY <1>2, <1>8, <2>5, <2>6
  <2>8. QED
    BY <1>2, <2>7
<1>11. QED
  BY <1>9, <1>10

LEMMA RootReached ==
  ASSUME NEW n, NEW h, Heaped(n, h), NEW F, AllReaching(n, h, F), NEW v \in Value(n), NEW k \in Nat
  PROVE  /\ F[v][k] \subseteq Places(n) /\ At(<<>>, v) \in F[v][k]
         /\ \A r \in F[v][k] : r.path = <<>> => r = At(<<>>, v)
<1>1. Reaching(n, h, v, F[v])
  BY DEF AllReaching
<1>2. F[v][k] \subseteq Places(n) /\ F[v][0] = {At(<<>>, v)}
  BY <1>1 DEF Reaching
<1>3. At(<<>>, v).path = <<>>
  BY DEF At
<1>4. CASE k = 0
  BY <1>2, <1>4
<1>5. CASE ~Is("array", v)
  <2>1. F[v][k] = {At(<<>>, v)}
    BY <1>5, OthersReach
  <2>2. QED
    BY <1>2, <2>1
<1>6. CASE k # 0 /\ Is("array", v)
  <2>1. PICK l \in Nat : k = l + 1
    <3>1. k - 1 \in Nat /\ k = (k - 1) + 1
      BY <1>6
    <3>2. QED
      BY <3>1
  <2>2. FromItems(n, h, F, v, l)
    BY <1>6, ArraysReach
  <2>3. At(<<>>, v) \in F[v][k]
    BY <2>1, <2>2 DEF FromItems
  <2>4. ASSUME NEW r \in F[v][k], r # At(<<>>, v)
        PROVE  r.path # <<>>
    <3>1. PICK i \in DOMAIN h[v[2]] : \E q \in F[h[v[2]][i]][l] : r = At(Onto(i, q.path), q.value)
      BY <2>1, <2>2, <2>4 DEF FromItems
    <3>2. PICK q \in F[h[v[2]][i]][l] : r = At(Onto(i, q.path), q.value)
      BY <3>1
    <3>3. i \in Nat /\ h[v[2]][i] \in Value(n)
      BY <1>6, <3>1, HeapedParts
    <3>4. q \in Places(n)
      <4>1. PICK w \in Value(n) : w = h[v[2]][i]
        BY <3>3
      <4>2. Reaching(n, h, w, F[w])
        BY DEF AllReaching
      <4>3. F[w][l] \subseteq Places(n)
        BY <4>2 DEF Reaching
      <4>4. QED
        BY <3>2, <4>1, <4>3
    <3>5. PICK f, e : f = q.path /\ e = r.path
      OBVIOUS
    <3>6. f \in Path /\ e = Onto(i, f)
      BY <3>2, <3>4, <3>5 DEF Places, At
    <3>7. Len(Onto(i, f)) = Len(f) + 1 /\ Len(f) \in Nat
      BY <3>3, <3>6, Paths
    <3>8. Len(<<>>) = 0
      OBVIOUS
    <3>9. QED
      BY <3>5, <3>6, <3>7, <3>8
  <2>5. QED
    BY <1>2, <2>3, <2>4
<1>7. QED
  BY <1>4, <1>5, <1>6

(* What is seen there. *)
LooksIn(h, v) == IF Is("array", v) THEN <<"length", Len(h[v[2]])>> ELSE v
Spot(p, l) == [path |-> p, looks |-> l]
SeenIn(h, X) == {Spot(r.path, LooksIn(h, r.value)) : r \in X}

LEMMA Spots ==
  ASSUME NEW p, NEW l, NEW q, NEW m, Spot(p, l) = Spot(q, m)
  PROVE  p = q /\ l = m
BY DEF Spot

LEMMA LooksApart ==
  ASSUME NEW n, NEW h, Heaped(n, h), NEW v \in Value(n), NEW w \in Value(n)
  PROVE  LooksIn(h, v) = LooksIn(h, w) <=>
           IF Is("array", v) /\ Is("array", w) THEN Len(h[v[2]]) = Len(h[w[2]]) ELSE v = w
<1>1. n \in Nat
  BY HeapedParts
<1>2. v[1] # "length" /\ w[1] # "length"
  BY <1>1, Kinds
<1>3. \A x : <<"length", x>>[1] = "length" /\ <<"length", x>>[2] = x
  OBVIOUS
<1>4. CASE Is("array", v) /\ Is("array", w)
  BY <1>3, <1>4 DEF LooksIn
<1>5. CASE Is("array", v) /\ ~Is("array", w)
  BY <1>2, <1>3, <1>5 DEF LooksIn
<1>6. CASE ~Is("array", v) /\ Is("array", w)
  BY <1>2, <1>3, <1>6 DEF LooksIn
<1>7. CASE ~Is("array", v) /\ ~Is("array", w)
  BY <1>7 DEF LooksIn
<1>8. QED
  BY <1>4, <1>5, <1>6, <1>7

LEMMA RootSeen ==
  ASSUME NEW n, NEW h, Heaped(n, h), NEW F, AllReaching(n, h, F), NEW v \in Value(n), NEW k \in Nat
  PROVE  \A l : Spot(<<>>, l) \in SeenIn(h, F[v][k]) <=> l = LooksIn(h, v)
<1>1. At(<<>>, v) \in F[v][k] /\ \A r \in F[v][k] : r.path = <<>> => r = At(<<>>, v)
  BY RootReached
<1>2. At(<<>>, v).path = <<>> /\ At(<<>>, v).value = v
  BY DEF At
<1>3. Spot(<<>>, LooksIn(h, v)) \in SeenIn(h, F[v][k])
  BY <1>1, <1>2 DEF SeenIn
<1>4. ASSUME NEW l, Spot(<<>>, l) \in SeenIn(h, F[v][k])
      PROVE  l = LooksIn(h, v)
  <2>1. PICK r \in F[v][k] : Spot(<<>>, l) = Spot(r.path, LooksIn(h, r.value))
    BY <1>4 DEF SeenIn
  <2>2. r.path = <<>> /\ l = LooksIn(h, r.value)
    BY <2>1, Spots
  <2>3. r.value = v
    BY <1>1, <1>2, <2>2
  <2>4. QED
    BY <2>2, <2>3
<1>5. QED
  BY <1>3, <1>4

(* What is seen in an array is seen in its items, one place on.             *)
SeenInItems(h, F, a, k, s) ==
  \E i \in DOMAIN h[a] : \E p \in Path : \E l :
    Spot(p, l) \in SeenIn(h, F[h[a][i]][k]) /\ s = Spot(Onto(i, p), l)

LEMMA ItemsSeen ==
  ASSUME NEW n, NEW h, Heaped(n, h), NEW F, AllReaching(n, h, F), NEW k \in Nat,
         NEW v \in Value(n), Is("array", v), NEW s
  PROVE  s \in SeenIn(h, F[v][k + 1]) <=> s = Spot(<<>>, LooksIn(h, v)) \/ SeenInItems(h, F, v[2], k, s)
<1>1. FromItems(n, h, F, v, k)
  BY ArraysReach
<1>2. At(<<>>, v).path = <<>> /\ At(<<>>, v).value = v
  BY DEF At
<1>3. \A i \in DOMAIN h[v[2]] : h[v[2]][i] \in Value(n) /\ F[h[v[2]][i]][k] \subseteq Places(n)
  <2>1. TAKE i \in DOMAIN h[v[2]]
  <2>2. PICK w : w = h[v[2]][i]
    OBVIOUS
  <2>3. w \in Value(n)
    BY <2>2, HeapedParts
  <2>4. F[w][k] \subseteq Places(n)
    BY <2>3, RootReached
  <2>5. QED
    BY <2>2, <2>3, <2>4
<1>4. ASSUME s \in SeenIn(h, F[v][k + 1])
      PROVE  s = Spot(<<>>, LooksIn(h, v)) \/ SeenInItems(h, F, v[2], k, s)
  <2>1. PICK r \in F[v][k + 1] : s = Spot(r.path, LooksIn(h, r.value))
    BY <1>4 DEF SeenIn
  <2>2. CASE r = At(<<>>, v)
    BY <1>2, <2>1, <2>2
  <2>3. CASE r # At(<<>>, v)
    <3>1. PICK i \in DOMAIN h[v[2]] : \E q \in F[h[v[2]][i]][k] : r = At(Onto(i, q.path), q.value)
      BY <1>1, <2>1, <2>3 DEF FromItems
    <3>2. PICK q \in F[h[v[2]][i]][k] : r = At(Onto(i, q.path), q.value)
      BY <3>1
    <3>3. r.path = Onto(i, q.path) /\ r.value = q.value
      BY <3>2 DEF At
    <3>4. Spot(q.path, LooksIn(h, q.value)) \in SeenIn(h, F[h[v[2]][i]][k])
      BY <3>2 DEF SeenIn
    <3>5. q.path \in Path
      BY <1>3, <3>2 DEF Places
    <3>6. QED
      BY <2>1, <3>3, <3>4, <3>5 DEF SeenInItems
  <2>4. QED
    BY <2>2, <2>3
<1>5. ASSUME s = Spot(<<>>, LooksIn(h, v))
      PROVE  s \in SeenIn(h, F[v][k + 1])
  <2>1. k + 1 \in Nat
    OBVIOUS
  <2>2. At(<<>>, v) \in F[v][k + 1]
    BY <2>1, RootReached
  <2>3. QED
    BY <1>2, <1>5, <2>2 DEF SeenIn
<1>6. ASSUME NEW i \in DOMAIN h[v[2]], NEW p \in Path, NEW l,
             Spot(p, l) \in SeenIn(h, F[h[v[2]][i]][k]), s = Spot(Onto(i, p), l)
      PROVE  s \in SeenIn(h, F[v][k + 1])
  <2>1. PICK q \in F[h[v[2]][i]][k] : Spot(p, l) = Spot(q.path, LooksIn(h, q.value))
    BY <1>6 DEF SeenIn
  <2>2. p = q.path /\ l = LooksIn(h, q.value)
    BY <2>1, Spots
  <2>3. PICK r : r = At(Onto(i, q.path), q.value)
    OBVIOUS
  <2>4. r \in F[v][k + 1]
    BY <1>1, <2>1, <2>3 DEF FromItems
  <2>5. r.path = Onto(i, p) /\ LooksIn(h, r.value) = l
    BY <2>2, <2>3 DEF At
  <2>6. QED
    BY <1>6, <2>4, <2>5 DEF SeenIn
<1>7. QED
  BY <1>4, <1>5, <1>6 DEF SeenInItems

ItemsWithin(h, F, a, b, k) ==
  /\ Len(h[a]) = Len(h[b])
  /\ \A i \in DOMAIN h[a] : SeenIn(h, F[h[a][i]][k]) \subseteq SeenIn(h, F[h[b][i]][k])

LEMMA SeenWithin ==
  ASSUME NEW n, NEW h, Heaped(n, h), NEW F, AllReaching(n, h, F), NEW k \in Nat,
         NEW v \in Value(n), Is("array", v), NEW w \in Value(n), Is("array", w)
  PROVE  SeenIn(h, F[v][k + 1]) \subseteq SeenIn(h, F[w][k + 1]) <=> ItemsWithin(h, F, v[2], w[2], k)
<1>1. PICK a \in 1 .. n, b \in 1 .. n : a = v[2] /\ b = w[2]
  BY HeapedParts
<1>2. /\ Len(h[a]) \in Nat /\ DOMAIN h[a] = 1 .. Len(h[a])
      /\ Len(h[b]) \in Nat /\ DOMAIN h[b] = 1 .. Len(h[b])
  BY HeapedParts
<1>3. k + 1 \in Nat
  OBVIOUS
<1>4. PICK X, Y : X = SeenIn(h, F[v][k + 1]) /\ Y = SeenIn(h, F[w][k + 1])
  OBVIOUS
<1> DEFINE In(c, i) == SeenIn(h, F[h[c][i]][k])
<1>5. \A s : s \in X <=> s = Spot(<<>>, LooksIn(h, v)) \/ SeenInItems(h, F, a, k, s)
  BY <1>1, <1>4, ItemsSeen
<1>6. \A s : s \in Y <=> s = Spot(<<>>, LooksIn(h, w)) \/ SeenInItems(h, F, b, k, s)
  BY <1>1, <1>4, ItemsSeen
<1>7. \A l : Spot(<<>>, l) \in Y <=> l = LooksIn(h, w)
  BY <1>3, <1>4, RootSeen
<1>8. \A c \in 1 .. n : \A i \in DOMAIN h[c] : \A s \in In(c, i) : \E p \in Path : \E l : s = Spot(p, l)
  <2>1. TAKE c \in 1 .. n
  <2>2. TAKE i \in DOMAIN h[c]
  <2>3. TAKE s \in In(c, i)
  <2>4. PICK u : u = h[c][i]
    OBVIOUS
  <2>5. u \in Value(n)
    BY <2>4, HeapedParts
  <2>6. PICK r \in F[u][k] : s = Spot(r.path, LooksIn(h, r.value))
    BY <2>4 DEF SeenIn
  <2>7. F[u][k] \subseteq Places(n)
    BY <2>5, RootReached
  <2>8. r.path \in Path
    BY <2>6, <2>7 DEF Places
  <2>9. QED
    BY <2>6, <2>8
<1>9. LooksIn(h, v) = LooksIn(h, w) <=> Len(h[a]) = Len(h[b])
  BY <1>1, LooksApart
<1> HIDE DEF In
<1>10. ASSUME X \subseteq Y
       PROVE  Len(h[a]) = Len(h[b]) /\ \A i \in DOMAIN h[a] : In(a, i) \subseteq In(b, i)
  <2>1. Len(h[a]) = Len(h[b])
    BY <1>5, <1>7, <1>9, <1>10
  <2>2. ASSUME NEW i \in DOMAIN h[a], NEW t \in In(a, i)
        PROVE  t \in In(b, i)
    <3>1. PICK p \in Path : \E l : t = Spot(p, l)
      BY <1>8
    <3>2. PICK l : t = Spot(p, l)
      BY <3>1
    <3>3. i \in Nat
      BY <1>2
    <3>4. PICK s : s = Spot(Onto(i, p), l)
      OBVIOUS
    <3>5. s \in X
      BY <1>5, <2>2, <3>4, <3>2 DEF SeenInItems, In
    <3>6. s \in Y
      BY <1>10, <3>5
    <3>7. Onto(i, p) # <<>>
      <4>1. Len(Onto(i, p)) = Len(p) + 1 /\ Len(p) \in Nat
        BY <3>3, Paths
      <4>2. Len(<<>>) = 0
        OBVIOUS
      <4>3. QED
        BY <4>1, <4>2
    <3>8. s # Spot(<<>>, LooksIn(h, w))
      BY <3>4, <3>7, Spots
    <3>9. SeenInItems(h, F, b, k, s)
      BY <1>6, <3>6, <3>8
    <3>10. PICK j \in DOMAIN h[b] : \E q \in Path : \E m : Spot(q, m) \in In(b, j) /\ s = Spot(Onto(j, q), m)
      BY <3>9 DEF SeenInItems, In
    <3>11. PICK q \in Path : \E m : Spot(q, m) \in In(b, j) /\ s = Spot(Onto(j, q), m)
      BY <3>10
    <3>12. PICK m : Spot(q, m) \in In(b, j) /\ s = Spot(Onto(j, q), m)
      BY <3>11
    <3>13. Onto(i, p) = Onto(j, q) /\ l = m
      <4>1. PICK x, y : x = Onto(i, p) /\ y = Onto(j, q)
        OBVIOUS
      <4>2. Spot(x, l) = Spot(y, m)
        BY <3>4, <3>12, <4>1
      <4>3. x = y /\ l = m
        BY <4>2, Spots
      <4>4. QED
        BY <4>1, <4>3
    <3>14. j \in Nat
      BY <1>2
    <3>15. i = j /\ p = q
      BY <3>3, <3>13, <3>14, PathsApart
    <3>16. QED
      BY <3>12, <3>13, <3>15, <3>2
  <2>3. QED
    BY <2>1, <2>2
<1>11. ASSUME Len(h[a]) = Len(h[b]), \A i \in DOMAIN h[a] : In(a, i) \subseteq In(b, i)
       PROVE  X \subseteq Y
  <2>1. SUFFICES ASSUME NEW s \in X PROVE s \in Y
    OBVIOUS
  <2>2. CASE s = Spot(<<>>, LooksIn(h, v))
    BY <1>7, <1>9, <1>11, <2>2
  <2>3. CASE SeenInItems(h, F, a, k, s)
    <3>1. SeenInItems(h, F, b, k, s)
      BY <1>2, <1>11, <2>3 DEF SeenInItems, In
    <3>2. QED
      BY <1>6, <3>1
  <2>4. QED
    BY <1>5, <2>2, <2>3
<1>12. QED
  BY <1>1, <1>4, <1>10, <1>11 DEF In, ItemsWithin

(* As much is seen in two values as nothing tells them apart that far on.   *)
LEMMA SeenAlike ==
  ASSUME NEW n, NEW h, Heaped(n, h), NEW F, AllReaching(n, h, F), NEW P, Closing(h, P)
  PROVE  \A k \in Nat : \A v, w \in Value(n) : SeenIn(h, F[v][k]) = SeenIn(h, F[w][k]) <=> AlikeBut(v, w, P[k])
<1> DEFINE Fine(k, v, w) == SeenIn(h, F[v][k]) = SeenIn(h, F[w][k]) <=> AlikeBut(v, w, P[k])
           T == {k \in Nat : \E v, w \in Value(n) : ~Fine(k, v, w)}
<1>1. SUFFICES ASSUME T # {} PROVE FALSE
  OBVIOUS
<1>2. PICK k \in T : \A l \in T : k <= l
  <2>1. T \subseteq Nat
    OBVIOUS
  <2>2. QED
    BY <1>1, <2>1, LeastNatural
<1>3. PICK v \in Value(n), w \in Value(n) : ~Fine(k, v, w)
  BY <1>2
<1>4. DOMAIN h = 1 .. n /\ k \in Nat
  BY <1>2, HeapedParts
<1>5. SeenIn(h, F[v][k]) = SeenIn(h, F[w][k]) => LooksIn(h, v) = LooksIn(h, w)
  <2>1. Spot(<<>>, LooksIn(h, v)) \in SeenIn(h, F[v][k])
    BY <1>4, RootSeen
  <2>2. Spot(<<>>, LooksIn(h, v)) \in SeenIn(h, F[w][k]) => LooksIn(h, v) = LooksIn(h, w)
    BY <1>4, RootSeen
  <2>3. QED
    BY <2>1, <2>2
<1>6. LooksIn(h, v) = LooksIn(h, w) <=>
           IF Is("array", v) /\ Is("array", w) THEN Len(h[v[2]]) = Len(h[w[2]]) ELSE v = w
  BY LooksApart
<1>7. CASE ~(Is("array", v) /\ Is("array", w))
  <2>1. AlikeBut(v, w, P[k]) <=> v = w
    BY <1>7 DEF AlikeBut
  <2>2. v = w => SeenIn(h, F[v][k]) = SeenIn(h, F[w][k])
    OBVIOUS
  <2>3. QED
    BY <1>3, <1>5, <1>6, <1>7, <2>1, <2>2
<1>8. CASE Is("array", v) /\ Is("array", w)
  <2>1. PICK a \in 1 .. n, b \in 1 .. n : a = v[2] /\ b = w[2]
    BY <1>8, HeapedParts
  <2>2. AlikeBut(v, w, P[k]) <=> <<a, b>> \in P[k]
    BY <1>8, <2>1 DEF AlikeBut
  <2>3. PICK p : p = <<a, b>>
    OBVIOUS
  <2>4. p \in (DOMAIN h) \X DOMAIN h /\ p[1] = a /\ p[2] = b
    BY <1>4, <2>3
  <2>5. CASE k = 0
    <3>1. P[0] = AsLong(h)
      BY DEF Closing
    <3>2. p \in P[0] <=> Len(h[a]) = Len(h[b])
      BY <2>4, <3>1 DEF AsLong
    <3>3. F[v][0] = {At(<<>>, v)} /\ F[w][0] = {At(<<>>, w)}
      BY DEF AllReaching, Reaching
    <3>4. LooksIn(h, v) = LooksIn(h, w) => SeenIn(h, F[v][0]) = SeenIn(h, F[w][0])
      BY <3>3 DEF SeenIn, At
    <3>5. QED
      BY <1>3, <1>5, <1>6, <1>8, <2>1, <2>2, <2>3, <2>5, <3>2, <3>4
  <2>6. CASE k # 0
    <3>1. PICK l \in Nat : k = l + 1 /\ l \notin T
      <4>1. k - 1 \in Nat /\ k = (k - 1) + 1 /\ ~(k <= k - 1)
        BY <1>4, <2>6
      <4>2. QED
        BY <1>2, <4>1
    <3> DEFINE In(c, i) == SeenIn(h, F[h[c][i]][l])
    <3>2. SeenIn(h, F[v][k]) \subseteq SeenIn(h, F[w][k]) <=>
            Len(h[a]) = Len(h[b]) /\ \A i \in DOMAIN h[a] : In(a, i) \subseteq In(b, i)
      <4>1. SeenIn(h, F[v][l + 1]) \subseteq SeenIn(h, F[w][l + 1]) <=> ItemsWithin(h, F, v[2], w[2], l)
        BY <1>8, SeenWithin
      <4>2. QED
        BY <2>1, <3>1, <4>1 DEF ItemsWithin
    <3>3. SeenIn(h, F[w][k]) \subseteq SeenIn(h, F[v][k]) <=>
            Len(h[b]) = Len(h[a]) /\ \A i \in DOMAIN h[b] : In(b, i) \subseteq In(a, i)
      <4>1. SeenIn(h, F[w][l + 1]) \subseteq SeenIn(h, F[v][l + 1]) <=> ItemsWithin(h, F, w[2], v[2], l)
        BY <1>8, SeenWithin
      <4>2. QED
        BY <2>1, <3>1, <4>1 DEF ItemsWithin
    <3>4. Len(h[a]) = Len(h[b]) => DOMAIN h[a] = DOMAIN h[b]
      BY HeapedParts
    <3>5. P[k] = Closer(h, P[l])
      BY <3>1 DEF Closing
    <3>6. p \in P[k] <=> Len(h[a]) = Len(h[b]) /\ \A i \in DOMAIN h[a] : AlikeBut(h[a][i], h[b][i], P[l])
      BY <2>4, <3>5 DEF Closer
    <3>7. ASSUME Len(h[a]) = Len(h[b]), NEW i \in DOMAIN h[a]
          PROVE  In(a, i) = In(b, i) <=> AlikeBut(h[a][i], h[b][i], P[l])
      <4>1. PICK x, y : x = h[a][i] /\ y = h[b][i]
        OBVIOUS
      <4>2. x \in Value(n) /\ y \in Value(n)
        BY <3>4, <3>7, <4>1, HeapedParts
      <4>3. Fine(l, x, y)
        BY <3>1, <4>2
      <4>4. QED
        BY <4>1, <4>3
    <3> HIDE DEF In
    <3>8. SeenIn(h, F[v][k]) = SeenIn(h, F[w][k]) <=>
            SeenIn(h, F[v][k]) \subseteq SeenIn(h, F[w][k]) /\ SeenIn(h, F[w][k]) \subseteq SeenIn(h, F[v][k])
      OBVIOUS
    <3>9. SeenIn(h, F[v][k]) = SeenIn(h, F[w][k]) <=>
            Len(h[a]) = Len(h[b]) /\ \A i \in DOMAIN h[a] : In(a, i) = In(b, i)
      BY <3>2, <3>3, <3>4, <3>8
    <3>10. QED
      BY <1>3, <2>2, <2>3, <3>6, <3>7, <3>9
  <2>7. QED
    BY <2>5, <2>6
<1>9. QED
  BY <1>7, <1>8

(* Arrays that deep are those in which an array is reached that far on.     *)
ArrayAt(X, j) == \E r \in X : Len(r.path) = j /\ Is("array", r.value)

LEMMA DeepReached ==
  ASSUME NEW n, NEW h, Heaped(n, h), NEW F, AllReaching(n, h, F), NEW L, Deepening(h, L)
  PROVE  \A j \in Nat : \A k \in Nat : \A v \in Value(n) :
           j <= k => (ArrayAt(F[v][k], j) <=> Is("array", v) /\ v[2] \in L[j])
<1> DEFINE Fine(j, k, v) == ArrayAt(F[v][k], j) <=> Is("array", v) /\ v[2] \in L[j]
           T == {j \in Nat : \E k \in Nat : \E v \in Value(n) : j <= k /\ ~Fine(j, k, v)}
<1>1. SUFFICES ASSUME T # {} PROVE FALSE
  OBVIOUS
<1>2. PICK j \in T : \A l \in T : j <= l
  <2>1. T \subseteq Nat
    OBVIOUS
  <2>2. QED
    BY <1>1, <2>1, LeastNatural
<1>3. PICK k \in Nat : \E v \in Value(n) : j <= k /\ ~Fine(j, k, v)
  BY <1>2
<1>4. PICK v \in Value(n) : j <= k /\ ~Fine(j, k, v)
  BY <1>3
<1>5. DOMAIN h = 1 .. n /\ j \in Nat
  BY <1>2, HeapedParts
<1>6. At(<<>>, v) \in F[v][k] /\ F[v][k] \subseteq Places(n)
  BY RootReached
<1>7. At(<<>>, v).path = <<>> /\ At(<<>>, v).value = v /\ Len(<<>>) = 0
  BY DEF At
<1>8. CASE ~Is("array", v)
  <2>1. F[v][k] = {At(<<>>, v)}
    BY <1>8, OthersReach
  <2>2. ~ArrayAt(F[v][k], j)
    BY <1>7, <1>8, <2>1 DEF ArrayAt
  <2>3. QED
    BY <1>4, <1>8, <2>2
<1>9. CASE Is("array", v) /\ j = 0
  <2>1. ArrayAt(F[v][k], 0)
    BY <1>6, <1>7, <1>9 DEF ArrayAt
  <2>2. L[0] = DOMAIN h
    BY DEF Deepening
  <2>3. v[2] \in L[0]
    BY <1>5, <1>9, <2>2, HeapedParts
  <2>4. QED
    BY <1>4, <1>9, <2>1, <2>3
<1>10. CASE Is("array", v) /\ j # 0
  <2>1. PICK i \in Nat : j = i + 1 /\ i \notin T
    <3>1. j - 1 \in Nat /\ j = (j - 1) + 1 /\ ~(j <= j - 1)
      BY <1>5, <1>10
    <3>2. QED
      BY <1>2, <3>1
  <2>2. PICK l \in Nat : k = l + 1 /\ i <= l
    <3>1. k - 1 \in Nat /\ k = (k - 1) + 1 /\ i <= k - 1
      BY <1>4, <1>5, <1>10, <2>1
    <3>2. QED
      BY <3>1
  <2>3. FromItems(n, h, F, v, l)
    BY <1>10, ArraysReach
  <2>4. PICK a \in 1 .. n : a = v[2]
    BY <1>10, HeapedParts
  <2>5. L[j] = Deeper(h, L[i])
    BY <2>1 DEF Deepening
  <2>6. a \in L[j] <=> \E m \in DOMAIN h[a] : Is("array", h[a][m]) /\ h[a][m][2] \in L[i]
    BY <1>5, <2>5 DEF Deeper
  <2>7. \A m \in DOMAIN h[a] : ArrayAt(F[h[a][m]][l], i) <=> Is("array", h[a][m]) /\ h[a][m][2] \in L[i]
    <3>1. TAKE m \in DOMAIN h[a]
    <3>2. PICK w \in Value(n) : w = h[a][m]
      BY HeapedParts
    <3>3. Fine(i, l, w)
      BY <2>1, <2>2
    <3>4. QED
      BY <3>2, <3>3
  <2>8. ASSUME NEW m \in DOMAIN h[a], NEW q \in F[h[a][m]][l]
        PROVE  /\ At(Onto(m, q.path), q.value) \in F[v][k]
               /\ At(Onto(m, q.path), q.value).value = q.value
               /\ Len(At(Onto(m, q.path), q.value).path) = j <=> Len(q.path) = i
    <3>1. At(Onto(m, q.path), q.value) \in F[v][k]
      BY <2>2, <2>3, <2>4 DEF FromItems
    <3>2. PICK w \in Value(n) : w = h[a][m]
      BY HeapedParts
    <3>3. F[w][l] \subseteq Places(n)
      BY RootReached
    <3>4. PICK f : f = q.path
      OBVIOUS
    <3>5. f \in Path /\ m \in Nat
      BY <2>8, <3>2, <3>3, <3>4, HeapedParts DEF Places
    <3>6. Len(Onto(m, f)) = Len(f) + 1 /\ Len(f) \in Nat
      BY <3>5, Paths
    <3>7. Len(Onto(m, f)) = j <=> Len(f) = i
      BY <2>1, <3>6
    <3>8. QED
      BY <3>1, <3>4, <3>7 DEF At
  <2>9. ASSUME ArrayAt(F[v][k], j)
        PROVE  \E m \in DOMAIN h[a] : ArrayAt(F[h[a][m]][l], i)
    <3>1. PICK r \in F[v][k] : Len(r.path) = j /\ Is("array", r.value)
      BY <2>9 DEF ArrayAt
    <3>2. r # At(<<>>, v)
      BY <1>7, <1>10, <3>1
    <3>3. PICK m \in DOMAIN h[a] : \E q \in F[h[a][m]][l] : r = At(Onto(m, q.path), q.value)
      BY <2>2, <2>3, <2>4, <3>1, <3>2 DEF FromItems
    <3>4. PICK q \in F[h[a][m]][l] : r = At(Onto(m, q.path), q.value)
      BY <3>3
    <3>5. Len(q.path) = i /\ Is("array", q.value)
      BY <2>8, <3>1, <3>4
    <3>6. ArrayAt(F[h[a][m]][l], i)
      BY <3>4, <3>5 DEF ArrayAt
    <3>7. QED
      BY <3>6
  <2>10. ASSUME NEW m \in DOMAIN h[a], ArrayAt(F[h[a][m]][l], i)
         PROVE  ArrayAt(F[v][k], j)
    <3>1. PICK q \in F[h[a][m]][l] : Len(q.path) = i /\ Is("array", q.value)
      BY <2>10 DEF ArrayAt
    <3>2. QED
      BY <2>8, <3>1 DEF ArrayAt
  <2>11. QED
    BY <1>4, <1>10, <2>4, <2>6, <2>7, <2>9, <2>10
<1>11. QED
  BY <1>8, <1>9, <1>10

-----------------------------------------------------------------------------
(***************************************************************************)
(* As far on as Reached goes, nothing changes any more.                    *)
(***************************************************************************)

(* Beyond as many arrays as there are, none is deep that was not before.    *)
LEMMA DeepSettles ==
  ASSUME NEW n, NEW h, Heaped(n, h), n <= MaxArrays, NEW L, Deepening(h, L),
         NEW g, Chained(SUBSET DOMAIN h, g, L[0], L)
  PROVE  L[Depth] = L[MaxArrays]
<1>1. n \in Nat /\ DOMAIN h = 1 .. n /\ MaxArrays \in Nat /\ Depth \in Nat /\ Depth >= MaxArrays
  BY RoomAssumption, HeapedParts
<1>2. IsFiniteSet(DOMAIN h) /\ Cardinality(DOMAIN h) <= MaxArrays
  <2>1. IsFiniteSet(1 .. n) /\ Cardinality(1 .. n) = IF 1 > n THEN 0 ELSE n - 1 + 1
    BY <1>1, FS_Interval
  <2>2. QED
    BY <1>1, <2>1
<1>3. ASSUME NEW k \in Nat
      PROVE  L[k + 1] \subseteq L[k]
  <2> DEFINE T == {i \in Nat : ~(L[i + 1] \subseteq L[i])}
  <2>1. SUFFICES ASSUME T # {} PROVE FALSE
    OBVIOUS
  <2>2. PICK i \in T : \A l \in T : i <= l
    <3>1. T \subseteq Nat
      OBVIOUS
    <3>2. QED
      BY <2>1, <3>1, LeastNatural
  <2>3. L[i + 1] = Deeper(h, L[i])
    BY <2>2 DEF Deepening
  <2>4. CASE i = 0
    <3>1. L[i] = DOMAIN h
      BY <2>4 DEF Deepening
    <3>2. QED
      BY <2>2, <2>3, <3>1 DEF Deeper
  <2>5. CASE i # 0
    <3>1. PICK l \in Nat : i = l + 1 /\ l \notin T
      <4>1. i - 1 \in Nat /\ i = (i - 1) + 1 /\ ~(i <= i - 1)
        BY <2>2, <2>5
      <4>2. QED
        BY <2>2, <4>1
    <3>2. L[i] = Deeper(h, L[l]) /\ L[i] \subseteq L[l]
      BY <3>1 DEF Deepening
    <3>3. Deeper(h, L[i]) \subseteq Deeper(h, L[l])
      BY <3>2 DEF Deeper
    <3>4. QED
      BY <2>2, <2>3, <3>2, <3>3
  <2>6. QED
    BY <2>4, <2>5
<1>4. PICK D : D = DOMAIN h
  OBVIOUS
<1>5. IsFiniteSet(D) /\ Chained(SUBSET D, g, L[0], L) /\ Cardinality(D) <= MaxArrays
  BY <1>2, <1>4
<1>6. PICK m \in Nat : m = MaxArrays
  BY <1>1
<1>7. PICK x : x = L[0]
  OBVIOUS
<1>8. Chained(SUBSET D, g, x, L) /\ Cardinality(D) <= m
  BY <1>5, <1>6, <1>7
<1>9. Shrinks(L)
  BY <1>3 DEF Shrinks
<1>10. Stays(L, m)
  BY <1>5, <1>8, <1>9, Settles
<1>11. QED
  BY <1>1, <1>6, <1>10 DEF Stays

(* After a round for every two arrays, nothing tells more arrays apart.     *)
LEMMA CloseSettles ==
  ASSUME NEW n, NEW h, Heaped(n, h), n <= MaxArrays, NEW P, Closing(h, P),
         NEW g, Chained(SUBSET ((DOMAIN h) \X DOMAIN h), g, P[0], P)
  PROVE  P[MaxArrays * MaxArrays] = Closer(h, P[MaxArrays * MaxArrays])
<1>1. n \in Nat /\ DOMAIN h = 1 .. n /\ MaxArrays \in Nat
  BY RoomAssumption, HeapedParts
<1>2. PICK m : m = MaxArrays * MaxArrays
  OBVIOUS
<1>3. m \in Nat /\ n * n \in Nat /\ n * n <= m
  <2>1. \A i \in Nat, j \in Nat : i <= j => i * i <= j * j /\ i * i \in Nat
    <3>1. ASSUME NEW i \in Nat, NEW j \in Nat, i <= j
          PROVE  i * i <= j * j /\ i * i \in Nat
      <4>1. PICK d \in Nat : j = i + d
        <5>1. j - i \in Nat /\ j = i + (j - i)
          BY <3>1
        <5>2. QED
          BY <5>1
      <4>2. j * j = i * i + (2 * (i * d) + d * d) /\ i * i \in Nat /\ i * d \in Nat /\ d * d \in Nat
        BY <4>1
      <4>3. QED
        BY <4>2
    <3>2. QED
      BY <3>1
  <2>2. m \in Nat
    BY <1>1, <1>2, <2>1
  <2>3. QED
    BY <1>1, <1>2, <2>1, <2>2
<1>4. PICK D : D = (DOMAIN h) \X DOMAIN h
  OBVIOUS
<1>5. IsFiniteSet(D) /\ Cardinality(D) <= m
  <2>1. IsFiniteSet(1 .. n) /\ Cardinality(1 .. n) = n
    <3>1. IsFiniteSet(1 .. n) /\ Cardinality(1 .. n) = IF 1 > n THEN 0 ELSE n - 1 + 1
      BY <1>1, FS_Interval
    <3>2. QED
      BY <1>1, <3>1
  <2>2. IsFiniteSet((1 .. n) \X (1 .. n)) /\ Cardinality((1 .. n) \X (1 .. n)) = Cardinality(1 .. n) * Cardinality(1 .. n)
    BY <2>1, FS_Product
  <2>3. QED
    BY <1>1, <1>3, <1>4, <2>1, <2>2
<1>6. ASSUME NEW k \in Nat
      PROVE  P[k + 1] \subseteq P[k]
  <2> DEFINE T == {i \in Nat : ~(P[i + 1] \subseteq P[i])}
  <2>1. SUFFICES ASSUME T # {} PROVE FALSE
    OBVIOUS
  <2>2. PICK i \in T : \A l \in T : i <= l
    <3>1. T \subseteq Nat
      OBVIOUS
    <3>2. QED
      BY <2>1, <3>1, LeastNatural
  <2>3. P[i + 1] = Closer(h, P[i])
    BY <2>2 DEF Closing
  <2>4. CASE i = 0
    <3>1. P[i] = AsLong(h)
      BY <2>4 DEF Closing
    <3>2. QED
      BY <2>2, <2>3, <3>1 DEF Closer, AsLong
  <2>5. CASE i # 0
    <3>1. PICK l \in Nat : i = l + 1 /\ l \notin T
      <4>1. i - 1 \in Nat /\ i = (i - 1) + 1 /\ ~(i <= i - 1)
        BY <2>2, <2>5
      <4>2. QED
        BY <2>2, <4>1
    <3>2. P[i] = Closer(h, P[l]) /\ P[i] \subseteq P[l]
      BY <3>1 DEF Closing
    <3>3. Closer(h, P[i]) \subseteq Closer(h, P[l])
      <4>1. \A v, w : AlikeBut(v, w, P[i]) => AlikeBut(v, w, P[l])
        BY <3>2 DEF AlikeBut
      <4>2. QED
        BY <4>1 DEF Closer
    <3>4. QED
      BY <2>2, <2>3, <3>2, <3>3
  <2>6. QED
    BY <2>4, <2>5
<1>7. PICK x : x = P[0]
  OBVIOUS
<1>8. Chained(SUBSET D, g, x, P) /\ Shrinks(P)
  BY <1>4, <1>6, <1>7 DEF Shrinks
<1>9. m + 1 \in Nat /\ m + 1 >= m
  BY <1>3
<1>10. P[m + 1] = P[m]
  <2>1. Stays(P, m)
    BY <1>3, <1>5, <1>8, Settles
  <2>2. QED
    BY <1>9, <2>1 DEF Stays
<1>11. P[m + 1] = Closer(h, P[m])
  BY <1>3 DEF Closing
<1>12. QED
  BY <1>2, <1>10, <1>11

LEMMA ReachedIs ==
  ASSUME NEW n, NEW h, h = heap, Heaped(n, h), NEW F, AllReaching(n, h, F), NEW a \in 1 .. n
  PROVE  Reached(a) = F[Array(a)][MaxArrays * MaxArrays]
<1> DEFINE M == MaxArrays * MaxArrays
           x == {[path |-> <<>>, value |-> Array(a)]}
           step(sofar) == sofar \cup UNION {{[path |-> Append(r.path, i), value |-> heap[r.value[2]][i]] :
                            i \in DOMAIN heap[r.value[2]]} : r \in {q \in sofar : Is("array", q.value)}}
           reached == CHOOSE f : f = [m \in 0 .. M |-> IF m = 0 THEN x ELSE step(f[m - 1])]
           G == F[Array(a)]
<1>1. M \in Nat
  BY RoomAssumption
<1>2. Reached(a) = reached[M]
  BY DEF Reached
<1>3. Array(a) \in Value(n)
  BY DEF Value
<1>4. Reaching(n, h, Array(a), G)
  BY <1>3 DEF AllReaching
<1>5. G[0] = x
  BY <1>4 DEF Reaching, At
<1>6. \A k \in Nat : G[k + 1] = step(G[k])
  <2>1. TAKE k \in Nat
  <2>2. G[k + 1] = Further(h, G[k])
    BY <1>4 DEF Reaching
  <2>3. Further(h, G[k]) = step(G[k])
    BY DEF Further, At
  <2>4. QED
    BY <2>2, <2>3
<1> HIDE DEF M, x, step, G
<1>7. PICK e : e = [m \in 0 .. M |-> G[m]]
  OBVIOUS
<1>8. \A m \in 0 .. M : m = 0 \/ (m - 1 \in Nat /\ m - 1 \in 0 .. M /\ (m - 1) + 1 = m)
  BY <1>1
<1>9. \A m \in 0 .. M : G[m] = IF m = 0 THEN x ELSE step(G[m - 1])
  BY <1>5, <1>6, <1>8
<1>10. e = [m \in 0 .. M |-> IF m = 0 THEN x ELSE step(e[m - 1])]
  BY <1>7, <1>8, <1>9
<1>11. reached = [m \in 0 .. M |-> IF m = 0 THEN x ELSE step(reached[m - 1])]
  BY <1>10
<1> HIDE DEF reached
<1>12. \A m \in 0 .. M : reached[m] = IF m = 0 THEN x ELSE step(reached[m - 1])
  BY <1>11
<1>13. \A m \in 0 .. M : reached[m] = G[m]
  <2> DEFINE T == {m \in 0 .. M : reached[m] # G[m]}
  <2>1. SUFFICES ASSUME T # {} PROVE FALSE
    OBVIOUS
  <2>2. PICK m \in T : \A l \in T : m <= l
    <3>1. T \subseteq Nat
      BY <1>1
    <3>2. QED
      BY <2>1, <3>1, LeastNatural
  <2>3. m # 0
    BY <1>9, <1>12, <2>2
  <2>4. m - 1 \in 0 .. M /\ ~(m <= m - 1) /\ m \in 0 .. M
    BY <1>1, <2>2, <2>3
  <2>5. reached[m - 1] = G[m - 1]
    BY <2>2, <2>4
  <2>6. reached[m] = step(reached[m - 1]) /\ G[m] = step(G[m - 1])
    BY <1>9, <1>12, <2>3, <2>4
  <2>7. QED
    BY <2>2, <2>5, <2>6
<1>14. M \in 0 .. M
  BY <1>1
<1>15. QED
  BY <1>2, <1>13, <1>14 DEF G, M

-----------------------------------------------------------------------------
(***************************************************************************)
(* There are never more arrays than fit.                                   *)
(***************************************************************************)

Room == Len(heap) <= MaxArrays

(* The arrays are as many as they were. *)
AsMany == heap' = heap \/ \E a, items : heap' = [heap EXCEPT ![a] = items]

LEMMA AsManyRoom ==
  ASSUME IInv, IInv', Room, AsMany
  PROVE  Room'
<1>1. PICK h, g, n, m : h = heap /\ g = heap' /\ n = Len(heap) /\ m = Len(heap')
  OBVIOUS
<1>2. n \in Nat /\ DOMAIN h = 1 .. n
  BY <1>1, Facts, LenProperties
<1>3. m \in Nat /\ DOMAIN g = 1 .. m
  <2>1. \E l \in Nat : l = Len(heap') /\ heap' \in Seq(Seq(Value(l)))
    BY DEF IInv
  <2>2. QED
    BY <1>1, <2>1, LenProperties
<1>4. DOMAIN g = DOMAIN h
  BY <1>1 DEF AsMany
<1>5. m = n
  BY <1>2, <1>3, <1>4
<1>6. QED
  BY <1>1, <1>5 DEF Room

LEMMA AsManyLeft ==
  /\ \A x, r : Gets(x, r) => AsMany
  /\ \A how : Ends(how) => AsMany
  /\ \A v : NoMethod(v) => AsMany
  /\ \A act, with : Begins(act, with) => AsMany
  /\ \A a, items : Changes(a, items) => AsMany
<1>1. \A how : Ends(how) => AsMany
  BY DEF Ends, AsMany
<1>2. \A a, items : Changes(a, items) => AsMany
  BY DEF Changes, AsMany
<1>3. \A x, r : Gets(x, r) => AsMany
  BY <1>1 DEF Gets, AsMany
<1>4. \A v : NoMethod(v) => AsMany
  BY <1>1 DEF NoMethod
<1>5. \A act, with : Begins(act, with) => AsMany
  BY DEF Begins, AsMany
<1>6. QED
  BY <1>1, <1>2, <1>3, <1>4, <1>5

LEMMA AsManyAfter ==
  ASSUME NEW x,
         \/ Let(x) \/ Assign(x) \/ Read(x) \/ Equal(x) \/ Ask(x)
         \/ FindByMethod(x) \/ Answer(x) \/ EndFind(x)
         \/ Change \/ BeginWrite \/ EndWrite
         \/ BeginFor \/ BeginFind \/ BeginRange \/ BeginUpTo \/ BeginFrom
         \/ Round \/ SetItem \/ EndRound \/ Break \/ EndLoop
  PROVE  AsMany
<1>1. CASE Let(x) \/ Assign(x) \/ Read(x) \/ Equal(x)
  BY <1>1, AsManyLeft DEF Let, Assign, Read, Equal
<1>2. CASE Ask(x)
  BY <1>2, AsManyLeft DEF Ask
<1>3. CASE FindByMethod(x)
  BY <1>3, AsManyLeft DEF FindByMethod
<1>4. CASE Answer(x) \/ EndFind(x)
  BY <1>4 DEF Answer, EndFind, AsMany
<1>5. CASE Change
  BY <1>5, AsManyLeft DEF Change
<1>6. CASE BeginWrite
  BY <1>6, AsManyLeft DEF BeginWrite
<1>7. CASE EndWrite
  BY <1>7, AsManyLeft DEF EndWrite
<1>8. CASE BeginFor \/ BeginFind
  BY <1>8, AsManyLeft DEF BeginFor, BeginFind
<1>9. CASE BeginRange \/ BeginUpTo \/ BeginFrom
  BY <1>9, AsManyLeft DEF BeginRange, BeginUpTo, BeginFrom
<1>10. CASE Round
  BY <1>10, AsManyLeft DEF Round, AsMany
<1>11. CASE SetItem \/ EndRound \/ Break \/ EndLoop
  BY <1>11 DEF SetItem, EndRound, Break, EndLoop, AsMany
<1>12. QED
  BY <1>1, <1>2, <1>3, <1>4, <1>5, <1>6, <1>7, <1>8, <1>9, <1>10, <1>11

LEMMA RoomAfter ==
  ASSUME IInv, IInv', Room, [ArraysNext]_arraysVars
  PROVE  Room'
<1>1. CASE \E x \in Var : Create(x)
  <2>1. PICK x \in Var : Create(x)
    BY <1>1
  <2>2. PICK n, h, items : n = Len(heap) /\ h = heap /\ n < MaxArrays /\ heap' = Append(h, items)
    BY <2>1 DEF Create
  <2>3. n \in Nat /\ h \in Seq(Seq(Value(n))) /\ Len(h) = n
    BY <2>2, Facts
  <2>4. PICK m \in Nat : m = Len(heap') /\ heap' \in Seq(Seq(Value(m)))
    BY DEF IInv
  <2>5. Len(heap') = n + 1
    <3>1. \A S : \A s \in Seq(S) : \A e : Len(Append(s, e)) = Len(s) + 1
      <4>1. TAKE S
      <4>2. TAKE s \in Seq(S)
      <4>3. TAKE e
      <4>4. s \in Seq(S \cup {e}) /\ e \in S \cup {e}
        BY SeqMonotonic
      <4>5. QED
        BY <4>4, AppendProperties
    <3>2. QED
      BY <2>2, <2>3, <3>1
  <2>6. n + 1 <= MaxArrays
    BY <2>2, <2>3, RoomAssumption
  <2>7. QED
    BY <2>5, <2>6 DEF Room
<1>2. CASE AsMany
  BY <1>2, AsManyRoom
<1>3. ArraysNext => AsMany \/ \E x \in Var : Create(x)
  BY AsManyAfter DEF ArraysNext
<1>4. UNCHANGED arraysVars => AsMany
  BY DEF arraysVars, AsMany
<1>5. QED
  BY <1>1, <1>2, <1>3, <1>4

LEMMA AlwaysRoom ==
  ASSUME Spelling
  PROVE  ArraysSpec => [](IInv /\ Room)
<1>1. ArraysInit => IInv /\ Room
  <2>1. ArraysInit => heap = << >>
    BY DEF ArraysInit
  <2>2. Len(<< >>) <= MaxArrays
    BY RoomAssumption
  <2>3. QED
    BY <2>1, <2>2, Initially DEF Room
<1>2. IInv /\ Room /\ [ArraysNext]_arraysVars => (IInv /\ Room)'
  BY Step, RoomAfter
<1>3. QED
  BY <1>1, <1>2, PTL DEF ArraysSpec

-----------------------------------------------------------------------------
(***************************************************************************)
(* What the comparison says, and what is seen.                             *)
(***************************************************************************)

(* What is seen in an array, and whether it holds itself.                   *)
LEMMA SeenIs ==
  ASSUME NEW n, NEW h, h = heap, Heaped(n, h), NEW F, AllReaching(n, h, F), NEW a \in 1 .. n
  PROVE  Seen(a) = SeenIn(h, F[Array(a)][MaxArrays * MaxArrays])
<1>1. PICK X : X = F[Array(a)][MaxArrays * MaxArrays]
  OBVIOUS
<1>2. Reached(a) = X
  BY <1>1, ReachedIs
<1>3. \A v : Looks(v) = LooksIn(h, v)
  BY DEF Looks, LooksIn
<1>4. Seen(a) = {[path |-> r.path, looks |-> Looks(r.value)] : r \in X}
  BY <1>2 DEF Seen
<1>5. QED
  BY <1>1, <1>3, <1>4 DEF SeenIn, Spot

LEMMA EndlessIs ==
  ASSUME NEW n, NEW h, h = heap, Heaped(n, h), n <= MaxArrays, NEW L, Deepening(h, L),
         NEW g, Chained(SUBSET DOMAIN h, g, L[0], L), NEW a \in 1 .. n
  PROVE  Endless(a) <=> a \in L[Depth]
<1>1. PICK F : AllReaching(n, h, F)
  BY ReachingIs
<1>2. PICK m, k : m = MaxArrays /\ k = MaxArrays * MaxArrays
  OBVIOUS
<1>3. m \in Nat /\ k \in Nat /\ m <= k
  <2>1. m \in Nat /\ k = m * m
    BY <1>2, RoomAssumption
  <2>2. \A i \in Nat : i * i \in Nat /\ i <= i * i
    <3>1. TAKE i \in Nat
    <3>2. CASE i = 0
      BY <3>2
    <3>3. CASE i # 0
      <4>1. PICK j \in Nat : i = j + 1
        <5>1. i - 1 \in Nat /\ i = (i - 1) + 1
          BY <3>3
        <5>2. QED
          BY <5>1
      <4>2. i * i = j * j + 2 * j + 1 /\ j * j \in Nat
        BY <4>1
      <4>3. QED
        BY <4>1, <4>2
    <3>4. QED
      BY <3>2, <3>3
  <2>3. QED
    BY <2>1, <2>2
<1>4. PICK v : v = Array(a)
  OBVIOUS
<1>5. v \in Value(n) /\ Is("array", v) /\ v[2] = a
  BY <1>4 DEF Value, Array, Is
<1>6. PICK X : X = F[v][k]
  OBVIOUS
<1>7. ArrayAt(X, m) <=> a \in L[m]
  <2>1. ArrayAt(F[v][k], m) <=> Is("array", v) /\ v[2] \in L[m]
    BY <1>1, <1>3, <1>5, DeepReached
  <2>2. QED
    BY <1>5, <1>6, <2>1
<1>8. Reached(a) = X
  BY <1>1, <1>2, <1>4, <1>6, ReachedIs
<1>9. Endless(a) <=> ArrayAt(X, m)
  BY <1>2, <1>8 DEF Endless, ArrayAt
<1>10. L[Depth] = L[m]
  BY <1>2, DeepSettles
<1>11. QED
  BY <1>7, <1>9, <1>10

(* What the comparison of two arrays says of them. *)
LEMMA ComparisonIs ==
  ASSUME NEW n, NEW h, h = heap, Heaped(n, h), n <= MaxArrays, NEW C, Comparing(h, C),
         NEW a \in 1 .. n, NEW b \in 1 .. n
  PROVE  /\ C[Depth][<<a, b>>] = "same" => Seen(a) = Seen(b)
         /\ C[Depth][<<a, b>>] = "different" => Seen(a) # Seen(b)
<1>1. PICK F : AllReaching(n, h, F)
  BY ReachingIs
<1>2. PICK P : Closing(h, P) /\ \E g : Chained(SUBSET ((DOMAIN h) \X DOMAIN h), g, P[0], P)
  BY ClosingIs
<1>3. PICK g : Chained(SUBSET ((DOMAIN h) \X DOMAIN h), g, P[0], P)
  BY <1>2
<1>4. PICK k : k = MaxArrays * MaxArrays
  OBVIOUS
<1>5. k \in Nat /\ Depth \in Nat
  BY <1>4, RoomAssumption
<1>6. PICK v, w : v = Array(a) /\ w = Array(b)
  OBVIOUS
<1>7. v \in Value(n) /\ w \in Value(n) /\ Is("array", v) /\ Is("array", w) /\ v[2] = a /\ w[2] = b
  BY <1>6 DEF Value, Array, Is
<1>8. Seen(a) = Seen(b) <=> <<a, b>> \in P[k]
  <2>1. Seen(a) = SeenIn(h, F[v][k]) /\ Seen(b) = SeenIn(h, F[w][k])
    BY <1>1, <1>4, <1>6, SeenIs
  <2>2. SeenIn(h, F[v][k]) = SeenIn(h, F[w][k]) <=> AlikeBut(v, w, P[k])
    BY <1>1, <1>2, <1>5, <1>7, SeenAlike
  <2>3. AlikeBut(v, w, P[k]) <=> <<a, b>> \in P[k]
    BY <1>7 DEF AlikeBut
  <2>4. QED
    BY <2>1, <2>2, <2>3
<1>9. C[Depth][<<a, b>>] = "same" => <<a, b>> \in P[k]
  BY <1>2, <1>5, SameAlike
<1>10. PICK G : G = P[k]
  OBVIOUS
<1>11. G = Closer(h, G)
  BY <1>2, <1>3, <1>4, <1>10, CloseSettles
<1>12. C[Depth][<<a, b>>] = "different" => <<a, b>> \notin G
  BY <1>5, <1>11, DifferentApart
<1>13. QED
  BY <1>8, <1>9, <1>10, <1>12

LEMMA EqualAlike ==
  ASSUME IInv, Room
  PROVE  EqualMeansAlike
<1>1. PICK h, n : h = heap /\ n = Len(heap)
  OBVIOUS
<1>2. Heaped(n, h) /\ n <= MaxArrays
  BY <1>1, Facts DEF Heaped, Room
<1>3. DOMAIN h = 1 .. n /\ n \in Nat
  BY <1>2, HeapedParts
<1>4. PICK C : Comparing(h, C)
  BY <1>2, ComparingIs
<1>5. PICK L : Deepening(h, L) /\ \E g : Chained(SUBSET DOMAIN h, g, L[0], L)
  BY DeepeningIs
<1>6. PICK g : Chained(SUBSET DOMAIN h, g, L[0], L)
  BY <1>5
<1>7. Depth \in Nat
  BY RoomAssumption
<1>8. \A a \in 1 .. n : Endless(a) <=> a \in L[Depth]
  BY <1>1, <1>2, <1>5, <1>6, EndlessIs
<1>9. ASSUME NEW a \in 1 .. n
      PROVE  a \in L[Depth] <=> TextOf(Array(a), heap).status = "overflow"
  <2>1. PICK v : v = Array(a)
    OBVIOUS
  <2>2. Is("array", v) /\ ~Is("string", v) /\ v[2] = a
    BY <2>1 DEF Array, Is
  <2>3. Flat(h) = (DOMAIN h) \ L[Depth]
    <3>1. \A c \in DOMAIN h : \A i \in DOMAIN h[c] : Is("array", h[c][i]) => h[c][i][2] \in DOMAIN h
      BY <1>2, <1>3, HeapedParts
    <3>2. QED
      BY <1>5, <3>1, FlatIs
  <2>4. CASE a \in L[Depth]
    <3>1. TextOf(v, heap) = Overflows
      BY <1>1, <2>2, <2>3, <2>4 DEF TextOf
    <3>2. QED
      BY <2>1, <2>4, <3>1, Statuses
  <2>5. CASE a \notin L[Depth]
    <3>1. TextOf(v, heap) = Got(Text(Spelled(v)))
      BY <1>1, <1>3, <2>2, <2>3, <2>5 DEF TextOf
    <3>2. TextOf(v, heap).status = "ok"
      BY <3>1, Statuses
    <3>3. QED
      BY <2>1, <2>5, <3>2
  <2>6. QED
    BY <2>4, <2>5
<1>10. ASSUME NEW a \in 1 .. n, NEW b \in 1 .. n
       PROVE  /\ Equality("==", Array(a), Array(b), heap).status = "overflow" => a \in L[Depth] /\ b \in L[Depth]
              /\ Equality("==", Array(a), Array(b), heap).status = "ok" =>
                   Equality("==", Array(a), Array(b), heap).value = Bool(Seen(a) = Seen(b))
              /\ a \in L[Depth] /\ Seen(a) = Seen(b) => Equality("==", Array(a), Array(b), heap).status = "overflow"
  <2>1. PICK v, w, c : v = Array(a) /\ w = Array(b) /\ c = C[Depth][<<a, b>>]
    OBVIOUS
  <2>2. Is("array", v) /\ Is("array", w) /\ v[2] = a /\ w[2] = b
    BY <2>1 DEF Array, Is
  <2>3. Compared(v, w, h) = c
    BY <1>4, <2>1, <2>2, ComparedIs DEF Compared, ComparedItems
  <2>4. c \in {"same", "different", "overflow"}
    <3>1. <<a, b>> \in (DOMAIN h) \X DOMAIN h
      BY <1>3
    <3>2. QED
      BY <1>4, <1>7, <2>1, <3>1 DEF Comparing, Verdict
  <2>5. /\ c = "overflow" => a \in L[Depth] /\ b \in L[Depth]
        /\ c = "same" => a \notin L[Depth]
    BY <1>2, <1>4, <1>5, <1>7, <2>1, OverflowsDeep
  <2>6. (c = "same" => Seen(a) = Seen(b)) /\ (c = "different" => Seen(a) # Seen(b))
    BY <1>1, <1>2, <1>4, <2>1, ComparisonIs
  <2>7. CASE c = "overflow"
    <3>1. Equality("==", v, w, h) = Overflows
      BY <2>3, <2>7 DEF Equality
    <3>2. Overflows.status = "overflow"
      BY Statuses
    <3>3. QED
      BY <1>1, <2>1, <2>5, <2>7, <3>1, <3>2
  <2>8. CASE c # "overflow"
    <3>1. Equality("==", v, w, h) = Got(Bool((c = "same") = ("==" = "==")))
      BY <2>3, <2>8 DEF Equality
    <3>2. ((c = "same") = ("==" = "==")) = (Seen(a) = Seen(b))
      BY <2>4, <2>6, <2>8
    <3>3. Equality("==", v, w, h) = Got(Bool(Seen(a) = Seen(b)))
      BY <3>1, <3>2
    <3>4. PICK r : r = Bool(Seen(a) = Seen(b))
      OBVIOUS
    <3>5. Got(r).status = "ok" /\ Got(r).value = r
      BY Statuses
    <3>6. ~(a \in L[Depth] /\ Seen(a) = Seen(b))
      BY <2>4, <2>5, <2>6, <2>8
    <3>7. QED
      BY <1>1, <2>1, <3>3, <3>4, <3>5, <3>6
  <2>9. QED
    BY <2>7, <2>8
<1> DEFINE seen == [a \in DOMAIN heap |-> Seen(a)]
           endless == {a \in DOMAIN heap : Endless(a)}
<1>11. DOMAIN heap = 1 .. n
  BY <1>1, <1>3
<1>12. \A a \in 1 .. n : seen[a] = Seen(a) /\ (a \in endless <=> a \in L[Depth])
  BY <1>8, <1>11
<1>13. EqualMeansAlike <=>
         \A a, b \in 1 .. n :
           /\ Equality("==", Array(a), Array(b), heap).status = "overflow" => {a, b} \subseteq endless
           /\ Equality("==", Array(a), Array(b), heap).status = "ok" =>
                Equality("==", Array(a), Array(b), heap).value = Bool(seen[a] = seen[b])
           /\ a \in endless /\ seen[a] = seen[b] => Equality("==", Array(a), Array(b), heap).status = "overflow"
           /\ a \in endless <=> TextOf(Array(a), heap).status = "overflow"
  BY <1>11 DEF EqualMeansAlike
<1> HIDE DEF seen, endless
<1>14. ASSUME NEW a \in 1 .. n, NEW b \in 1 .. n
       PROVE  /\ Equality("==", Array(a), Array(b), heap).status = "overflow" => {a, b} \subseteq endless
              /\ Equality("==", Array(a), Array(b), heap).status = "ok" =>
                   Equality("==", Array(a), Array(b), heap).value = Bool(seen[a] = seen[b])
              /\ a \in endless /\ seen[a] = seen[b] => Equality("==", Array(a), Array(b), heap).status = "overflow"
              /\ a \in endless <=> TextOf(Array(a), heap).status = "overflow"
  <2>1. seen[a] = Seen(a) /\ seen[b] = Seen(b)
    BY <1>12
  <2>2. (a \in endless <=> a \in L[Depth]) /\ (b \in endless <=> b \in L[Depth])
    BY <1>12
  <2>3. Equality("==", Array(a), Array(b), heap).status = "overflow" => {a, b} \subseteq endless
    BY <1>10, <2>2
  <2>4. Equality("==", Array(a), Array(b), heap).status = "ok" =>
          Equality("==", Array(a), Array(b), heap).value = Bool(seen[a] = seen[b])
    BY <1>10, <2>1
  <2>5. a \in endless /\ seen[a] = seen[b] => Equality("==", Array(a), Array(b), heap).status = "overflow"
    <3>1. ASSUME a \in endless, seen[a] = seen[b]
          PROVE  Equality("==", Array(a), Array(b), heap).status = "overflow"
      <4>1. a \in L[Depth] /\ Seen(a) = Seen(b)
        BY <2>1, <2>2, <3>1
      <4>2. QED
        BY <1>10, <4>1
    <3>2. QED
      BY <3>1
  <2>6. QED
    BY <1>9, <2>2, <2>3, <2>4, <2>5
<1>15. QED
  BY <1>13, <1>14

(* In every state that programs reach, two arrays are equal exactly if      *)
(* nothing that can be reached in both in the same way tells them apart,    *)
(* and comparing them and their texts only goes on without an end for       *)
(* arrays that hold themselves (the derived PartialEq of values and         *)
(* to_string, which follow the references of arrays).                       *)
THEOREM Equals ==
  ASSUME Spelling
  PROVE  ArraysSpec => []EqualMeansAlike
<1>1. IInv /\ Room => EqualMeansAlike
  BY EqualAlike
<1>2. ArraysSpec => [](IInv /\ Room)
  BY AlwaysRoom
<1>3. QED
  BY <1>1, <1>2, PTL

=============================================================================
