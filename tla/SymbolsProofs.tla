--------------------------- MODULE SymbolsProofs ---------------------------
(***************************************************************************)
(* What the editor answers about a name is what the run does with it, in   *)
(* any text that declares no name twice, with the exceptions that the      *)
(* properties name.                                                        *)
(*                                                                         *)
(* A text is taken as bodies that lie in each other (Nesting): what is     *)
(* around an item, and in which statements the walk is there, follows from *)
(* where they begin and end.  The walk keeps an index in shape (Walked):   *)
(* each scope is of a body and has the nearest scope around for its        *)
(* parent, the symbols in it are declared in that body, and each           *)
(* declaration passed has one.  Of such an index, once complete: the scope *)
(* of a place is that of the nearest block around it with a span of its    *)
(* own, the search from there comes to what the nearest scope around       *)
(* declares, and this is what is visible, unless an else is between them.  *)
(* The types follow one after the other (TypedTo), each from those before. *)
(***************************************************************************)
EXTENDS
  Symbols, SequenceTheorems, FiniteSetTheorems, WellFoundedInduction, TLAPS

-----------------------------------------------------------------------------
(***************************************************************************)
(* Facts about a sequence used as a stack, its innermost element last,     *)
(* and about numbers.                                                      *)
(***************************************************************************)

(* What is left of a stack when its innermost element is removed. *)
LEMMA FrontLast ==
  ASSUME NEW S, NEW s \in Seq(S), s # << >>
  PROVE  /\ Len(s) \in Nat /\ Len(s) >= 1
         /\ Last(s) \in S /\ Last(s) = s[Len(s)]
         /\ Front(s) \in Seq(S) /\ Len(Front(s)) = Len(s) - 1
         /\ \A i \in 1 .. Len(s) - 1 : Front(s)[i] = s[i]
<1>1. Len(s) \in Nat /\ Len(s) >= 1 /\ Len(s) \in 1 .. Len(s)
  BY LenProperties, EmptySeq
<1>2. Front(s) = SubSeq(s, 1, Len(s) - 1) /\ Last(s) = s[Len(s)]
  BY DEF Front, Last
<1>3. \A i \in 1 .. Len(s) : s[i] \in S
  BY ElementOfSeq
<1> DEFINE n == Len(s) - 1
           t == SubSeq(s, 1, n)
<1>4. n \in Nat /\ 1 \in Int /\ n \in Int /\ \A i \in 1 .. n : s[i] \in S
  BY <1>1, <1>3
<1> HIDE DEF n
<1>5. /\ t \in Seq(S)
      /\ Len(t) = IF 1 <= n THEN n - 1 + 1 ELSE 0
      /\ \A i \in 1 .. n - 1 + 1 : t[i] = s[1 + i - 1]
  BY <1>4, SubSeqProperties
<1>6. Len(t) = n
  BY <1>4, <1>5
<1>7. \A i \in 1 .. n : t[i] = s[i]
  <2> SUFFICES ASSUME NEW i \in 1 .. n
               PROVE  t[i] = s[i]
    OBVIOUS
  <2>1. i \in 1 .. n - 1 + 1 /\ 1 + i - 1 = i
    BY <1>4
  <2>2. QED
    BY <1>5, <2>1
<1>8. QED
  BY <1>1, <1>2, <1>3, <1>5, <1>6, <1>7 DEF n

(* What becomes of a stack when an element of it is replaced. *)
LEMMA ElementReplaced ==
  ASSUME NEW S, NEW s \in Seq(S), NEW k \in 1 .. Len(s), NEW e \in S,
         NEW t, t = [s EXCEPT ![k] = e]
  PROVE  /\ t \in Seq(S) /\ t # << >>
         /\ Len(t) = Len(s) /\ DOMAIN t = 1 .. Len(s)
         /\ Last(t) = t[Len(s)]
         /\ t[k] = e
         /\ \A i \in 1 .. Len(s) : i # k => t[i] = s[i]
<1>1. Len(s) \in Nat /\ Len(s) >= 1
  BY LenProperties
<1>2. /\ t \in Seq(S) /\ Len(t) = Len(s)
      /\ \A j \in 1 .. Len(s) : t[j] = IF j = k THEN e ELSE s[j]
  BY ExceptSeq
<1>3. t # << >>
  <2>1. Len(<< >>) = 0
    OBVIOUS
  <2>2. QED
    BY <1>1, <1>2, <2>1
<1>4. DOMAIN t = 1 .. Len(s) /\ Last(t) = t[Len(s)]
  BY <1>2, <1>3, LenProperties, FrontLast
<1>5. t[k] = e /\ \A i \in 1 .. Len(s) : i # k => t[i] = s[i]
  BY <1>2
<1>6. QED
  BY <1>2, <1>3, <1>4, <1>5

(* The least element of a set of naturals: what induction is done with.    *)
LEMMA LeastNatural ==
  ASSUME NEW T, T \subseteq Nat, T # {}
  PROVE  \E m \in T : \A n \in T : m <= n
<1> DEFINE R == {p \in Nat \X Nat : p[1] < p[2]}
<1>1. IsWellFoundedOn(R, Nat)
  BY NatLessThanWellFounded DEF OpToRel
<1> HIDE DEF R
<1>2. PICK m \in T : \A n \in T : <<n, m>> \notin R
  BY <1>1, WFMin
<1>3. \A n \in T : ~(n < m)
  BY <1>2 DEF R
<1>4. QED
  BY <1>3

-----------------------------------------------------------------------------
(* The greatest and the least of numbers up to n. *)
LEMMA Greatest ==
  ASSUME NEW n \in Nat, NEW S, S \subseteq 0 .. n, S # {}
  PROVE  Max(S) \in S /\ \A x \in S : Max(S) >= x
<1> DEFINE T == {n - x : x \in S}
<1>1. T \subseteq Nat /\ T # {}
  <2>1. \A x \in 0 .. n : n - x \in Nat
    OBVIOUS
  <2>2. PICK x : x \in S
    OBVIOUS
  <2>3. n - x \in T
    BY <2>2
  <2>4. QED
    BY <2>1, <2>3
<1>2. PICK m \in T : \A k \in T : m <= k
  BY <1>1, LeastNatural
<1>3. PICK x \in S : m = n - x
  BY <1>2
<1>4. \A y \in S : x >= y
  <2>1. SUFFICES ASSUME NEW y \in S
                 PROVE  x >= y
    OBVIOUS
  <2>2. n - x <= n - y
    BY <1>2, <1>3
  <2>3. x \in Int /\ y \in Int
    OBVIOUS
  <2>4. QED
    BY <2>2, <2>3
<1>5. QED
  BY <1>4 DEF Max

(* The least of any numbers. *)
LEMMA Smallest ==
  ASSUME NEW S, S \subseteq Nat, S # {}
  PROVE  Min(S) \in S /\ \A x \in S : Min(S) <= x
<1>1. PICK m \in S : \A k \in S : m <= k
  BY LeastNatural
<1>2. QED
  BY <1>1 DEF Min

-----------------------------------------------------------------------------
(***************************************************************************)
(* Texts and the bodies in them.                                           *)
(***************************************************************************)

Formed(t) ==
  /\ t \in Seq(Item)
  /\ \A i \in DOMAIN t : Level(t, i) >= 0
  /\ Level(t, Len(t)) = 0
  /\ \A e \in DOMAIN t : t[e].op = "else" => \E i \in 1 .. (e - 1) : t[i].op = "if" /\ Closer(t, i) = e

Beginners == Opens \cup {"else"}

(* What the items of a text are. *)
LEMMA TextParts ==
  ASSUME NEW t, t \in Seq(Item)
  PROVE  /\ Len(t) \in Nat /\ DOMAIN t = 1 .. Len(t)
         /\ \A i \in 1 .. Len(t) : t[i].op \in Op /\ t[i].name \in Name \cup {Literal} /\ t[i].other \in Name \cup {Literal}
<1>1. Len(t) \in Nat /\ DOMAIN t = 1 .. Len(t) /\ \A i \in 1 .. Len(t) : t[i] \in Item
  BY LenProperties, ElementOfSeq
<1>2. QED
  BY <1>1 DEF Item

(* A set of items counted, with one more item. *)
LEMMA Counted ==
  ASSUME NEW t, NEW O, NEW n \in Nat,
         NEW S, S = {q \in 1 .. n : t[q].op \in O}, NEW U, U = {q \in 1 .. n + 1 : t[q].op \in O}
  PROVE  /\ Cardinality(S) \in Nat
         /\ t[n + 1].op \in O => Cardinality(U) = Cardinality(S) + 1
         /\ t[n + 1].op \notin O => Cardinality(U) = Cardinality(S)
<1>1. IsFiniteSet(1 .. n) /\ S \subseteq 1 .. n
  BY FS_Interval
<1>2. IsFiniteSet(S) /\ n + 1 \notin S
  BY <1>1, FS_Subset
<1>3. Cardinality(S) \in Nat
  BY <1>2, FS_CardinalityType
<1>4. ASSUME t[n + 1].op \in O PROVE Cardinality(U) = Cardinality(S) + 1
  <2>1. U = S \cup {n + 1}
    BY <1>4
  <2>2. Cardinality(S \cup {n + 1}) = Cardinality(S) + 1
    BY <1>2, FS_AddElement
  <2>3. QED
    BY <2>1, <2>2
<1>5. ASSUME t[n + 1].op \notin O PROVE Cardinality(U) = Cardinality(S)
  <2>1. U = S
    BY <1>5
  <2>2. QED
    BY <2>1
<1>6. QED
  BY <1>3, <1>4, <1>5

(* What an item does to the level. *)
LEMMA LevelStep ==
  ASSUME NEW t, NEW n \in Nat
  PROVE  /\ Level(t, n) \in Int
         /\ t[n + 1].op \in Opens => Level(t, n + 1) = Level(t, n) + 1
         /\ t[n + 1].op = "end" => Level(t, n + 1) = Level(t, n) - 1
         /\ t[n + 1].op \notin Opens \cup {"end"} => Level(t, n + 1) = Level(t, n)
<1> DEFINE With(O, m) == {q \in 1 .. m : t[q].op \in O}
<1>1. PICK E : E = {"end"}
  OBVIOUS
<1>2. ASSUME NEW O
      PROVE  /\ Cardinality(With(O, n)) \in Nat
             /\ t[n + 1].op \in O => Cardinality(With(O, n + 1)) = Cardinality(With(O, n)) + 1
             /\ t[n + 1].op \notin O => Cardinality(With(O, n + 1)) = Cardinality(With(O, n))
  <2>1. PICK S, U : S = With(O, n) /\ U = With(O, n + 1)
    OBVIOUS
  <2>2. QED
    BY <2>1, Counted
<1>3. \A m : Level(t, m) = Cardinality(With(Opens, m)) - Cardinality(With(E, m))
  <2>1. \A m : With(E, m) = {q \in 1 .. m : t[q].op = "end"}
    BY <1>1
  <2>2. QED
    BY <2>1 DEF Level
<1> HIDE DEF With
<1>4. "end" \notin Opens
  BY DEF Opens
<1>5. PICK x \in Nat, y \in Nat : x = Cardinality(With(Opens, n)) /\ y = Cardinality(With(E, n))
  BY <1>2
<1>6. /\ t[n + 1].op \in Opens => Cardinality(With(Opens, n + 1)) = x + 1 /\ Cardinality(With(E, n + 1)) = y
      /\ t[n + 1].op = "end" => Cardinality(With(Opens, n + 1)) = x /\ Cardinality(With(E, n + 1)) = y + 1
      /\ t[n + 1].op \notin Opens \cup {"end"} =>
           Cardinality(With(Opens, n + 1)) = x /\ Cardinality(With(E, n + 1)) = y
  BY <1>1, <1>2, <1>4, <1>5
<1>7. Level(t, n) = x - y
  BY <1>3, <1>5
<1>8. QED
  BY <1>3, <1>6, <1>7

(* Level as a function, and how it goes. *)
Levels(t, D) ==
  /\ D \in [0 .. Len(t) -> Int] /\ D[0] = 0
  /\ \A i \in 1 .. Len(t) : D[i] = D[i - 1] + (IF t[i].op \in Opens THEN 1 ELSE IF t[i].op = "end" THEN -1 ELSE 0)
  /\ \A i \in 0 .. Len(t) : D[i] = Level(t, i)

(* There is such a function. *)
LEMMA LevelsAre ==
  ASSUME NEW t, t \in Seq(Item)
  PROVE  \E D : Levels(t, D)
<1>1. PICK D : D = [i \in 0 .. Len(t) |-> Level(t, i)]
  OBVIOUS
<1>2. Len(t) \in Nat
  BY TextParts
<1>3. D \in [0 .. Len(t) -> Int]
  BY <1>1, <1>2, LevelStep
<1>4. D[0] = 0
  <2>1. {q \in 1 .. 0 : t[q].op \in Opens} = {} /\ {q \in 1 .. 0 : t[q].op = "end"} = {}
    OBVIOUS
  <2>2. QED
    BY <1>1, <1>2, <2>1, FS_EmptySet DEF Level
<1>5. ASSUME NEW i \in 1 .. Len(t)
      PROVE  D[i] = D[i - 1] + (IF t[i].op \in Opens THEN 1 ELSE IF t[i].op = "end" THEN -1 ELSE 0)
  <2>1. PICK n \in Nat : n = i - 1 /\ n + 1 = i /\ n \in 0 .. Len(t) /\ i \in 0 .. Len(t)
    BY <1>2
  <2>2. D[i] = Level(t, n + 1) /\ D[i - 1] = Level(t, n)
    BY <1>1, <2>1
  <2>3. "end" \notin Opens
    BY DEF Opens
  <2>4. QED
    BY <2>1, <2>2, <2>3, LevelStep
<1>6. QED
  BY <1>1, <1>3, <1>4, <1>5 DEF Levels

(* What may end the body that item b begins. *)
Closing(t, D, b) ==
  {j \in (b + 1) .. Len(t) : (t[j].op = "end" /\ D[j] = D[b] - 1) \/ (t[j].op = "else" /\ D[j] = D[b])}

(* Closer is the first item that may end the body. *)
LEMMA CloserIs ==
  ASSUME NEW t, t \in Seq(Item), NEW D, Levels(t, D), NEW b \in 1 .. Len(t)
  PROVE  /\ Closer(t, b) = Min(Closing(t, D, b))
         /\ Closing(t, D, b) # {} => /\ Closer(t, b) \in Closing(t, D, b)
                                     /\ \A j \in Closing(t, D, b) : Closer(t, b) <= j
<1>1. Len(t) \in Nat
  BY TextParts
<1>2. Closing(t, D, b) = {j \in (b + 1) .. Len(t) :
                            \/ t[j].op = "end" /\ Level(t, j) = Level(t, b) - 1
                            \/ t[j].op = "else" /\ Level(t, j) = Level(t, b)}
  <2>1. \A j \in (b + 1) .. Len(t) : j \in 0 .. Len(t) /\ b \in 0 .. Len(t)
    BY <1>1
  <2>2. \A j \in (b + 1) .. Len(t) : D[j] = Level(t, j) /\ D[b] = Level(t, b)
    BY <2>1 DEF Levels
  <2>3. QED
    BY <2>2 DEF Closing
<1>3. Closer(t, b) = Min(Closing(t, D, b))
  BY <1>2 DEF Closer
<1>4. Closing(t, D, b) \subseteq Nat
  BY <1>1 DEF Closing
<1>5. QED
  BY <1>3, <1>4, Smallest

(* To get below the level of a body, the text passes where it may end.      *)
LEMMA Below ==
  ASSUME NEW t, t \in Seq(Item), NEW D, Levels(t, D), NEW b \in 1 .. Len(t), NEW k \in b .. Len(t), D[k] < D[b]
  PROVE  \E j \in Closing(t, D, b) : j <= k
<1>1. Len(t) \in Nat
  BY TextParts
<1> DEFINE T == {i \in b .. Len(t) : D[i] < D[b]}
<1>2. T \subseteq Nat /\ T # {}
  BY <1>1
<1>3. PICK j \in T : \A i \in T : j <= i
  BY <1>2, LeastNatural
<1>4. j # b
  <2>1. D[b] \in Int
    BY <1>1 DEF Levels
  <2>2. QED
    BY <1>3, <2>1
<1>5. j \in 1 .. Len(t) /\ j - 1 \in b .. Len(t) /\ ~(j <= j - 1) /\ j \in (b + 1) .. Len(t)
  BY <1>1, <1>3, <1>4
<1>6. ~(D[j - 1] < D[b])
  BY <1>3, <1>5
<1>7. D[j] < D[b] /\ D[j] \in Int /\ D[j - 1] \in Int /\ D[b] \in Int
  <2>1. j \in 0 .. Len(t) /\ j - 1 \in 0 .. Len(t) /\ b \in 0 .. Len(t)
    BY <1>1, <1>5
  <2>2. \A i \in 0 .. Len(t) : D[i] \in Int
    BY DEF Levels
  <2>3. QED
    BY <1>3, <2>1, <2>2
<1>8. t[j].op = "end" /\ D[j] = D[j - 1] - 1
  <2>1. D[j] = D[j - 1] + (IF t[j].op \in Opens THEN 1 ELSE IF t[j].op = "end" THEN -1 ELSE 0)
    BY <1>5 DEF Levels
  <2>2. QED
    BY <1>6, <1>7, <2>1
<1>9. D[j] = D[b] - 1
  BY <1>6, <1>7, <1>8
<1>10. j <= k
  BY <1>3
<1>11. QED
  BY <1>5, <1>8, <1>9, <1>10 DEF Closing

(* Bodies, as the text has them: where they begin, where they end.          *)
Nesting(n, B, E, If, Cl) ==
  /\ n \in Nat /\ B \subseteq 1 .. n /\ E \subseteq 1 .. n /\ If \subseteq B \ E
  /\ \A b \in B : Cl[b] \in E /\ b < Cl[b]
  /\ \A b, c \in B : b < c /\ c < Cl[b] => Cl[c] < Cl[b]
  /\ \A e \in E : \E b \in B : Cl[b] = e
  /\ \A e \in B \cap E : \E b \in If : Cl[b] = e

Begun(t) == {i \in 1 .. Len(t) : t[i].op \in Beginners}
Ended(t) == {i \in 1 .. Len(t) : t[i].op \in {"end", "else"}}
Ifs(t) == {i \in 1 .. Len(t) : t[i].op = "if"}
Closers(t) == [i \in 1 .. Len(t) |-> Closer(t, i)]

(* A body is inside the text and ends in it: the text ends at the level 0. *)
LEMMA BeginsAbove ==
  ASSUME NEW t, Formed(t), NEW D, Levels(t, D), NEW b \in Begun(t)
  PROVE  /\ D[b] >= 1
         /\ Closing(t, D, b) # {}
<1>1. t \in Seq(Item) /\ Len(t) \in Nat /\ DOMAIN t = 1 .. Len(t)
  BY TextParts DEF Formed
<1>2. \A i \in 0 .. Len(t) : D[i] \in Int /\ D[i] >= 0
  <2>1. TAKE i \in 0 .. Len(t)
  <2>2. D[i] \in Int
    BY DEF Levels
  <2>3. CASE i = 0
    BY <2>2, <2>3 DEF Levels
  <2>4. CASE i # 0
    <3>1. i \in DOMAIN t
      BY <1>1, <2>4
    <3>2. D[i] = Level(t, i) /\ Level(t, i) >= 0
      BY <3>1 DEF Levels, Formed
    <3>3. QED
      BY <2>2, <3>2
  <2>5. QED
    BY <2>3, <2>4
<1>3. D[Len(t)] = 0
  BY <1>1 DEF Levels, Formed
<1>4. \A i \in 1 .. Len(t) : t[i].op \in Opens => D[i] >= 1
  <2>1. TAKE i \in 1 .. Len(t)
  <2>2. i \in 0 .. Len(t) /\ i - 1 \in 0 .. Len(t)
    BY <1>1
  <2>3. D[i] = D[i - 1] + (IF t[i].op \in Opens THEN 1 ELSE IF t[i].op = "end" THEN -1 ELSE 0)
    BY DEF Levels
  <2>4. QED
    BY <1>2, <2>2, <2>3
<1>5. b \in 1 .. Len(t) /\ t[b].op \in Beginners
  BY DEF Begun
<1>6. D[b] >= 1
  <2>1. CASE t[b].op \in Opens
    BY <1>4, <1>5, <2>1
  <2>2. CASE t[b].op = "else"
    <3>1. PICK i \in 1 .. (b - 1) : t[i].op = "if" /\ Closer(t, i) = b
      BY <1>1, <1>5, <2>2 DEF Formed
    <3>2. i \in 1 .. Len(t) /\ i \in 0 .. Len(t) /\ "if" \in Opens
      BY <1>1, <1>5 DEF Opens
    <3>3. D[i] >= 1
      BY <1>4, <3>1, <3>2
    <3>4. Closing(t, D, i) # {}
      <4>1. Len(t) \in i .. Len(t) /\ D[Len(t)] < D[i]
        BY <1>1, <1>2, <1>3, <3>2, <3>3
      <4>2. QED
        BY <1>1, <3>2, <4>1, Below
    <3>5. b \in Closing(t, D, i)
      BY <1>1, <3>1, <3>2, <3>4, CloserIs
    <3>6. D[b] = D[i]
      BY <2>2, <3>5 DEF Closing
    <3>7. QED
      BY <3>3, <3>6
  <2>3. QED
    BY <1>5, <2>1, <2>2 DEF Beginners
<1>7. Closing(t, D, b) # {}
  <2>1. Len(t) \in b .. Len(t) /\ D[Len(t)] < D[b]
    BY <1>1, <1>2, <1>3, <1>5, <1>6
  <2>2. QED
    BY <1>1, <1>5, <2>1, Below
<1>8. QED
  BY <1>6, <1>7

(* The parts of a text lie in each other.                                   *)
LEMMA Nests ==
  ASSUME NEW t, Formed(t)
  PROVE  Nesting(Len(t), Begun(t), Ended(t), Ifs(t), Closers(t))
<1>1. t \in Seq(Item) /\ Len(t) \in Nat /\ DOMAIN t = 1 .. Len(t)
  BY TextParts DEF Formed
<1>2. PICK D : Levels(t, D)
  BY <1>1, LevelsAre
<1>3. PICK n, B, E, If, Cl : n = Len(t) /\ B = Begun(t) /\ E = Ended(t) /\ If = Ifs(t) /\ Cl = Closers(t)
  OBVIOUS
<1>4. n \in Nat /\ B \subseteq 1 .. n /\ E \subseteq 1 .. n /\ If \subseteq B \ E
  BY <1>1, <1>3 DEF Begun, Ended, Ifs, Beginners, Opens
<1>5. \A i \in 0 .. n : D[i] \in Int
  BY <1>2, <1>3 DEF Levels
<1>6. \A i \in 1 .. n : /\ i \in 0 .. n /\ i - 1 \in 0 .. n
                        /\ D[i] = D[i - 1] + (IF t[i].op \in Opens THEN 1 ELSE IF t[i].op = "end" THEN -1 ELSE 0)
  <2>1. \A i \in 1 .. n : i \in 0 .. n /\ i - 1 \in 0 .. n
    BY <1>4
  <2>2. QED
    BY <1>2, <1>3, <2>1 DEF Levels
<1>7. \A b \in B : /\ b \in 1 .. n /\ D[b] >= 1 /\ Cl[b] \in Closing(t, D, b)
                   /\ \A j \in Closing(t, D, b) : Cl[b] <= j
  <2>1. TAKE b \in B
  <2>2. b \in 1 .. n /\ Cl[b] = Closer(t, b)
    BY <1>3, <1>4 DEF Closers
  <2>3. D[b] >= 1 /\ Closing(t, D, b) # {}
    BY <1>2, <1>3, BeginsAbove
  <2>4. QED
    BY <1>1, <1>2, <1>3, <2>2, <2>3, CloserIs
<1>8. \A b \in B : Cl[b] \in E /\ b < Cl[b] /\ Cl[b] \in (b + 1) .. n
  <2>1. \A b \in B : \A j \in Closing(t, D, b) : j \in (b + 1) .. n /\ t[j].op \in {"end", "else"}
    BY <1>3 DEF Closing
  <2>2. \A b \in B : \A j \in (b + 1) .. n : j \in 1 .. n /\ b < j
    BY <1>4
  <2>3. \A j \in 1 .. n : t[j].op \in {"end", "else"} => j \in E
    BY <1>3 DEF Ended
  <2>4. QED
    BY <1>7, <2>1, <2>2, <2>3
<1>9. \A b \in B : \A k \in b .. (Cl[b] - 1) : D[k] >= D[b]
  <2>1. TAKE b \in B
  <2>2. TAKE k \in b .. (Cl[b] - 1)
  <2>3. b \in 1 .. n /\ Cl[b] \in 1 .. n
    BY <1>4, <1>8
  <2>4. k \in b .. n /\ k \in 0 .. n /\ b \in 0 .. n /\ k < Cl[b]
    BY <1>4, <2>3
  <2>5. ASSUME D[k] < D[b] PROVE FALSE
    <3>1. PICK j \in Closing(t, D, b) : j <= k
      BY <1>1, <1>2, <1>3, <2>3, <2>4, <2>5, Below
    <3>2. Cl[b] <= j /\ j \in Int
      BY <1>1, <1>7, <2>3 DEF Closing
    <3>3. QED
      BY <2>3, <2>4, <3>1, <3>2
  <2>6. QED
    BY <1>5, <2>4, <2>5
<1>10. ASSUME NEW b \in B, NEW c \in B, b < c, c < Cl[b]
       PROVE  Cl[c] < Cl[b]
  <2>1. b \in 1 .. n /\ c \in 1 .. n /\ Cl[b] \in 1 .. n /\ Cl[c] \in 1 .. n
    BY <1>4, <1>8
  <2>2. PICK m : m = Cl[b]
    OBVIOUS
  <2>3. D[c] >= D[b] + 1
    <3>1. c - 1 \in b .. (Cl[b] - 1) /\ c \in b .. (Cl[b] - 1)
      BY <1>10, <2>1
    <3>2. D[c - 1] >= D[b] /\ D[c] >= D[b]
      BY <1>9, <3>1
    <3>3. D[c] = D[c - 1] + (IF t[c].op \in Opens THEN 1 ELSE IF t[c].op = "end" THEN -1 ELSE 0)
      BY <1>6, <2>1
    <3>4. D[c] \in Int /\ D[c - 1] \in Int /\ D[b] \in Int
      BY <1>5, <1>6, <2>1
    <3>5. CASE t[c].op \in Opens
      BY <3>2, <3>3, <3>4, <3>5
    <3>6. CASE t[c].op = "else"
      <4>1. D[c] # D[b]
        <5>1. SUFFICES ASSUME D[c] = D[b] PROVE FALSE
          OBVIOUS
        <5>2. c \in (b + 1) .. Len(t)
          BY <1>3, <1>4, <1>10, <2>1
        <5>3. c \in Closing(t, D, b)
          BY <3>6, <5>1, <5>2 DEF Closing
        <5>4. Cl[b] <= c
          BY <1>7, <5>3
        <5>5. QED
          BY <1>10, <2>1, <5>4
      <4>2. QED
        BY <3>2, <3>4, <4>1
    <3>7. t[c].op \in Beginners
      BY <1>3 DEF Begun
    <3>8. QED
      BY <3>5, <3>6, <3>7 DEF Beginners
  <2>4. m \in Closing(t, D, b)
    BY <1>7, <2>2
  <2>5. (t[m].op = "end" /\ D[m] = D[b] - 1) \/ (t[m].op = "else" /\ D[m] = D[b])
    BY <2>4 DEF Closing
  <2>6. D[c] \in Int /\ D[m] \in Int /\ D[b] \in Int /\ m \in c .. n
    BY <1>5, <1>6, <1>10, <2>1, <2>2
  <2>7. D[m] < D[c]
    BY <2>3, <2>5, <2>6
  <2>8. PICK j \in Closing(t, D, c) : j <= m
    BY <1>1, <1>2, <1>3, <2>1, <2>6, <2>7, Below
  <2>9. Cl[c] <= j /\ j \in Int
    BY <1>1, <1>7, <2>1 DEF Closing
  <2>10. Cl[c] # m
    <3>1. SUFFICES ASSUME m \in Closing(t, D, c) PROVE FALSE
      BY <1>7
    <3>2. (t[m].op = "end" /\ D[m] = D[c] - 1) \/ (t[m].op = "else" /\ D[m] = D[c])
      BY <3>1 DEF Closing
    <3>3. QED
      BY <2>3, <2>5, <2>6, <3>2
  <2>11. QED
    BY <2>1, <2>2, <2>8, <2>9, <2>10
<1>11. \A e \in B \cap E : \E b \in If : Cl[b] = e
  <2>1. TAKE e \in B \cap E
  <2>2. t[e].op = "else" /\ e \in 1 .. n
    BY <1>3, <1>4 DEF Begun, Ended, Beginners, Opens
  <2>3. PICK b \in 1 .. (e - 1) : t[b].op = "if" /\ Closer(t, b) = e
    BY <1>1, <1>3, <2>2 DEF Formed
  <2>4. b \in 1 .. n
    BY <1>4, <2>2
  <2>5. b \in If /\ Cl[b] = e
    BY <1>3, <2>3, <2>4 DEF Ifs, Closers
  <2>6. QED
    BY <2>5
<1>12. ASSUME NEW e \in E
       PROVE  \E b \in B : Cl[b] = e
  <2>1. CASE t[e].op = "else"
    <3>1. e \in B \cap E
      BY <1>3, <1>12, <2>1 DEF Begun, Ended, Beginners
    <3>2. QED
      BY <1>4, <1>11, <3>1
  <2>2. CASE t[e].op = "end"
    <3>1. e \in 1 .. n /\ e - 1 \in 0 .. n /\ D[e - 1] = D[e] + 1 /\ D[e] \in Int /\ D[e - 1] \in Int
      <4>1. e \in 1 .. n /\ "end" \notin Opens
        BY <1>4 DEF Opens
      <4>2. D[e] = D[e - 1] - 1
        BY <1>6, <2>2, <4>1
      <4>3. QED
        BY <1>5, <1>6, <4>1, <4>2
    <3>2. D[e] >= 0
      <4>1. Level(t, e) >= 0
        BY <1>1, <1>3, <3>1 DEF Formed
      <4>2. QED
        BY <1>2, <1>3, <1>6, <3>1, <4>1 DEF Levels
    <3> DEFINE Low == {k \in 0 .. (e - 1) : D[k] < D[e - 1]}
    <3>3. 0 \in Low
      BY <1>2, <3>1, <3>2 DEF Levels
    <3>4. PICK k \in Low : \A j \in Low : k >= j
      <4>1. e - 1 \in Nat /\ Low \subseteq 0 .. (e - 1) /\ Low # {}
        BY <3>1, <3>3
      <4> HIDE DEF Low
      <4>2. QED
        BY <4>1, Greatest
    <3>5. k \in 0 .. n /\ k + 1 \in 1 .. n /\ k + 1 <= e - 1 /\ k \in Nat /\ D[k] < D[e - 1]
      <4>1. k # e - 1
        BY <3>1, <3>4
      <4>2. QED
        BY <1>4, <3>1, <3>4, <4>1
    <3>6. \A j \in (k + 1) .. (e - 1) : j \in 1 .. n /\ D[j] \in Int /\ D[j] >= D[e - 1]
      <4>1. TAKE j \in (k + 1) .. (e - 1)
      <4>2. j \in 1 .. n /\ j \in 0 .. (e - 1) /\ ~(k >= j)
        BY <1>4, <3>1, <3>5
      <4>3. D[j] \in Int
        BY <1>5, <1>6, <4>2
      <4>4. ~(D[j] < D[e - 1])
        BY <3>4, <4>2
      <4>5. QED
        BY <3>1, <4>2, <4>3, <4>4
    <3>7. t[k + 1].op \in Opens /\ D[k + 1] = D[e - 1]
      <4>1. D[k + 1] >= D[e - 1] /\ D[k + 1] \in Int
        BY <3>5, <3>6
      <4>2. (k + 1) - 1 = k
        BY <3>5
      <4>3. D[k + 1] = D[k] + (IF t[k + 1].op \in Opens THEN 1 ELSE IF t[k + 1].op = "end" THEN -1 ELSE 0)
        BY <1>6, <3>5, <4>2
      <4>4. D[k] \in Int /\ D[k] < D[e - 1]
        BY <1>5, <3>5
      <4>5. QED
        BY <3>1, <4>1, <4>3, <4>4
    <3> DEFINE Last1 == {j \in (k + 1) .. (e - 1) : j = k + 1 \/ (t[j].op = "else" /\ D[j] = D[e - 1])}
    <3>8. PICK b \in Last1 : \A j \in Last1 : b >= j
      <4>1. e - 1 \in Nat /\ Last1 \subseteq 0 .. (e - 1) /\ k + 1 \in Last1
        BY <3>1, <3>5
      <4> HIDE DEF Last1
      <4>2. QED
        BY <4>1, Greatest
    <3>9. b \in (k + 1) .. (e - 1) /\ b \in B /\ D[b] = D[e - 1] /\ b < e /\ b \in 1 .. n
      <4>1. b \in 1 .. n /\ t[b].op \in Beginners /\ D[b] = D[e - 1]
        BY <3>6, <3>7, <3>8 DEF Beginners
      <4>2. QED
        BY <1>3, <3>1, <3>5, <3>8, <4>1 DEF Begun
    <3>10. e \in Closing(t, D, b)
      <4>1. e \in (b + 1) .. Len(t) /\ D[e] = D[b] - 1
        BY <1>3, <1>4, <3>1, <3>9
      <4>2. QED
        BY <2>2, <4>1 DEF Closing
    <3>11. ASSUME NEW j \in Closing(t, D, b), j < e PROVE FALSE
      <4>1. j \in (b + 1) .. n /\ ((t[j].op = "end" /\ D[j] = D[b] - 1) \/ (t[j].op = "else" /\ D[j] = D[b]))
        BY <1>3 DEF Closing
      <4>2. j \in (k + 1) .. (e - 1) /\ ~(b >= j)
        BY <1>4, <3>1, <3>5, <3>9, <3>11, <4>1
      <4>3. D[j] >= D[e - 1] /\ D[j] \in Int
        BY <3>6, <4>2
      <4>4. t[j].op = "else" /\ D[j] = D[e - 1]
        BY <3>1, <3>9, <4>1, <4>3
      <4>5. j \in Last1
        BY <4>2, <4>4
      <4>6. QED
        BY <3>8, <4>2, <4>5
    <3>12. Cl[b] = e
      <4>1. Cl[b] \in Closing(t, D, b) /\ Cl[b] <= e
        BY <1>7, <3>9, <3>10
      <4>2. ~(Cl[b] < e)
        BY <3>11, <4>1
      <4>3. Cl[b] \in Int
        BY <1>4, <1>8, <3>9
      <4>4. QED
        BY <3>1, <4>1, <4>2, <4>3
    <3>13. QED
      BY <3>9, <3>12
  <2>3. t[e].op \in {"end", "else"}
    BY <1>3 DEF Ended
  <2>4. QED
    BY <2>1, <2>2, <2>3
<1>13. Nesting(n, B, E, If, Cl)
  BY <1>4, <1>8, <1>10, <1>11, <1>12 DEF Nesting
<1>14. QED
  BY <1>3, <1>13

(* The bodies around an item; where the statement ends that a body is of.   *)
Around(B, Cl, i) == {b \in B : b < i /\ i < Cl[b]}
Before(B, Cl, k) == {b \in B : b < k /\ k <= Cl[b]}
End(B, Cl, a) == IF Cl[a] \in B THEN Cl[Cl[a]] ELSE Cl[a]
Entered(B, E, Cl, k) == {a \in B \ E : a < k /\ k <= End(B, Cl, a)}

(* An item ends one body. *)
LEMMA ClosedOnce ==
  ASSUME NEW n, NEW B, NEW E, NEW If, NEW Cl, Nesting(n, B, E, If, Cl),
         NEW b \in B, NEW c \in B, Cl[b] = Cl[c]
  PROVE  b = c
<1>1. b \in 1 .. n /\ c \in 1 .. n /\ n \in Nat /\ Cl[b] \in 1 .. n /\ b < Cl[b] /\ c < Cl[c]
  BY DEF Nesting
<1>2. ASSUME b < c PROVE FALSE
  <2>1. Cl[c] < Cl[b]
    BY <1>1, <1>2 DEF Nesting
  <2>2. QED
    BY <1>1, <2>1
<1>3. ASSUME c < b PROVE FALSE
  <2>1. Cl[b] < Cl[c]
    BY <1>1, <1>3 DEF Nesting
  <2>2. QED
    BY <1>1, <2>1
<1>4. QED
  BY <1>1, <1>2, <1>3

(* What is around something is around what is in it.                        *)
LEMMA AroundAll ==
  ASSUME NEW n, NEW B, NEW E, NEW If, NEW Cl, Nesting(n, B, E, If, Cl), NEW i \in Int, NEW c \in Around(B, Cl, i)
  PROVE  Around(B, Cl, c) = {b \in Around(B, Cl, i) : b < c}
<1>1. \A b \in B : b \in 1 .. n /\ n \in Nat /\ Cl[b] \in 1 .. n
  BY DEF Nesting
<1>2. c \in B /\ c < i /\ i < Cl[c] /\ c \in Int /\ Cl[c] \in Int
  <2>1. c \in B /\ c < i /\ i < Cl[c]
    BY DEF Around
  <2>2. QED
    BY <1>1, <2>1
<1>3. ASSUME NEW b \in B, b < c, c < Cl[b]
      PROVE  b < i /\ i < Cl[b]
  <2>1. Cl[c] < Cl[b]
    BY <1>2, <1>3 DEF Nesting
  <2>2. b \in Int /\ Cl[b] \in Int
    BY <1>1
  <2>3. QED
    BY <1>2, <1>3, <2>1, <2>2
<1>4. ASSUME NEW b \in B, b < i, i < Cl[b], b < c
      PROVE  c < Cl[b]
  <2>1. b \in Int /\ Cl[b] \in Int
    BY <1>1
  <2>2. QED
    BY <1>2, <1>4, <2>1
<1>5. QED
  BY <1>3, <1>4 DEF Around

(* Around the end of a body is what is around its beginning.                *)
LEMMA AroundEnd ==
  ASSUME NEW n, NEW B, NEW E, NEW If, NEW Cl, Nesting(n, B, E, If, Cl), NEW b \in B
  PROVE  Around(B, Cl, Cl[b]) = Around(B, Cl, b)
<1>1. \A c \in B : c \in 1 .. n /\ n \in Nat /\ Cl[c] \in 1 .. n /\ c < Cl[c]
  BY DEF Nesting
<1>2. b \in Int /\ Cl[b] \in Int /\ b < Cl[b]
  BY <1>1
<1>3. ASSUME NEW c \in B, c < Cl[b], Cl[b] < Cl[c]
      PROVE  c < b /\ b < Cl[c]
  <2>1. c \in Int /\ Cl[c] \in Int
    BY <1>1
  <2>2. ASSUME b < c PROVE FALSE
    <3>1. Cl[c] < Cl[b]
      BY <1>3, <2>2 DEF Nesting
    <3>2. QED
      BY <1>2, <1>3, <2>1, <3>1
  <2>3. b # c
    BY <1>2, <1>3
  <2>4. QED
    BY <1>2, <1>3, <2>1, <2>2, <2>3
<1>4. ASSUME NEW c \in B, c < b, b < Cl[c]
      PROVE  c < Cl[b] /\ Cl[b] < Cl[c]
  <2>1. Cl[b] < Cl[c]
    BY <1>4 DEF Nesting
  <2>2. c \in Int
    BY <1>1
  <2>3. QED
    BY <1>2, <1>4, <2>1, <2>2
<1>5. QED
  BY <1>3, <1>4 DEF Around

(* The bodies before an item are those around it and one that it ends.      *)
LEMMA BeforeParts ==
  ASSUME NEW n, NEW B, NEW E, NEW If, NEW Cl, Nesting(n, B, E, If, Cl), NEW k \in 1 .. n
  PROVE  /\ k \notin E => Before(B, Cl, k) = Around(B, Cl, k)
         /\ k \notin B => Before(B, Cl, k + 1) = Around(B, Cl, k)
         /\ k \in B => Before(B, Cl, k + 1) = Around(B, Cl, k) \cup {k}
<1>1. \A b \in B : b \in 1 .. n /\ n \in Nat /\ Cl[b] \in 1 .. n /\ b < Cl[b] /\ Cl[b] \in E
  BY DEF Nesting
<1>2. k \in Int
  BY <1>1 DEF Nesting
<1>3. \A b \in B : /\ (b < k + 1 <=> b < k \/ b = k)
                   /\ (k + 1 <= Cl[b] <=> k < Cl[b])
                   /\ (k <= Cl[b] <=> k < Cl[b] \/ k = Cl[b])
  <2>1. TAKE b \in B
  <2>2. b \in Int /\ Cl[b] \in Int
    BY <1>1
  <2>3. QED
    BY <1>2, <2>2
<1>4. ASSUME k \notin E PROVE Before(B, Cl, k) = Around(B, Cl, k)
  <2>1. \A b \in B : k # Cl[b]
    BY <1>1, <1>4
  <2>2. QED
    BY <1>3, <2>1 DEF Before, Around
<1>5. ASSUME k \notin B PROVE Before(B, Cl, k + 1) = Around(B, Cl, k)
  <2>1. \A b \in B : k # b
    BY <1>5
  <2>2. QED
    BY <1>3, <2>1 DEF Before, Around
<1>6. ASSUME k \in B PROVE Before(B, Cl, k + 1) = Around(B, Cl, k) \cup {k}
  <2>1. k < Cl[k]
    BY <1>1, <1>6
  <2>2. QED
    BY <1>3, <1>6, <2>1 DEF Before, Around
<1>7. QED
  BY <1>4, <1>5, <1>6

-----------------------------------------------------------------------------
(* Statements and the two bodies that an if may have.                       *)
LEMMA Ends ==
  ASSUME NEW n, NEW B, NEW E, NEW If, NEW Cl, Nesting(n, B, E, If, Cl), NEW a \in B \ E
  PROVE  /\ End(B, Cl, a) \in E \ B /\ Cl[a] <= End(B, Cl, a) /\ a < End(B, Cl, a)
         /\ Cl[a] \in B => Cl[a] < End(B, Cl, a)
<1>1. \A b \in B : b \in 1 .. n /\ n \in Nat /\ Cl[b] \in 1 .. n /\ b < Cl[b] /\ Cl[b] \in E
  BY DEF Nesting
<1>2. a \in Int /\ Cl[a] \in Int /\ a < Cl[a] /\ Cl[a] \in E
  BY <1>1
<1>3. CASE Cl[a] \notin B
  BY <1>2, <1>3 DEF End
<1>4. CASE Cl[a] \in B
  <2>1. PICK c \in B : c = Cl[a]
    BY <1>4
  <2>2. Cl[c] \in E /\ c < Cl[c] /\ Cl[c] \in Int /\ c \in E
    BY <1>1, <1>2, <2>1
  <2>3. Cl[c] \notin B
    <3>1. SUFFICES ASSUME Cl[c] \in B PROVE FALSE
      OBVIOUS
    <3>2. PICK d \in If : Cl[d] = Cl[c]
      BY <2>2, <3>1 DEF Nesting
    <3>3. d \in B /\ d \notin E
      BY <3>2 DEF Nesting
    <3>4. d = c
      BY <3>2, <3>3, ClosedOnce
    <3>5. QED
      BY <2>2, <3>3, <3>4
  <2>4. End(B, Cl, a) = Cl[c]
    BY <2>1 DEF End
  <2>5. QED
    BY <1>2, <2>1, <2>2, <2>3, <2>4
<1>5. QED
  BY <1>3, <1>4

(* A statement that begins in a body ends in it. *)
LEMMA InEnds ==
  ASSUME NEW n, NEW B, NEW E, NEW If, NEW Cl, Nesting(n, B, E, If, Cl), NEW a \in B, NEW c \in B \ E, a < c, c < Cl[a]
  PROVE  End(B, Cl, c) < Cl[a]
<1>1. \A b \in B : b \in 1 .. n /\ n \in Nat /\ Cl[b] \in 1 .. n /\ b < Cl[b] /\ Cl[b] \in E
  BY DEF Nesting
<1>2. Cl[c] < Cl[a]
  BY DEF Nesting
<1>3. CASE Cl[c] \notin B
  BY <1>2, <1>3 DEF End
<1>4. CASE Cl[c] \in B
  <2>1. PICK d \in B : d = Cl[c]
    BY <1>4
  <2>2. a < d /\ d < Cl[a]
    <3>1. a \in Int /\ c \in Int /\ Cl[c] \in Int /\ c < Cl[c]
      BY <1>1
    <3>2. QED
      BY <1>2, <2>1, <3>1
  <2>3. Cl[d] < Cl[a]
    BY <2>2 DEF Nesting
  <2>4. QED
    BY <2>1, <2>3 DEF End
<1>5. QED
  BY <1>3, <1>4

(* A statement that begins in a statement ends in it. *)
LEMMA EndsIn ==
  ASSUME NEW n, NEW B, NEW E, NEW If, NEW Cl, Nesting(n, B, E, If, Cl), NEW a \in B \ E, NEW c \in B \ E,
         a < c, c < End(B, Cl, a)
  PROVE  End(B, Cl, c) < End(B, Cl, a)
<1>1. \A b \in B : b \in 1 .. n /\ n \in Nat /\ Cl[b] \in 1 .. n /\ b < Cl[b] /\ Cl[b] \in E
  BY DEF Nesting
<1>2. \A b \in B \ E : End(B, Cl, b) \in Int
  <2>1. TAKE b \in B \ E
  <2>2. End(B, Cl, b) \in E
    BY Ends
  <2>3. \A e \in E : e \in Int
    BY DEF Nesting
  <2>4. QED
    BY <2>2, <2>3
<1>3. a \in Int /\ c \in Int /\ Cl[a] \in Int /\ Cl[a] \in E
  BY <1>1
<1>4. CASE c < Cl[a]
  <2>1. End(B, Cl, c) < Cl[a]
    BY <1>4, InEnds
  <2>2. Cl[a] <= End(B, Cl, a)
    BY Ends
  <2>3. QED
    BY <1>2, <1>3, <2>1, <2>2
<1>5. CASE ~(c < Cl[a])
  <2>1. Cl[a] \in B
    <3>1. SUFFICES ASSUME Cl[a] \notin B PROVE FALSE
      OBVIOUS
    <3>2. End(B, Cl, a) = Cl[a]
      BY <3>1 DEF End
    <3>3. QED
      BY <1>5, <3>2
  <2>2. PICK d \in B : d = Cl[a]
    BY <2>1
  <2>3. End(B, Cl, a) = Cl[d]
    BY <2>2 DEF End
  <2>4. d < c
    BY <1>3, <1>5, <2>2
  <2>5. QED
    BY <2>3, <2>4, InEnds
<1>6. QED
  BY <1>4, <1>5

(* What item k does to the statements that are open.                        *)
LEMMA EnteredParts ==
  ASSUME NEW n, NEW B, NEW E, NEW If, NEW Cl, Nesting(n, B, E, If, Cl), NEW k \in 1 .. n
  PROVE  /\ k \in B \ E => Entered(B, E, Cl, k + 1) = Entered(B, E, Cl, k) \cup {k}
         /\ k \notin B /\ k \notin E => Entered(B, E, Cl, k + 1) = Entered(B, E, Cl, k)
         /\ k \in B \cap E => /\ Entered(B, E, Cl, k + 1) = Entered(B, E, Cl, k)
                              /\ \E a \in If \cap Entered(B, E, Cl, k) :
                                   /\ Cl[a] = k
                                   /\ \A c \in Entered(B, E, Cl, k) : c <= a
                                   /\ Around(B, Cl, k) = Around(B, Cl, a)
         /\ k \in E \ B => \E a \in Entered(B, E, Cl, k) :
                             /\ \A c \in Entered(B, E, Cl, k) : c <= a
                             /\ Entered(B, E, Cl, k + 1) = Entered(B, E, Cl, k) \ {a}
                             /\ Around(B, Cl, k) = Around(B, Cl, a)
                             /\ (Cl[a] = k \/ \E e \in B \cap E : Cl[a] = e /\ Cl[e] = k)
<1>1. \A b \in B : b \in 1 .. n /\ n \in Nat /\ Cl[b] \in 1 .. n /\ b < Cl[b] /\ Cl[b] \in E /\ b \in Int /\ Cl[b] \in Int
  <2>1. \A b \in B : b \in 1 .. n /\ n \in Nat /\ Cl[b] \in 1 .. n /\ b < Cl[b] /\ Cl[b] \in E
    BY DEF Nesting
  <2>2. \A b \in 1 .. n : b \in Int
    OBVIOUS
  <2>3. QED
    BY <2>1, <2>2
<1>2. k \in Int /\ k \in Nat
  BY DEF Nesting
<1>3. PICK F : F = [a \in B \ E |-> End(B, Cl, a)]
  OBVIOUS
<1>4. \A a \in B \ E : F[a] = End(B, Cl, a) /\ F[a] \in E \ B /\ F[a] \in Int /\ Cl[a] <= F[a] /\ a < F[a]
  <2>1. TAKE a \in B \ E
  <2>2. F[a] = End(B, Cl, a)
    BY <1>3
  <2>3. End(B, Cl, a) \in E \ B /\ Cl[a] <= End(B, Cl, a) /\ a < End(B, Cl, a)
    BY Ends
  <2>4. \A e \in E : e \in Int
    BY DEF Nesting
  <2>5. QED
    BY <2>2, <2>3, <2>4
<1>5. PICK S : S = Entered(B, E, Cl, k)
  OBVIOUS
<1>6. S = {a \in B \ E : a < k /\ k <= F[a]}
  BY <1>4, <1>5 DEF Entered
<1>7. PICK T : T = Entered(B, E, Cl, k + 1)
  OBVIOUS
<1>8. T = {a \in B \ E : a < k + 1 /\ k + 1 <= F[a]}
  BY <1>4, <1>7 DEF Entered
<1>9. \A a \in B \ E : /\ (a < k + 1 <=> a < k \/ a = k)
                       /\ (k + 1 <= F[a] <=> k <= F[a] /\ k # F[a])
  <2>1. TAKE a \in B \ E
  <2>2. a \in Int /\ F[a] \in Int
    BY <1>1, <1>4
  <2>3. QED
    BY <1>2, <2>2
<1>10. \A a \in B \ E : a \in T <=> (a < k \/ a = k) /\ k <= F[a] /\ k # F[a]
  BY <1>8, <1>9
<1>11. ASSUME k \in B \ E PROVE T = S \cup {k}
  <2>1. k <= F[k] /\ k # F[k]
    BY <1>2, <1>4, <1>11
  <2>2. \A a \in B \ E : k # F[a]
    BY <1>4, <1>11
  <2>3. QED
    BY <1>6, <1>8, <1>10, <1>11, <2>1, <2>2
<1>12. ASSUME k \notin B, k \notin E PROVE T = S
  <2>1. \A a \in B \ E : k # F[a] /\ a # k
    BY <1>4, <1>12
  <2>2. QED
    BY <1>6, <1>8, <1>10, <2>1
<1>13. ASSUME k \in B \cap E
       PROVE  T = S /\ \E a \in If \cap S : Cl[a] = k /\ (\A c \in S : c <= a) /\ Around(B, Cl, k) = Around(B, Cl, a)
  <2>1. \A a \in B \ E : k # F[a] /\ a # k
    BY <1>4, <1>13
  <2>2. T = S
    BY <1>6, <1>8, <1>10, <2>1
  <2>3. PICK a \in If : Cl[a] = k
    BY <1>13 DEF Nesting
  <2>4. a \in B \ E
    BY <2>3 DEF Nesting
  <2>5. a \in S
    <3>1. a < Cl[a] /\ Cl[a] <= F[a]
      BY <1>1, <1>4, <2>4
    <3>2. QED
      BY <1>6, <2>3, <2>4, <3>1
  <2>6. \A c \in S : c <= a
    <3>1. SUFFICES ASSUME NEW c \in S, a < c PROVE FALSE
      BY <1>1, <1>6, <2>4
    <3>2. c \in B \ E /\ c < k /\ k <= F[c] /\ F[c] \in Int /\ F[c] = End(B, Cl, c)
      BY <1>4, <1>6
    <3>3. End(B, Cl, c) < Cl[a]
      BY <2>3, <2>4, <3>1, <3>2, InEnds
    <3>4. QED
      BY <1>2, <2>3, <3>2, <3>3
  <2>7. Around(B, Cl, Cl[a]) = Around(B, Cl, a)
    BY <2>4, AroundEnd
  <2>8. QED
    BY <2>2, <2>3, <2>5, <2>6, <2>7
<1>14. ASSUME k \in E \ B
       PROVE  \E a \in S : /\ \A c \in S : c <= a
                           /\ T = S \ {a}
                           /\ Around(B, Cl, k) = Around(B, Cl, a)
                           /\ (Cl[a] = k \/ \E e \in B \cap E : Cl[a] = e /\ Cl[e] = k)
  <2>1. PICK b \in B : Cl[b] = k
    BY <1>14 DEF Nesting
  <2>2. Around(B, Cl, k) = Around(B, Cl, b)
    BY <2>1, AroundEnd
  <2>3. \E a \in B \ E : /\ F[a] = k /\ Around(B, Cl, k) = Around(B, Cl, a)
                         /\ (Cl[a] = k \/ \E e \in B \cap E : Cl[a] = e /\ Cl[e] = k)
    <3>1. CASE b \notin E
      <4>1. F[b] = k
        BY <1>4, <1>14, <2>1, <3>1 DEF End
      <4>2. QED
        BY <2>1, <2>2, <3>1, <4>1
    <3>2. CASE b \in E
      <4>1. PICK a \in If : Cl[a] = b
        BY <3>2 DEF Nesting
      <4>2. a \in B \ E
        BY <4>1 DEF Nesting
      <4>3. F[a] = k
        BY <1>4, <2>1, <4>1, <4>2 DEF End
      <4>4. Around(B, Cl, b) = Around(B, Cl, a)
        BY <4>1, <4>2, AroundEnd
      <4>5. QED
        BY <2>1, <2>2, <3>2, <4>1, <4>2, <4>3, <4>4
    <3>3. QED
      BY <3>1, <3>2
  <2>4. PICK a \in B \ E : /\ F[a] = k /\ Around(B, Cl, k) = Around(B, Cl, a)
                           /\ (Cl[a] = k \/ \E e \in B \cap E : Cl[a] = e /\ Cl[e] = k)
    BY <2>3
  <2>5. a < k /\ k <= F[a]
    BY <1>2, <1>4, <2>4
  <2>6. a \in S
    BY <1>6, <2>5
  <2>7. \A c \in S : c <= a
    <3>1. SUFFICES ASSUME NEW c \in S, a < c PROVE FALSE
      BY <1>1, <1>6
    <3>2. c \in B \ E /\ c < k /\ k <= F[c] /\ F[c] \in Int /\ F[c] = End(B, Cl, c)
      BY <1>4, <1>6
    <3>3. F[a] = End(B, Cl, a)
      BY <1>4
    <3>4. End(B, Cl, c) < End(B, Cl, a)
      BY <2>4, <3>1, <3>2, <3>3, EndsIn
    <3>5. QED
      BY <1>2, <2>4, <3>2, <3>3, <3>4
  <2>8. \A c \in B \ E : F[c] = k => c = a
    <3>1. SUFFICES ASSUME NEW c \in B \ E, F[c] = k PROVE c = a
      OBVIOUS
    <3>2. c < k /\ k <= F[c]
      BY <1>2, <1>4, <3>1
    <3>3. c \in S /\ c <= a /\ c \in Int /\ a \in Int
      BY <1>1, <1>6, <2>7, <3>2
    <3>4. ASSUME c < a PROVE FALSE
      <4>1. End(B, Cl, a) < End(B, Cl, c)
        BY <1>4, <2>5, <3>1, <3>4, EndsIn
      <4>2. QED
        BY <1>2, <1>4, <2>4, <3>1, <4>1
    <3>5. QED
      BY <3>3, <3>4
  <2>9. k \notin B \ E
    BY <1>14
  <2>10. T = S \ {a}
    BY <1>6, <1>8, <1>10, <2>4, <2>8, <2>9
  <2>11. QED
    BY <2>4, <2>6, <2>7, <2>10
<1>15. QED
  BY <1>5, <1>7, <1>11, <1>12, <1>13, <1>14

(* The body of whose scope an item is, when bodies in L have none; the      *)
(* bodies whose scopes are searched for what stands in body b.              *)
Outer(B, Cl, L, i) == Max({0} \cup (Around(B, Cl, i) \ L))
Reach(B, Cl, L, b) == {b, 0} \cup (Around(B, Cl, b) \ L)

(* That body is the nearest one around the item. *)
LEMMA OuterIs ==
  ASSUME NEW n, NEW B, NEW E, NEW If, NEW Cl, Nesting(n, B, E, If, Cl), NEW L, NEW i
  PROVE  /\ Outer(B, Cl, L, i) \in {0} \cup (Around(B, Cl, i) \ L)
         /\ \A b \in Around(B, Cl, i) \ L : b <= Outer(B, Cl, L, i)
         /\ Outer(B, Cl, L, i) \in 0 .. n
<1>1. PICK S : S = {0} \cup (Around(B, Cl, i) \ L)
  OBVIOUS
<1>2. n \in Nat /\ S \subseteq 0 .. n /\ S # {}
  <2>1. n \in Nat /\ \A b \in B : b \in 0 .. n
    BY DEF Nesting
  <2>2. \A x \in S : x = 0 \/ x \in B
    BY <1>1 DEF Around
  <2>3. 0 \in 0 .. n
    BY <2>1
  <2>4. QED
    BY <1>1, <2>1, <2>2, <2>3
<1>3. Max(S) \in S /\ \A x \in S : Max(S) >= x
  BY <1>2, Greatest
<1>4. Outer(B, Cl, L, i) = Max(S)
  BY <1>1 DEF Outer
<1>5. \A x \in S : x \in Int
  BY <1>2
<1>6. QED
  BY <1>1, <1>2, <1>3, <1>4, <1>5

(* What is the nearest body around the item is that body. *)
LEMMA OuterOnly ==
  ASSUME NEW n, NEW B, NEW E, NEW If, NEW Cl, Nesting(n, B, E, If, Cl), NEW L, NEW i,
         NEW x \in {0} \cup (Around(B, Cl, i) \ L), \A b \in Around(B, Cl, i) \ L : b <= x
  PROVE  Outer(B, Cl, L, i) = x
<1>1. /\ Outer(B, Cl, L, i) \in {0} \cup (Around(B, Cl, i) \ L)
      /\ \A b \in Around(B, Cl, i) \ L : b <= Outer(B, Cl, L, i)
  BY OuterIs
<1>2. \A b \in Around(B, Cl, i) : b \in Int /\ b >= 1
  <2>1. \A b \in B : b \in Int /\ b >= 1
    BY DEF Nesting
  <2>2. QED
    BY <2>1 DEF Around
<1>3. PICK y : y = Outer(B, Cl, L, i)
  OBVIOUS
<1>4. y <= x /\ x <= y /\ y \in Int /\ x \in Int
  BY <1>1, <1>2, <1>3
<1>5. QED
  BY <1>3, <1>4

(* A search goes on with the scopes around. *)
LEMMA ReachesOut ==
  ASSUME NEW n, NEW B, NEW E, NEW If, NEW Cl, Nesting(n, B, E, If, Cl), NEW L, NEW b \in B
  PROVE  Reach(B, Cl, L, b) = {b} \cup Reach(B, Cl, L, Outer(B, Cl, L, b))
<1>1. PICK o : o = Outer(B, Cl, L, b)
  OBVIOUS
<1>2. o \in {0} \cup (Around(B, Cl, b) \ L) /\ \A c \in Around(B, Cl, b) \ L : c <= o
  BY <1>1, OuterIs
<1>3. \A c \in B : c \in Int /\ c >= 1
  BY DEF Nesting
<1>4. CASE o = 0
  <2>1. Around(B, Cl, b) \ L = {}
    <3>1. SUFFICES ASSUME NEW c \in Around(B, Cl, b) \ L PROVE FALSE
      OBVIOUS
    <3>2. c \in B /\ c <= 0
      BY <1>2, <1>4, <3>1 DEF Around
    <3>3. QED
      BY <1>3, <3>2
  <2>2. Around(B, Cl, 0) = {}
    BY <1>3 DEF Around
  <2>3. QED
    BY <1>1, <1>4, <2>1, <2>2 DEF Reach
<1>5. CASE o # 0
  <2>1. o \in Around(B, Cl, b) /\ o \notin L /\ o \in B
    BY <1>2, <1>5 DEF Around
  <2>2. b \in Int /\ o \in Int
    BY <1>3, <2>1
  <2>3. Around(B, Cl, o) = {c \in Around(B, Cl, b) : c < o}
    BY <2>1, <2>2, AroundAll
  <2>4. \A c \in Around(B, Cl, b) \ L : c = o \/ c < o
    <3>1. TAKE c \in Around(B, Cl, b) \ L
    <3>2. c <= o /\ c \in Int
      BY <1>2, <1>3, <3>1 DEF Around
    <3>3. QED
      BY <2>2, <3>2
  <2>5. QED
    BY <1>1, <2>1, <2>3, <2>4 DEF Reach
<1>6. QED
  BY <1>4, <1>5

(* Bodies further out reach less; what is around an item is reached.        *)
LEMMA Reached ==
  ASSUME NEW n, NEW B, NEW E, NEW If, NEW Cl, Nesting(n, B, E, If, Cl), NEW L, NEW i \in Int,
         NEW c \in {0} \cup Around(B, Cl, i)
  PROVE  Reach(B, Cl, L, c) = {c, 0} \cup {b \in Around(B, Cl, i) \ L : b < c}
<1>1. CASE c = 0
  <2>1. \A b \in Around(B, Cl, i) : b >= 1 /\ b \in Int
    BY DEF Around, Nesting
  <2>2. \A b \in B : b >= 1 /\ b \in Int
    BY DEF Nesting
  <2>3. Around(B, Cl, 0) = {}
    BY <2>2 DEF Around
  <2>4. QED
    BY <1>1, <2>1, <2>3 DEF Reach
<1>2. CASE c # 0
  <2>1. Around(B, Cl, c) = {b \in Around(B, Cl, i) : b < c}
    BY <1>2, AroundAll
  <2>2. QED
    BY <2>1 DEF Reach
<1>3. QED
  BY <1>1, <1>2

-----------------------------------------------------------------------------
(* What a search from scope to scope comes to: par, the scope around; has,  *)
(* whether a scope has what is searched; val, what it has.                  *)
Climbs(m, par, has, val, f) ==
  f = [s \in 0 .. m |-> IF s = 0 THEN 0 ELSE IF has[s] THEN val[s] ELSE f[par[s]]]

(* A search comes to an end: the scope around is an earlier one. *)
LEMMA ClimbExists ==
  ASSUME NEW m \in Nat, NEW par, NEW has, NEW val, \A s \in 1 .. m : par[s] \in 0 .. (s - 1)
  PROVE  \E f : Climbs(m, par, has, val, f)
<1> DEFINE Good(k) == \E f : Climbs(k, par, has, val, f)
           Bad == {k \in 0 .. m : ~Good(k)}
<1>1. SUFFICES ASSUME Bad # {} PROVE FALSE
  <2>1. m \in 0 .. m
    OBVIOUS
  <2>2. QED
    BY <2>1
<1>2. Bad \subseteq Nat
  OBVIOUS
<1>3. PICK k \in Bad : \A j \in Bad : k <= j
  <2> HIDE DEF Bad
  <2>1. QED
    BY <1>1, <1>2, LeastNatural
<1>4. k # 0
  <2>1. SUFFICES ASSUME k = 0 PROVE FALSE
    OBVIOUS
  <2>2. PICK f : f = [s \in 0 .. 0 |-> 0]
    OBVIOUS
  <2>3. Climbs(0, par, has, val, f)
    <3>1. \A s \in 0 .. 0 : s = 0
      OBVIOUS
    <3>2. QED
      BY <2>2, <3>1 DEF Climbs
  <2>4. QED
    BY <1>3, <2>1, <2>3
<1>5. PICK j \in Nat : j + 1 = k /\ j \in 0 .. m /\ ~(k <= j)
  <2>1. k - 1 \in Nat
    BY <1>3, <1>4
  <2>2. QED
    BY <1>3, <2>1
<1>6. PICK f : Climbs(j, par, has, val, f)
  <2>1. j \notin Bad
    BY <1>3, <1>5
  <2>2. QED
    BY <1>5, <2>1
<1>7. \A s \in 0 .. j : f[s] = IF s = 0 THEN 0 ELSE IF has[s] THEN val[s] ELSE f[par[s]]
  BY <1>6 DEF Climbs
<1>8. PICK g : g = [s \in 0 .. k |-> IF s \in 0 .. j THEN f[s] ELSE IF has[k] THEN val[k] ELSE f[par[k]]]
  OBVIOUS
<1>9. \A s \in 0 .. j : g[s] = f[s]
  BY <1>5, <1>8
<1>10. g[k] = IF has[k] THEN val[k] ELSE f[par[k]]
  BY <1>3, <1>5, <1>8
<1>11. \A s \in 0 .. k : g[s] = IF s = 0 THEN 0 ELSE IF has[s] THEN val[s] ELSE g[par[s]]
  <2>1. TAKE s \in 0 .. k
  <2>2. CASE s = k
    <3>1. par[k] \in 0 .. j
      BY <1>3, <1>4, <1>5
    <3>2. g[par[k]] = f[par[k]]
      BY <1>9, <3>1
    <3>3. QED
      BY <1>4, <1>10, <2>2, <3>2
  <2>3. CASE s # k
    <3>1. s \in 0 .. j
      BY <1>5, <2>3
    <3>2. g[s] = IF s = 0 THEN 0 ELSE IF has[s] THEN val[s] ELSE f[par[s]]
      BY <1>7, <1>9, <3>1
    <3>3. s # 0 => par[s] \in 0 .. j
      <4>1. SUFFICES ASSUME s # 0 PROVE par[s] \in 0 .. j
        OBVIOUS
      <4>2. s \in 1 .. m /\ s <= j
        BY <1>5, <3>1, <4>1
      <4>3. QED
        BY <1>5, <4>2
    <3>4. s # 0 => g[par[s]] = f[par[s]]
      BY <1>9, <3>3
    <3>5. QED
      BY <3>2, <3>4
  <2>4. QED
    BY <2>2, <2>3
<1>12. PICK G : G = [s \in 0 .. k |-> IF s = 0 THEN 0 ELSE IF has[s] THEN val[s] ELSE g[par[s]]]
  OBVIOUS
<1>13. g = G
  <2>1. \A s \in 0 .. k : g[s] = G[s]
    BY <1>11, <1>12
  <2>2. DOMAIN g = 0 .. k /\ DOMAIN G = 0 .. k /\ g = [s \in DOMAIN g |-> g[s]] /\ G = [s \in DOMAIN G |-> G[s]]
    BY <1>8, <1>12
  <2>3. QED
    BY <2>1, <2>2
<1>14. Climbs(k, par, has, val, g)
  BY <1>12, <1>13 DEF Climbs
<1>15. QED
  BY <1>3, <1>14

(* Scopes as a chain to climb: of bodies, each below the one around it.     *)
Scopewise(B, Cl, L, m, par, has, val, of) ==
  /\ m \in Nat /\ of \in [1 .. m -> {0} \cup B]
  /\ \A s \in 1 .. m : \/ of[s] = 0 /\ par[s] = 0
                       \/ of[s] \in B /\ par[s] \in 1 .. (s - 1) /\ of[par[s]] = Outer(B, Cl, L, of[s])
  /\ \A s, q \in 1 .. m : of[s] = of[q] => s = q
  /\ \A s \in 1 .. m : has[s] => val[s] # 0
Climbed(B, Cl, L, m, has, val, of, f, s) ==
  /\ f[s] = 0 => \A r \in 1 .. m : of[r] \in Reach(B, Cl, L, of[s]) => ~has[r]
  /\ f[s] # 0 => \E r \in 1 .. m : of[r] \in Reach(B, Cl, L, of[s]) /\ has[r] /\ f[s] = val[r]

(* It comes to what the nearest scope has, among those that are reached.    *)
LEMMA Climbing ==
  ASSUME NEW n, NEW B, NEW E, NEW If, NEW Cl, Nesting(n, B, E, If, Cl), NEW L,
         NEW m, NEW par, NEW has, NEW val, NEW of, Scopewise(B, Cl, L, m, par, has, val, of),
         NEW f, Climbs(m, par, has, val, f), NEW s \in 1 .. m
  PROVE  Climbed(B, Cl, L, m, has, val, of, f, s)
<1> SUFFICES ASSUME m \in Nat, of \in [1 .. m -> {0} \cup B],
                    \A q \in 1 .. m : \/ of[q] = 0 /\ par[q] = 0
                                      \/ of[q] \in B /\ par[q] \in 1 .. (q - 1) /\ of[par[q]] = Outer(B, Cl, L, of[q]),
                    \A q, r \in 1 .. m : of[q] = of[r] => q = r,
                    \A q \in 1 .. m : has[q] => val[q] # 0
             PROVE  /\ f[s] = 0 => \A r \in 1 .. m : of[r] \in Reach(B, Cl, L, of[s]) => ~has[r]
                    /\ f[s] # 0 => \E r \in 1 .. m : of[r] \in Reach(B, Cl, L, of[s]) /\ has[r] /\ f[s] = val[r]
  BY DEF Scopewise, Climbed
<1> DEFINE Good(k) ==
             /\ f[k] = 0 => \A r \in 1 .. m : of[r] \in Reach(B, Cl, L, of[k]) => ~has[r]
             /\ f[k] # 0 => \E r \in 1 .. m : of[r] \in Reach(B, Cl, L, of[k]) /\ has[r] /\ f[k] = val[r]
           Bad == {k \in 1 .. m : ~Good(k)}
<1>1. SUFFICES ASSUME Bad # {} PROVE FALSE
  OBVIOUS
<1>2. PICK k \in Bad : \A j \in Bad : k <= j
  <2>1. Bad \subseteq Nat
    OBVIOUS
  <2> HIDE DEF Bad
  <2>2. QED
    BY <1>1, <2>1, LeastNatural
<1>3. k \in 1 .. m /\ ~Good(k)
  OBVIOUS
<1>4. f[0] = 0 /\ f[k] = IF has[k] THEN val[k] ELSE f[par[k]]
  <2>1. k \in 0 .. m /\ 0 \in 0 .. m /\ k # 0
    BY <1>3
  <2>2. QED
    BY <2>1 DEF Climbs
<1>5. Good(k)
  <2>1. CASE has[k]
    <3>1. f[k] # 0 /\ f[k] = val[k]
      BY <1>3, <1>4, <2>1
    <3>2. of[k] \in Reach(B, Cl, L, of[k])
      BY DEF Reach
    <3>3. QED
      BY <1>3, <2>1, <3>1, <3>2
  <2>2. CASE ~has[k] /\ of[k] = 0 /\ par[k] = 0
    <3>1. f[k] = 0
      BY <1>4, <2>2
    <3>2. Around(B, Cl, 0) = {}
      <4>1. \A b \in B : b >= 1 /\ b \in Int
        BY DEF Nesting
      <4>2. QED
        BY <4>1 DEF Around
    <3>3. Reach(B, Cl, L, of[k]) = {0}
      BY <2>2, <3>2 DEF Reach
    <3>4. \A r \in 1 .. m : of[r] \in Reach(B, Cl, L, of[k]) => ~has[r]
      BY <1>3, <2>2, <3>3
    <3>5. QED
      BY <3>1, <3>4
  <2>3. CASE ~has[k] /\ of[k] \in B /\ par[k] \in 1 .. (k - 1) /\ of[par[k]] = Outer(B, Cl, L, of[k])
    <3>1. PICK p : p = par[k] /\ p \in 1 .. m /\ ~(k <= p)
      BY <1>3, <2>3
    <3>2. f[k] = f[p]
      BY <1>4, <2>3, <3>1
    <3>3. Good(p)
      <4>1. p \notin Bad
        BY <1>2, <3>1
      <4>2. QED
        BY <3>1, <4>1
    <3>4. Reach(B, Cl, L, of[k]) = {of[k]} \cup Reach(B, Cl, L, of[p])
      BY <2>3, <3>1, ReachesOut
    <3>5. \A r \in 1 .. m : of[r] = of[k] => ~has[r]
      BY <1>3, <2>3
    <3>6. CASE f[k] = 0
      <4>1. \A r \in 1 .. m : of[r] \in Reach(B, Cl, L, of[p]) => ~has[r]
        BY <3>2, <3>3, <3>6
      <4>2. QED
        BY <3>4, <3>5, <3>6, <4>1
    <3>7. CASE f[k] # 0
      <4>1. PICK r \in 1 .. m : of[r] \in Reach(B, Cl, L, of[p]) /\ has[r] /\ f[p] = val[r]
        BY <3>2, <3>3, <3>7
      <4>2. QED
        BY <3>2, <3>4, <3>7, <4>1
    <3>8. QED
      BY <3>6, <3>7
  <2>4. QED
    BY <1>3, <2>1, <2>2, <2>3
<1>6. QED
  BY <1>3, <1>5

-----------------------------------------------------------------------------
(***************************************************************************)
(* What the walk collects.                                                 *)
(***************************************************************************)

Loopers(t) == {b \in Begun(t) : t[b].op \in Loops}
ScopeIn(t, i) == Outer(Begun(t), Closers(t), Loopers(t), i)

(* The declarations of a text, the symbols they become, the bodies in whose *)
(* scopes these are.                                                        *)
DeclaredIn(t) ==
  {[name |-> t[i].name, place |-> Place(i, 1), item |-> i] :
     i \in {j \in 1 .. Len(t) : t[j].op \in {"let", "fn", "lambda", "for", "class"}}}
  \cup
  {[name |-> t[i].other, place |-> Place(i, 3), item |-> i] :
     i \in {j \in 1 .. Len(t) : t[j].op \in {"fn", "lambda"} /\ t[j].other # Literal}}

KindOf(t, d) ==
  IF d.place = Place(d.item, 3) THEN "argument"
  ELSE IF t[d.item].op = "fn" THEN "function"
  ELSE IF t[d.item].op = "class" THEN "class" ELSE "definition"

SymbolOf(t, d) == [name |-> d.name, kind |-> KindOf(t, d), place |-> d.place, item |-> d.item]
Home(t, d) == IF d.place = Place(d.item, 3) THEN d.item ELSE ScopeIn(t, d.item)

Mentions == {"let", "set", "call", "if", "for"}
Usage(t, x) == /\ x.kind = "variable" /\ x.name \in Name
               /\ x.item \in 1 .. Len(t) /\ t[x.item].op \in Mentions
               /\ x.place \in {Place(x.item, 0), Place(x.item, 3)}
Declaring(t, x, b) == \E d \in DeclaredIn(t) : x = SymbolOf(t, d) /\ Home(t, d) = b
Fits(t, x, b) == Usage(t, x) \/ (x.name = Hidden /\ x.kind = "function") \/ Declaring(t, x, b)

ScopeSet == [parent : Nat, symbols : Seq(Nat), span : [start : Int, end : Int]]
SymbolSet == [name : Name \cup {Hidden}, kind : {"variable", "definition", "function", "class", "argument"},
              place : Int, item : Nat]
IndexSet == [scopes : Seq(ScopeSet), symbols : Seq(SymbolSet), current : Nat]

(* The block of a body has the span of its scope: the first of an if.       *)
Whose(t, b) == IF t[b].op = "else" THEN CHOOSE a \in Ifs(t) : Closer(t, a) = b ELSE b
ScopeSpan(t, b) == Span(BraceAt(Whose(t, b)), CloseAt(Closer(t, Whose(t, b))))

(* of: the bodies of the scopes; S: the set of them; D: the declarations    *)
(* that have symbols.                                                       *)
ScopesFit(t, scopes, of, S) ==
  /\ of \in Seq(Nat) /\ Len(of) = Len(scopes) /\ 1 \in DOMAIN of
  /\ S \subseteq Begun(t) \ Loopers(t)
  /\ \A s \in DOMAIN of : \/ s = 1 /\ of[s] = 0 /\ scopes[s].parent = 0 /\ scopes[s].span = Span(0, -1)
                          \/ /\ s # 1 /\ of[s] \in S /\ scopes[s].span = ScopeSpan(t, of[s])
                             /\ scopes[s].parent \in 1 .. (s - 1) /\ of[scopes[s].parent] = ScopeIn(t, of[s])
  /\ \A s, r \in DOMAIN of : s < r => of[s] < of[r]
  /\ \A b \in S : \E s \in DOMAIN of : of[s] = b

SymbolsFit(t, scopes, symbols, of, D) ==
  /\ \A s \in DOMAIN scopes : \A j \in DOMAIN scopes[s].symbols :
       scopes[s].symbols[j] \in DOMAIN symbols /\ Fits(t, symbols[scopes[s].symbols[j]], of[s])
  /\ \A d \in D : \E s \in DOMAIN scopes : \E j \in DOMAIN scopes[s].symbols :
       symbols[scopes[s].symbols[j]] = SymbolOf(t, d)
  /\ \A m \in DOMAIN symbols : \E b : Fits(t, symbols[m], b)

Extends(of, of2) == \A s \in DOMAIN of : s \in DOMAIN of2 /\ of2[s] = of[s]
Under(S, k) == \A b \in S : b < k
Adds(t, D2, D, x) == \A d \in D2 : d \in D \/ SymbolOf(t, d) = x

AddsOnly(D2, D, d) == \A e \in D2 : e \in D \/ (e = d /\ e.name # Literal)
NameKind(t, k) == IF t[k].op = "fn" THEN "function" ELSE IF t[k].op = "class" THEN "class" ELSE "definition"

Collected(t, ix, of, S, D) ==
  ix \in IndexSet /\ ScopesFit(t, ix.scopes, of, S) /\ SymbolsFit(t, ix.scopes, ix.symbols, of, D)

(* What a definition keeps, what comes of entering a scope.                 *)
Kept(t, ix, new, of, S, D) ==
  Collected(t, new, of, S, D) /\ new.current = ix.current /\ DOMAIN new.scopes = DOMAIN ix.scopes
Entering(t, new, of, of2, S, D, k) ==
  /\ Collected(t, new, of2, S, D)
  /\ new.current \in DOMAIN of2 /\ of2[new.current] = k
  /\ Extends(of, of2) /\ DOMAIN of2 = DOMAIN new.scopes

(* Define adds a symbol, to the current scope alone. *)
LEMMA DefineIs ==
  ASSUME NEW ix, ix \in IndexSet, ix.current \in DOMAIN ix.scopes,
         NEW name, NEW kind, NEW place, NEW item, name # Literal,
         NEW x, x = [name |-> name, kind |-> kind, place |-> place, item |-> item], x \in SymbolSet,
         NEW new, new = Define(ix, name, kind, place, item)
  PROVE  /\ new \in IndexSet /\ new.current = ix.current
         /\ new.symbols = Append(ix.symbols, x)
         /\ Len(new.scopes) = Len(ix.scopes) /\ DOMAIN new.scopes = DOMAIN ix.scopes
         /\ \A s \in DOMAIN ix.scopes :
              /\ new.scopes[s].parent = ix.scopes[s].parent /\ new.scopes[s].span = ix.scopes[s].span
              /\ s # ix.current => new.scopes[s] = ix.scopes[s]
              /\ s = ix.current => new.scopes[s].symbols = Append(ix.scopes[s].symbols, Len(ix.symbols) + 1)
<1>1. PICK sc, sy, c : sc = ix.scopes /\ sy = ix.symbols /\ c = ix.current
  OBVIOUS
<1>2. sc \in Seq(ScopeSet) /\ sy \in Seq(SymbolSet) /\ c \in Nat /\ ix = [scopes |-> sc, symbols |-> sy, current |-> c]
  BY <1>1 DEF IndexSet
<1>3. PICK n \in Nat : n = Len(sy)
  BY <1>2, LenProperties
<1>4. c \in DOMAIN sc /\ sc[c] \in ScopeSet
  BY <1>1, <1>2
<1>5. PICK p, q, w : /\ sc[c] = [parent |-> p, symbols |-> q, span |-> w]
                     /\ p = sc[c].parent /\ q = sc[c].symbols /\ w = sc[c].span
                     /\ p \in Nat /\ q \in Seq(Nat) /\ w \in [start : Int, end : Int]
  <2>1. PICK u : u = sc[c] /\ u \in ScopeSet
    BY <1>4
  <2>2. u = [parent |-> u.parent, symbols |-> u.symbols, span |-> u.span]
        /\ u.parent \in Nat /\ u.symbols \in Seq(Nat) /\ u.span \in [start : Int, end : Int]
    BY <2>1 DEF ScopeSet
  <2>3. QED
    BY <2>1, <2>2
<1>6. PICK a : a = Append(q, n + 1)
  OBVIOUS
<1>7. PICK v : v = [parent |-> p, symbols |-> a, span |-> w] /\ v.parent = p /\ v.symbols = a /\ v.span = w
  <2>1. PICK v : v = [parent |-> p, symbols |-> a, span |-> w]
    OBVIOUS
  <2>2. v.parent = p /\ v.symbols = a /\ v.span = w
    BY <2>1
  <2>3. QED
    BY <2>1, <2>2
<1>8. v \in ScopeSet
  <2>1. a \in Seq(Nat)
    BY <1>3, <1>5, <1>6, AppendProperties
  <2>2. QED
    BY <1>5, <1>7, <2>1 DEF ScopeSet
<1>9. PICK sc2 : sc2 = [sc EXCEPT ![c] = v]
  OBVIOUS
<1>10. PICK sy2 : sy2 = Append(sy, x)
  OBVIOUS
<1>11. new = [scopes |-> sc2, symbols |-> sy2, current |-> c]
  <2>1. new = [ix EXCEPT !.symbols = Append(@, x), !.scopes[ix.current].symbols = Append(@, Len(ix.symbols) + 1)]
    BY DEF Define
  <2>2. [sc[c] EXCEPT !.symbols = Append(@, n + 1)] = v
    <3>1. PICK u : u = sc[c]
      OBVIOUS
    <3>2. u.symbols = q /\ [u EXCEPT !.symbols = Append(q, n + 1)] = v
      <4>1. u = [parent |-> p, symbols |-> q, span |-> w]
        BY <1>5, <3>1
      <4>2. u.symbols = q
        BY <1>5, <3>1
      <4>3. [u EXCEPT !.symbols = a] = [parent |-> p, symbols |-> a, span |-> w]
        BY <4>1
      <4>4. QED
        BY <1>6, <1>7, <4>2, <4>3
    <3>3. QED
      BY <3>1, <3>2
  <2>3. QED
    BY <1>1, <1>2, <1>3, <1>9, <1>10, <2>1, <2>2
<1>12. sc2 \in Seq(ScopeSet) /\ Len(sc2) = Len(sc) /\ DOMAIN sc2 = DOMAIN sc
  BY <1>2, <1>4, <1>8, <1>9, ElementReplaced
<1>13. sy2 \in Seq(SymbolSet)
  BY <1>2, <1>10, AppendProperties
<1>14. \A s \in DOMAIN sc : sc2[s] = IF s = c THEN v ELSE sc[s]
  BY <1>4, <1>9
<1>15. new \in IndexSet
  BY <1>2, <1>11, <1>12, <1>13 DEF IndexSet
<1>16. new.scopes = sc2 /\ new.symbols = sy2 /\ new.current = c
  BY <1>11
<1>17. \A s \in DOMAIN sc : /\ sc2[s].parent = sc[s].parent /\ sc2[s].span = sc[s].span
                            /\ s # c => sc2[s] = sc[s]
                            /\ s = c => sc2[s].symbols = Append(sc[s].symbols, n + 1)
  <2>1. TAKE s \in DOMAIN sc
  <2>2. CASE s = c
    <3>1. sc2[s] = v /\ v.parent = sc[s].parent /\ v.span = sc[s].span /\ v.symbols = Append(q, n + 1) /\ sc[s].symbols = q
      BY <1>5, <1>6, <1>7, <1>14, <2>2
    <3>2. QED
      BY <2>2, <3>1
  <2>3. CASE s # c
    BY <1>14, <2>3
  <2>4. QED
    BY <2>2, <2>3
<1>18. new.symbols = Append(ix.symbols, x) /\ new.current = ix.current
  BY <1>1, <1>10, <1>16
<1>19. Len(new.scopes) = Len(ix.scopes) /\ DOMAIN new.scopes = DOMAIN ix.scopes
  BY <1>1, <1>12, <1>16
<1>20. \A s \in DOMAIN ix.scopes :
         /\ new.scopes[s].parent = ix.scopes[s].parent /\ new.scopes[s].span = ix.scopes[s].span
         /\ s # ix.current => new.scopes[s] = ix.scopes[s]
         /\ s = ix.current => new.scopes[s].symbols = Append(ix.scopes[s].symbols, Len(ix.symbols) + 1)
  <2>1. TAKE s \in DOMAIN ix.scopes
  <2>2. s \in DOMAIN sc
    BY <1>1
  <2>3. sc2[s].parent = sc[s].parent /\ sc2[s].span = sc[s].span /\ (s # c => sc2[s] = sc[s])
    BY <1>17, <2>2
  <2>4. s = c => sc2[s].symbols = Append(sc[s].symbols, n + 1)
    BY <1>17, <2>2
  <2>5. Len(ix.symbols) = n
    BY <1>1, <1>3
  <2>6. QED
    BY <1>1, <1>16, <2>3, <2>4, <2>5
<1>21. QED
  BY <1>15, <1>18, <1>19, <1>20

(* Enter adds a scope without symbols. *)
LEMMA EnterIs ==
  ASSUME NEW ix, ix \in IndexSet, NEW span, span \in [start : Int, end : Int],
         NEW new, new = Enter(ix, span)
  PROVE  /\ new \in IndexSet /\ new.current = Len(ix.scopes) + 1
         /\ new.symbols = ix.symbols
         /\ new.scopes = Append(ix.scopes, [parent |-> ix.current, symbols |-> <<>>, span |-> span])
<1>1. PICK sc, sy, c : sc = ix.scopes /\ sy = ix.symbols /\ c = ix.current
  OBVIOUS
<1>2. sc \in Seq(ScopeSet) /\ sy \in Seq(SymbolSet) /\ c \in Nat /\ ix = [scopes |-> sc, symbols |-> sy, current |-> c]
  BY <1>1 DEF IndexSet
<1>3. PICK v : v = [parent |-> c, symbols |-> <<>>, span |-> span]
  OBVIOUS
<1>4. v \in ScopeSet
  BY <1>2, <1>3 DEF ScopeSet
<1>5. PICK sc2 : sc2 = Append(sc, v)
  OBVIOUS
<1>6. sc2 \in Seq(ScopeSet) /\ Len(sc) + 1 \in Nat
  BY <1>2, <1>4, <1>5, AppendProperties, LenProperties
<1>7. new = [scopes |-> sc2, symbols |-> sy, current |-> Len(sc) + 1]
  BY <1>1, <1>2, <1>3, <1>5 DEF Enter
<1>8. new \in IndexSet
  BY <1>2, <1>6, <1>7 DEF IndexSet
<1>9. new.scopes = sc2 /\ new.symbols = sy /\ new.current = Len(sc) + 1
  BY <1>7
<1>10. QED
  BY <1>1, <1>3, <1>5, <1>8, <1>9

(* A symbol that fits the current scope leaves the index in shape. *)
LEMMA Defines ==
  ASSUME NEW t, NEW ix, NEW of, NEW S, NEW D, Collected(t, ix, of, S, D), ix.current \in DOMAIN ix.scopes,
         NEW name, NEW kind, NEW place, NEW item, name # Literal,
         NEW x, x = [name |-> name, kind |-> kind, place |-> place, item |-> item], x \in SymbolSet,
         Fits(t, x, of[ix.current]),
         NEW new, new = Define(ix, name, kind, place, item),
         NEW D2, Adds(t, D2, D, x)
  PROVE  Kept(t, ix, new, of, S, D2)
<1>1. ix \in IndexSet /\ ScopesFit(t, ix.scopes, of, S) /\ SymbolsFit(t, ix.scopes, ix.symbols, of, D)
  BY DEF Collected
<1>2. PICK sc, sy, c : sc = ix.scopes /\ sy = ix.symbols /\ c = ix.current
  OBVIOUS
<1>3. PICK sc2, sy2 : sc2 = new.scopes /\ sy2 = new.symbols
  OBVIOUS
<1>4. sc \in Seq(ScopeSet) /\ sy \in Seq(SymbolSet) /\ c \in DOMAIN sc
  BY <1>1, <1>2 DEF IndexSet
<1>5. /\ new \in IndexSet /\ new.current = c
      /\ sy2 = Append(sy, x) /\ Len(sc2) = Len(sc) /\ DOMAIN sc2 = DOMAIN sc
  BY <1>1, <1>2, <1>3, DefineIs
<1>6. \A s \in DOMAIN sc :
        /\ sc2[s].parent = sc[s].parent /\ sc2[s].span = sc[s].span
        /\ s # c => sc2[s] = sc[s]
        /\ s = c => sc2[s].symbols = Append(sc[s].symbols, Len(sy) + 1)
  <2>1. \A s \in DOMAIN ix.scopes :
          /\ new.scopes[s].parent = ix.scopes[s].parent /\ new.scopes[s].span = ix.scopes[s].span
          /\ s # ix.current => new.scopes[s] = ix.scopes[s]
          /\ s = ix.current => new.scopes[s].symbols = Append(ix.scopes[s].symbols, Len(ix.symbols) + 1)
    BY <1>1, DefineIs
  <2>2. QED
    BY <1>2, <1>3, <2>1
<1>7. PICK n \in Nat : n = Len(sy) /\ DOMAIN sy = 1 .. n
  BY <1>4, LenProperties
<1>8. DOMAIN sy2 = 1 .. (n + 1) /\ sy2[n + 1] = x /\ \A m \in 1 .. n : sy2[m] = sy[m]
  BY <1>4, <1>5, <1>7, AppendProperties
<1>9. ScopesFit(t, sc2, of, S)
  <2>1. ScopesFit(t, sc, of, S)
    BY <1>1, <1>2
  <2>2. DOMAIN of = DOMAIN sc
    <3>1. of \in Seq(Nat) /\ Len(of) = Len(sc)
      BY <2>1 DEF ScopesFit
    <3>2. QED
      BY <1>4, <3>1, LenProperties
  <2>3. \A s \in DOMAIN of : sc2[s].parent = sc[s].parent /\ sc2[s].span = sc[s].span
    BY <1>6, <2>2
  <2>4. QED
    BY <1>5, <2>1, <2>3 DEF ScopesFit
<1>10. PICK q : q = sc[c].symbols
  OBVIOUS
<1>11. q \in Seq(Nat)
  <2>1. PICK u : u = sc[c] /\ u \in ScopeSet
    BY <1>4
  <2>2. u.symbols \in Seq(Nat)
    BY <2>1 DEF ScopeSet
  <2>3. QED
    BY <1>10, <2>1, <2>2
<1>12. PICK l \in Nat : l = Len(q) /\ DOMAIN q = 1 .. l
  BY <1>11, LenProperties
<1>13. sc2[c].symbols = Append(q, n + 1)
  BY <1>4, <1>6, <1>7, <1>10
<1>14. PICK q2 : q2 = Append(q, n + 1)
  OBVIOUS
<1>15. DOMAIN q2 = 1 .. (l + 1) /\ q2[l + 1] = n + 1 /\ \A j \in 1 .. l : q2[j] = q[j]
  BY <1>7, <1>11, <1>12, <1>14, AppendProperties
<1>16. /\ \A s \in DOMAIN sc : \A j \in DOMAIN sc[s].symbols :
            sc[s].symbols[j] \in 1 .. n /\ Fits(t, sy[sc[s].symbols[j]], of[s])
       /\ \A d \in D : \E s \in DOMAIN sc : \E j \in DOMAIN sc[s].symbols :
            sy[sc[s].symbols[j]] = SymbolOf(t, d)
       /\ \A m \in 1 .. n : \E b : Fits(t, sy[m], b)
  BY <1>1, <1>2, <1>7 DEF SymbolsFit
<1>17. \A s \in DOMAIN sc : \A j \in DOMAIN sc[s].symbols :
         /\ j \in DOMAIN sc2[s].symbols /\ sc2[s].symbols[j] = sc[s].symbols[j]
         /\ sy2[sc2[s].symbols[j]] = sy[sc[s].symbols[j]]
  <2>1. TAKE s \in DOMAIN sc
  <2>2. TAKE j \in DOMAIN sc[s].symbols
  <2>3. j \in DOMAIN sc2[s].symbols /\ sc2[s].symbols[j] = sc[s].symbols[j]
    <3>1. CASE s # c
      BY <1>6, <3>1
    <3>2. CASE s = c
      <4>1. j \in 1 .. l /\ j \in 1 .. (l + 1)
        BY <1>10, <1>12, <3>2
      <4>2. QED
        BY <1>10, <1>13, <1>14, <1>15, <3>2, <4>1
    <3>3. QED
      BY <3>1, <3>2
  <2>4. sc[s].symbols[j] \in 1 .. n
    BY <1>16
  <2>5. QED
    BY <1>8, <2>3, <2>4
<1>18. \A s \in DOMAIN sc : \A j \in DOMAIN sc2[s].symbols :
         \/ j \in DOMAIN sc[s].symbols
         \/ s = c /\ j = l + 1 /\ sc2[s].symbols[j] = n + 1
  <2>1. TAKE s \in DOMAIN sc
  <2>2. TAKE j \in DOMAIN sc2[s].symbols
  <2>3. CASE s # c
    BY <1>6, <2>3
  <2>4. CASE s = c
    <3>1. j \in 1 .. (l + 1)
      BY <1>13, <1>14, <1>15, <2>4
    <3>2. j \in 1 .. l \/ j = l + 1
      BY <3>1
    <3>3. QED
      BY <1>10, <1>12, <1>13, <1>14, <1>15, <2>4, <3>2
  <2>5. QED
    BY <2>3, <2>4
<1>19. n + 1 \in DOMAIN sy2 /\ \A m \in 1 .. n : m \in DOMAIN sy2
  BY <1>8
<1>20. SymbolsFit(t, sc2, sy2, of, D2)
  <2>1. \A s \in DOMAIN sc2 : \A j \in DOMAIN sc2[s].symbols :
          sc2[s].symbols[j] \in DOMAIN sy2 /\ Fits(t, sy2[sc2[s].symbols[j]], of[s])
    <3>1. TAKE s \in DOMAIN sc2
    <3>2. TAKE j \in DOMAIN sc2[s].symbols
    <3>3. s \in DOMAIN sc
      BY <1>5
    <3>4. CASE j \in DOMAIN sc[s].symbols
      BY <1>16, <1>17, <1>19, <3>3, <3>4
    <3>5. CASE s = c /\ j = l + 1 /\ sc2[s].symbols[j] = n + 1
      BY <1>2, <1>8, <1>19, <3>5
    <3>6. QED
      BY <1>18, <3>3, <3>4, <3>5
  <2>2. \A d \in D2 : \E s \in DOMAIN sc2 : \E j \in DOMAIN sc2[s].symbols :
          sy2[sc2[s].symbols[j]] = SymbolOf(t, d)
    <3>1. TAKE d \in D2
    <3>2. CASE d \in D
      <4>1. PICK s \in DOMAIN sc : \E j \in DOMAIN sc[s].symbols : sy[sc[s].symbols[j]] = SymbolOf(t, d)
        BY <1>16, <3>2
      <4>2. PICK j \in DOMAIN sc[s].symbols : sy[sc[s].symbols[j]] = SymbolOf(t, d)
        BY <4>1
      <4>3. j \in DOMAIN sc2[s].symbols /\ sy2[sc2[s].symbols[j]] = sy[sc[s].symbols[j]]
        BY <1>17
      <4>4. QED
        BY <1>5, <4>2, <4>3
    <3>3. CASE SymbolOf(t, d) = x
      <4>1. l + 1 \in DOMAIN sc2[c].symbols /\ sc2[c].symbols[l + 1] = n + 1
        BY <1>13, <1>14, <1>15
      <4>2. QED
        BY <1>4, <1>5, <1>8, <3>3, <4>1
    <3>4. QED
      BY <3>2, <3>3 DEF Adds
  <2>3. \A m \in DOMAIN sy2 : \E b : Fits(t, sy2[m], b)
    <3>1. TAKE m \in DOMAIN sy2
    <3>2. m \in 1 .. n \/ m = n + 1
      BY <1>8
    <3>3. QED
      BY <1>2, <1>8, <1>16, <3>2
  <2>4. QED
    BY <2>1, <2>2, <2>3 DEF SymbolsFit
<1>21. QED
  BY <1>2, <1>3, <1>5, <1>9, <1>20 DEF Collected, Kept

(* So does the scope of a body that begins in the body of the current       *)
(* scope.                                                                   *)
LEMMA Enters ==
  ASSUME NEW t, NEW ix, NEW of, NEW S, NEW D, Collected(t, ix, of, S, D), ix.current \in DOMAIN of,
         NEW k \in Nat, k \in Begun(t), k \notin Loopers(t), Under(S, k), k # 0, NEW T, T = S \cup {k},
         of[ix.current] = ScopeIn(t, k),
         NEW span, span = ScopeSpan(t, k), span \in [start : Int, end : Int],
         NEW new, new = Enter(ix, span),
         NEW of2, of2 = Append(of, k)
  PROVE  Entering(t, new, of, of2, T, D, k)
<1>1. ix \in IndexSet /\ ScopesFit(t, ix.scopes, of, S) /\ SymbolsFit(t, ix.scopes, ix.symbols, of, D)
  BY DEF Collected
<1>2. PICK sc, sy, c : sc = ix.scopes /\ sy = ix.symbols /\ c = ix.current
  OBVIOUS
<1>3. PICK v : v = [parent |-> c, symbols |-> <<>>, span |-> span]
  OBVIOUS
<1>4. v.parent = c /\ v.symbols = <<>> /\ v.span = span
  BY <1>3
<1>5. sc \in Seq(ScopeSet) /\ c \in Nat
  BY <1>1, <1>2 DEF IndexSet
<1>6. v \in ScopeSet
  BY <1>3, <1>5 DEF ScopeSet
<1>7. PICK sc2 : sc2 = Append(sc, v)
  OBVIOUS
<1>8. PICK n \in Nat : n = Len(sc) /\ DOMAIN sc = 1 .. n
  BY <1>5, LenProperties
<1>9. new \in IndexSet /\ new.current = n + 1 /\ new.symbols = sy /\ new.scopes = sc2
  BY <1>1, <1>2, <1>3, <1>7, <1>8, EnterIs
<1>10. /\ Len(sc2) = n + 1 /\ DOMAIN sc2 = 1 .. (n + 1)
       /\ sc2[n + 1] = v /\ \A s \in 1 .. n : sc2[s] = sc[s]
  BY <1>5, <1>6, <1>7, <1>8, AppendProperties
<1>11. of \in Seq(Nat) /\ Len(of) = n /\ 1 \in DOMAIN of /\ DOMAIN of = 1 .. n
  <2>1. of \in Seq(Nat) /\ Len(of) = n /\ 1 \in DOMAIN of
    BY <1>1, <1>2, <1>8 DEF ScopesFit
  <2>2. QED
    BY <2>1, LenProperties
<1>12. /\ of2 \in Seq(Nat) /\ Len(of2) = n + 1 /\ DOMAIN of2 = 1 .. (n + 1)
       /\ of2[n + 1] = k /\ \A s \in 1 .. n : of2[s] = of[s]
  BY <1>11, AppendProperties
<1>13. c \in 1 .. n /\ n >= 1
  BY <1>2, <1>11
<1>14. S \subseteq Begun(t) \ Loopers(t)
  BY <1>1 DEF ScopesFit
<1>15. \A s \in 1 .. n : \/ s = 1 /\ of[s] = 0 /\ sc[s].parent = 0 /\ sc[s].span = Span(0, -1)
                         \/ /\ s # 1 /\ of[s] \in S /\ sc[s].span = ScopeSpan(t, of[s])
                            /\ sc[s].parent \in 1 .. (s - 1) /\ of[sc[s].parent] = ScopeIn(t, of[s])
  BY <1>1, <1>2, <1>11 DEF ScopesFit
<1>16. \A s \in DOMAIN of2 :
          \/ s = 1 /\ of2[s] = 0 /\ sc2[s].parent = 0 /\ sc2[s].span = Span(0, -1)
          \/ /\ s # 1 /\ of2[s] \in S \cup {k} /\ sc2[s].span = ScopeSpan(t, of2[s])
             /\ sc2[s].parent \in 1 .. (s - 1) /\ of2[sc2[s].parent] = ScopeIn(t, of2[s])
  <2>1. TAKE s \in DOMAIN of2
  <2>2. s \in 1 .. n \/ s = n + 1
    BY <1>12
  <2>3. CASE s = n + 1
    <3>1. s # 1 /\ c \in 1 .. (s - 1)
      BY <1>13, <2>3
    <3>2. of2[c] = ScopeIn(t, k)
      BY <1>2, <1>12, <1>13
    <3>3. QED
      BY <1>4, <1>10, <1>12, <2>3, <3>1, <3>2
  <2>4. CASE s \in 1 .. n
    <3>1. of2[s] = of[s] /\ sc2[s] = sc[s]
      BY <1>10, <1>12, <2>4
    <3>2. CASE s = 1 /\ of[s] = 0 /\ sc[s].parent = 0 /\ sc[s].span = Span(0, -1)
      BY <3>1, <3>2
    <3>3. CASE /\ s # 1 /\ of[s] \in S /\ sc[s].span = ScopeSpan(t, of[s])
               /\ sc[s].parent \in 1 .. (s - 1) /\ of[sc[s].parent] = ScopeIn(t, of[s])
      <4>1. sc[s].parent \in 1 .. n
        BY <1>8, <2>4, <3>3
      <4>2. of2[sc[s].parent] = of[sc[s].parent]
        BY <1>12, <4>1
      <4>3. QED
        BY <3>1, <3>3, <4>2
    <3>4. QED
      BY <1>15, <2>4, <3>2, <3>3
  <2>5. QED
    BY <2>2, <2>3, <2>4
<1>17. \A s, r \in DOMAIN of2 : s < r => of2[s] < of2[r]
  <2>1. TAKE s, r \in DOMAIN of2
  <2>2. SUFFICES ASSUME s < r PROVE of2[s] < of2[r]
    OBVIOUS
  <2>3. s \in 1 .. n /\ (r \in 1 .. n \/ r = n + 1)
    BY <1>12, <2>2
  <2>4. CASE r \in 1 .. n
    <3>1. of[s] < of[r]
      BY <1>1, <1>11, <2>2, <2>3, <2>4 DEF ScopesFit
    <3>2. QED
      BY <1>12, <2>3, <2>4, <3>1
  <2>5. CASE r = n + 1
    <3>1. of[s] = 0 \/ of[s] \in S
      BY <1>15, <2>3
    <3>2. of[s] < k
      BY <3>1 DEF Under
    <3>3. QED
      BY <1>12, <2>3, <2>5, <3>2
  <2>6. QED
    BY <2>3, <2>4, <2>5
<1>18. \A b \in S \cup {k} : \E s \in DOMAIN of2 : of2[s] = b
  <2>1. \A b \in S : \E s \in 1 .. n : of[s] = b
    BY <1>1, <1>11 DEF ScopesFit
  <2>2. n + 1 \in DOMAIN of2 /\ \A s \in 1 .. n : s \in DOMAIN of2
    BY <1>12
  <2>3. QED
    BY <1>12, <2>1, <2>2
<1>19. 1 \in DOMAIN of2
  BY <1>12
<1>20. ScopesFit(t, sc2, of2, S \cup {k})
  BY <1>10, <1>12, <1>14, <1>16, <1>17, <1>18, <1>19 DEF ScopesFit
<1>21. SymbolsFit(t, sc2, sy, of2, D)
  <2>1. SymbolsFit(t, sc, sy, of, D)
    BY <1>1, <1>2
  <2>2. \A s \in DOMAIN sc2 : \A j \in DOMAIN sc2[s].symbols : s \in 1 .. n /\ sc2[s] = sc[s] /\ of2[s] = of[s]
    <3>1. TAKE s \in DOMAIN sc2
    <3>2. TAKE j \in DOMAIN sc2[s].symbols
    <3>3. s # n + 1
      <4>1. SUFFICES ASSUME s = n + 1 PROVE FALSE
        OBVIOUS
      <4>2. sc2[s].symbols = <<>>
        BY <1>4, <1>10, <4>1
      <4>3. QED
        BY <3>2, <4>2
    <3>4. s \in 1 .. n
      BY <1>10, <3>3
    <3>5. QED
      BY <1>10, <1>12, <3>4
  <2>3. \A s \in 1 .. n : s \in DOMAIN sc2 /\ sc2[s] = sc[s]
    BY <1>10
  <2>4. \A s \in DOMAIN sc2 : \A j \in DOMAIN sc2[s].symbols :
          sc2[s].symbols[j] \in DOMAIN sy /\ Fits(t, sy[sc2[s].symbols[j]], of2[s])
    <3>1. \A s \in 1 .. n : \A j \in DOMAIN sc[s].symbols :
            sc[s].symbols[j] \in DOMAIN sy /\ Fits(t, sy[sc[s].symbols[j]], of[s])
      BY <1>8, <2>1 DEF SymbolsFit
    <3>2. TAKE s \in DOMAIN sc2
    <3>3. TAKE j \in DOMAIN sc2[s].symbols
    <3>4. s \in 1 .. n /\ sc2[s] = sc[s] /\ of2[s] = of[s]
      BY <2>2
    <3>5. QED
      BY <3>1, <3>4
  <2>5. \A d \in D : \E s \in DOMAIN sc2 : \E j \in DOMAIN sc2[s].symbols :
            sy[sc2[s].symbols[j]] = SymbolOf(t, d)
    <3>1. TAKE d \in D
    <3>2. PICK s \in 1 .. n : \E j \in DOMAIN sc[s].symbols : sy[sc[s].symbols[j]] = SymbolOf(t, d)
      BY <1>8, <2>1 DEF SymbolsFit
    <3>3. QED
      BY <2>3, <3>2
  <2>6. QED
    BY <2>1, <2>4, <2>5 DEF SymbolsFit
<1>22. Collected(t, new, of2, S \cup {k}, D)
  BY <1>9, <1>20, <1>21 DEF Collected
<1>23. n + 1 \in 1 .. (n + 1) /\ \A s \in 1 .. n : s \in 1 .. (n + 1)
  OBVIOUS
<1>24. Extends(of, of2)
  BY <1>11, <1>12, <1>23 DEF Extends
<1>25. QED
  BY <1>9, <1>10, <1>12, <1>22, <1>23, <1>24 DEF Entering

(* Declarations, mentions and the functions of lambdas among the symbols.   *)
LEMMA Places ==
  ASSUME NEW i \in Int
  PROVE  /\ Place(i, 0) \in Int /\ Place(i, 1) \in Int /\ Place(i, 3) \in Int
         /\ Place(i, 1) # Place(i, 3) /\ Place(i, 0) # Place(i, 3)
BY DEF Place, Width

(* What a declaration of a text is. *)
LEMMA DeclaredParts ==
  ASSUME NEW t, t \in Seq(Item), NEW d \in DeclaredIn(t)
  PROVE  /\ d.item \in 1 .. Len(t) /\ d.item \in Nat
         /\ d.place \in Int /\ d.name \in Name \cup {Literal}
         /\ d = [name |-> d.name, place |-> d.place, item |-> d.item]
         /\ \/ /\ d.place = Place(d.item, 1) /\ d.name = t[d.item].name
               /\ t[d.item].op \in {"let", "fn", "lambda", "for", "class"}
            \/ /\ d.place = Place(d.item, 3) /\ d.name = t[d.item].other
               /\ t[d.item].op \in {"fn", "lambda"}
         /\ KindOf(t, d) \in {"definition", "function", "class", "argument"}
<1>1. Len(t) \in Nat /\ \A i \in 1 .. Len(t) : t[i].name \in Name \cup {Literal} /\ t[i].other \in Name \cup {Literal}
  BY TextParts
<1>2. KindOf(t, d) \in {"definition", "function", "class", "argument"}
  BY DEF KindOf
<1>3. CASE \E i \in {j \in 1 .. Len(t) : t[j].op \in {"let", "fn", "lambda", "for", "class"}} :
             d = [name |-> t[i].name, place |-> Place(i, 1), item |-> i]
  <2>1. PICK i \in 1 .. Len(t) : /\ t[i].op \in {"let", "fn", "lambda", "for", "class"}
                                 /\ d = [name |-> t[i].name, place |-> Place(i, 1), item |-> i]
    BY <1>3
  <2>2. PICK a, p : a = t[i].name /\ p = Place(i, 1) /\ d = [name |-> a, place |-> p, item |-> i]
    BY <2>1
  <2>3. d.name = a /\ d.place = p /\ d.item = i
    BY <2>2
  <2>4. i \in Nat /\ Place(i, 1) \in Int
    BY <1>1, Places
  <2>5. QED
    BY <1>1, <1>2, <2>1, <2>2, <2>3, <2>4
<1>4. CASE \E i \in {j \in 1 .. Len(t) : t[j].op \in {"fn", "lambda"} /\ t[j].other # Literal} :
             d = [name |-> t[i].other, place |-> Place(i, 3), item |-> i]
  <2>1. PICK i \in 1 .. Len(t) : /\ t[i].op \in {"fn", "lambda"}
                                 /\ d = [name |-> t[i].other, place |-> Place(i, 3), item |-> i]
    BY <1>4
  <2>2. PICK a, p : a = t[i].other /\ p = Place(i, 3) /\ d = [name |-> a, place |-> p, item |-> i]
    BY <2>1
  <2>3. d.name = a /\ d.place = p /\ d.item = i
    BY <2>2
  <2>4. i \in Nat /\ Place(i, 3) \in Int
    BY <1>1, Places
  <2>5. QED
    BY <1>1, <1>2, <2>1, <2>2, <2>3, <2>4
<1>5. QED
  BY <1>3, <1>4 DEF DeclaredIn

(* The symbol of a declaration fits the scope of its body. *)
LEMMA Declares ==
  ASSUME NEW t, t \in Seq(Item), NEW ix, NEW of, NEW S, NEW D, Collected(t, ix, of, S, D),
         ix.current \in DOMAIN ix.scopes,
         NEW d \in DeclaredIn(t), Home(t, d) = of[ix.current],
         NEW name, NEW kind, NEW place, NEW item,
         name = d.name, kind = KindOf(t, d), place = d.place, item = d.item,
         NEW new, new = Define(ix, name, kind, place, item),
         NEW D2, AddsOnly(D2, D, d)
  PROVE  Kept(t, ix, new, of, S, D2)
<1>1. CASE name = Literal
  <2>1. new = ix
    BY <1>1 DEF Define
  <2>2. \A e \in D2 : e \in D
    BY <1>1 DEF AddsOnly
  <2>3. Collected(t, new, of, S, D2)
    BY <2>1, <2>2 DEF Collected, SymbolsFit
  <2>4. QED
    BY <2>1, <2>3 DEF Kept
<1>2. CASE name # Literal
  <2>1. PICK x : x = [name |-> name, kind |-> kind, place |-> place, item |-> item]
    OBVIOUS
  <2>2. x \in SymbolSet
    <3>1. name \in Name /\ kind \in {"definition", "function", "class", "argument"} /\ place \in Int /\ item \in Nat
      BY <1>2, DeclaredParts
    <3>2. QED
      BY <2>1, <3>1 DEF SymbolSet
  <2>3. SymbolOf(t, d) = x
    BY <2>1 DEF SymbolOf
  <2>4. Fits(t, x, of[ix.current])
    BY <2>3 DEF Fits, Declaring
  <2>5. Adds(t, D2, D, x)
    BY <2>3 DEF Adds, AddsOnly
  <2>6. new = Define(ix, name, kind, place, item) /\ Collected(t, ix, of, S, D) /\ ix.current \in DOMAIN ix.scopes
    OBVIOUS
  <2>7. QED
    BY <1>2, <2>1, <2>2, <2>4, <2>5, <2>6, Defines
<1>3. QED
  BY <1>1, <1>2

(* The symbol of a use fits any scope. *)
LEMMA Mentioned ==
  ASSUME NEW t, t \in Seq(Item), NEW ix, NEW of, NEW S, NEW D, Collected(t, ix, of, S, D),
         ix.current \in DOMAIN ix.scopes,
         NEW i \in 1 .. Len(t), t[i].op \in Mentions,
         NEW name \in Name \cup {Literal}, NEW place \in {Place(i, 0), Place(i, 3)},
         NEW new, new = Define(ix, name, "variable", place, i)
  PROVE  Kept(t, ix, new, of, S, D)
<1>1. CASE name = Literal
  BY <1>1 DEF Define, Kept
<1>2. CASE name # Literal
  <2>1. PICK x, kind : kind = "variable" /\ x = [name |-> name, kind |-> kind, place |-> place, item |-> i]
    OBVIOUS
  <2>2. x.name = name /\ x.kind = kind /\ x.place = place /\ x.item = i
    BY <2>1
  <2>3. i \in Nat /\ place \in Int /\ name \in Name
    BY <1>2, TextParts, Places
  <2>4. x \in SymbolSet
    BY <2>1, <2>3 DEF SymbolSet
  <2>5. Fits(t, x, of[ix.current])
    BY <2>1, <2>2, <2>3 DEF Fits, Usage
  <2>6. new = Define(ix, name, kind, place, i)
    BY <2>1
  <2>7. Adds(t, D, D, x)
    BY DEF Adds
  <2>8. QED
    BY <1>2, <2>1, <2>4, <2>5, <2>6, <2>7, Defines
<1>3. QED
  BY <1>1, <1>2

(* So does the function of a lambda, whose name no text mentions. *)
LEMMA Hides ==
  ASSUME NEW t, NEW ix, NEW of, NEW S, NEW D, Collected(t, ix, of, S, D),
         ix.current \in DOMAIN ix.scopes, NEW i \in Nat,
         NEW new, new = Define(ix, Hidden, "function", 0, i)
  PROVE  Kept(t, ix, new, of, S, D)
<1>1. CASE Hidden = Literal
  BY <1>1 DEF Define, Kept
<1>2. CASE Hidden # Literal
  <2>1. PICK x, name, kind, place : name = Hidden /\ kind = "function" /\ place = 0
                                    /\ x = [name |-> name, kind |-> kind, place |-> place, item |-> i]
    OBVIOUS
  <2>2. x.name = name /\ x.kind = kind
    BY <2>1
  <2>3. x \in SymbolSet
    BY <2>1 DEF SymbolSet
  <2>4. Fits(t, x, of[ix.current])
    BY <2>1, <2>2 DEF Fits
  <2>5. new = Define(ix, name, kind, place, i)
    BY <2>1
  <2>6. Adds(t, D, D, x)
    BY DEF Adds
  <2>7. QED
    BY <1>2, <2>1, <2>3, <2>4, <2>5, <2>6, Defines
<1>3. QED
  BY <1>1, <1>2

-----------------------------------------------------------------------------
(***************************************************************************)
(* Where the walk is.                                                      *)
(***************************************************************************)

CurrentIn(t, k) == Max({0} \cup (Before(Begun(t), Closers(t), k) \ Loopers(t)))
EnteredIn(t, k) == Entered(Begun(t), Ended(t), Closers(t), k)
ScopedBefore(t, k) == {b \in Begun(t) \ Loopers(t) : b < k}
DeclaredBefore(t, k) == {d \in DeclaredIn(t) : d.item < k /\ d.name # Literal}

PendingFits(t, k, bodies, of) ==
  /\ bodies \in Seq([item : Nat, parent : Nat])
  /\ \A i, j \in DOMAIN bodies : i < j => bodies[i].item < bodies[j].item
  /\ \A j \in DOMAIN bodies : /\ bodies[j].item \in EnteredIn(t, k)
                              /\ bodies[j].parent \in DOMAIN of
                              /\ of[bodies[j].parent] = ScopeIn(t, bodies[j].item)
  /\ \A a \in EnteredIn(t, k) : \E j \in DOMAIN bodies : bodies[j].item = a

Walked(t, k, ix, bodies) ==
  \E of : /\ Collected(t, ix, of, ScopedBefore(t, k), DeclaredBefore(t, k))
          /\ ix.current \in DOMAIN of /\ of[ix.current] = CurrentIn(t, k)
          /\ PendingFits(t, k, bodies, of)

(* What an item does to the body of the current scope. *)
LEMMA CurrentMoves ==
  ASSUME NEW t, Formed(t), NEW k \in 1 .. Len(t)
  PROVE  /\ k \notin Ended(t) => CurrentIn(t, k) = ScopeIn(t, k)
         /\ k \notin Begun(t) /\ k \notin Ended(t) => CurrentIn(t, k + 1) = CurrentIn(t, k)
         /\ k \in Begun(t) \ Loopers(t) => CurrentIn(t, k + 1) = k
         /\ k \in Loopers(t) => CurrentIn(t, k + 1) = CurrentIn(t, k)
         /\ k \notin Begun(t) => CurrentIn(t, k + 1) = ScopeIn(t, k)
         /\ \A a \in Loopers(t) : k \notin Begun(t) /\ Closer(t, a) = k => CurrentIn(t, k + 1) = CurrentIn(t, k)
<1>1. PICK n, B, E, If, Cl, L : n = Len(t) /\ B = Begun(t) /\ E = Ended(t) /\ If = Ifs(t) /\ Cl = Closers(t) /\ L = Loopers(t)
  OBVIOUS
<1>2. Nesting(n, B, E, If, Cl) /\ k \in 1 .. n
  BY <1>1, Nests
<1>3. L \subseteq B /\ L \cap E = {}
  BY <1>1 DEF Loopers, Begun, Ended, Loops, Beginners, Opens
<1>4. CurrentIn(t, k) = Max({0} \cup (Before(B, Cl, k) \ L)) /\ CurrentIn(t, k + 1) = Max({0} \cup (Before(B, Cl, k + 1) \ L))
  BY <1>1 DEF CurrentIn
<1>5. ScopeIn(t, k) = Max({0} \cup (Around(B, Cl, k) \ L))
  BY <1>1 DEF ScopeIn, Outer
<1>6. /\ k \notin E => Before(B, Cl, k) = Around(B, Cl, k)
      /\ k \notin B => Before(B, Cl, k + 1) = Around(B, Cl, k)
      /\ k \in B => Before(B, Cl, k + 1) = Around(B, Cl, k) \cup {k}
  BY <1>2, BeforeParts
<1>7. k \notin E => CurrentIn(t, k) = ScopeIn(t, k)
  BY <1>4, <1>5, <1>6
<1>8. k \notin B => CurrentIn(t, k + 1) = ScopeIn(t, k)
  BY <1>4, <1>5, <1>6
<1>9. ASSUME k \in B \ L PROVE CurrentIn(t, k + 1) = k
  <2>1. PICK S : S = {0} \cup (Before(B, Cl, k + 1) \ L)
    OBVIOUS
  <2>2. k \in S
    BY <1>6, <1>9, <2>1
  <2>3. n \in Nat /\ \A b \in B : b \in 0 .. n
    BY <1>2 DEF Nesting
  <2>4. \A x \in S : x = 0 \/ (x \in B /\ x < k + 1)
    BY <2>1 DEF Before
  <2>5. S \subseteq 0 .. n /\ \A x \in S : x <= k /\ x \in Int
    <3>1. \A x \in S : x \in 0 .. n /\ (x = 0 \/ x < k + 1)
      BY <2>3, <2>4
    <3>2. QED
      BY <1>2, <2>3, <3>1
  <2>6. Max(S) \in S /\ \A x \in S : Max(S) >= x
    BY <2>2, <2>3, <2>5, Greatest
  <2>7. PICK m : m = Max(S)
    OBVIOUS
  <2>8. m <= k /\ m >= k /\ m \in Int
    BY <2>2, <2>5, <2>6, <2>7
  <2>9. QED
    BY <1>2, <1>4, <2>1, <2>7, <2>8
<1>10. ASSUME k \in L PROVE CurrentIn(t, k + 1) = CurrentIn(t, k)
  <2>1. k \in B /\ k \notin E
    BY <1>3, <1>10
  <2>2. Before(B, Cl, k + 1) \ L = Before(B, Cl, k) \ L
    BY <1>6, <1>10, <2>1
  <2>3. QED
    BY <1>4, <2>2
<1>11. ASSUME NEW a \in L, k \notin B, Cl[a] = k
       PROVE  CurrentIn(t, k + 1) = CurrentIn(t, k)
  <2>1. Before(B, Cl, k + 1) = Around(B, Cl, k)
    BY <1>6, <1>11
  <2>2. Before(B, Cl, k) \ L = Around(B, Cl, k) \ L
    <3>1. \A b \in B : k = Cl[b] => b = a
      BY <1>2, <1>3, <1>11, ClosedOnce
    <3>2. \A b \in B : k <= Cl[b] <=> k < Cl[b] \/ k = Cl[b]
      <4>1. \A b \in B : Cl[b] \in Int
        <5>1. \A b \in B : Cl[b] \in E
          BY <1>2 DEF Nesting
        <5>2. \A e \in E : e \in Int
          BY <1>2 DEF Nesting
        <5>3. QED
          BY <5>1, <5>2
      <4>2. QED
        BY <4>1
    <3>3. QED
      BY <1>11, <3>1, <3>2 DEF Before, Around
  <2>3. QED
    BY <1>4, <2>1, <2>2
<1>12. \A a \in L : Closer(t, a) = Cl[a]
  BY <1>1 DEF Closers, Loopers, Begun
<1>13. QED
  BY <1>1, <1>7, <1>8, <1>9, <1>10, <1>11, <1>12

(* What is in shape for some declarations is so for fewer. *)
LEMMA Fewer ==
  ASSUME NEW t, NEW ix, NEW of, NEW S, NEW D, Collected(t, ix, of, S, D), NEW D2, D2 \subseteq D
  PROVE  Collected(t, ix, of, S, D2)
<1>1. SymbolsFit(t, ix.scopes, ix.symbols, of, D2)
  BY DEF Collected, SymbolsFit
<1>2. QED
  BY <1>1 DEF Collected

(* What item k declares.                                                    *)
NamedHere(t, k) == [name |-> t[k].name, place |-> Place(k, 1), item |-> k]
ArguedHere(t, k) == [name |-> t[k].other, place |-> Place(k, 3), item |-> k]
Declarers == {"let", "fn", "lambda", "for", "class"}
Mute(D) == {d \in D : d.name # Literal}

(* The parts of the declaration of a name. *)
LEMMA NamedParts ==
  ASSUME NEW t, NEW k
  PROVE  NamedHere(t, k).name = t[k].name /\ NamedHere(t, k).place = Place(k, 1) /\ NamedHere(t, k).item = k
<1>1. PICK a, p : a = t[k].name /\ p = Place(k, 1)
  OBVIOUS
<1>2. NamedHere(t, k) = [name |-> a, place |-> p, item |-> k]
  BY <1>1 DEF NamedHere
<1>3. QED
  BY <1>1, <1>2

(* The parts of the declaration of an argument. *)
LEMMA ArguedParts ==
  ASSUME NEW t, NEW k
  PROVE  ArguedHere(t, k).name = t[k].other /\ ArguedHere(t, k).place = Place(k, 3) /\ ArguedHere(t, k).item = k
<1>1. PICK a, p : a = t[k].other /\ p = Place(k, 3)
  OBVIOUS
<1>2. ArguedHere(t, k) = [name |-> a, place |-> p, item |-> k]
  BY <1>1 DEF ArguedHere
<1>3. QED
  BY <1>1, <1>2

(* An item declares its name and its argument, and nothing else. *)
LEMMA DeclaredHere ==
  ASSUME NEW t, t \in Seq(Item), NEW k \in 1 .. Len(t)
  PROVE  /\ t[k].op \in Declarers => /\ NamedHere(t, k) \in DeclaredIn(t)
                                     /\ Home(t, NamedHere(t, k)) = ScopeIn(t, k)
                                     /\ KindOf(t, NamedHere(t, k)) = NameKind(t, k)
         /\ t[k].op \in {"fn", "lambda"} /\ t[k].other # Literal =>
              /\ ArguedHere(t, k) \in DeclaredIn(t)
              /\ Home(t, ArguedHere(t, k)) = k
              /\ KindOf(t, ArguedHere(t, k)) = "argument"
         /\ \A d \in DeclaredIn(t) : d.item = k =>
              \/ d = NamedHere(t, k) /\ t[k].op \in Declarers
              \/ d = ArguedHere(t, k) /\ t[k].op \in {"fn", "lambda"} /\ t[k].other # Literal
<1>1. k \in Int /\ Place(k, 1) # Place(k, 3)
  BY TextParts, Places
<1>2. ASSUME t[k].op \in Declarers
      PROVE  /\ NamedHere(t, k) \in DeclaredIn(t)
             /\ Home(t, NamedHere(t, k)) = ScopeIn(t, k)
             /\ KindOf(t, NamedHere(t, k)) = NameKind(t, k)
  <2>1. NamedHere(t, k) \in DeclaredIn(t)
    <3>1. k \in {j \in 1 .. Len(t) : t[j].op \in {"let", "fn", "lambda", "for", "class"}}
      BY <1>2 DEF Declarers
    <3>2. QED
      BY <3>1 DEF NamedHere, DeclaredIn
  <2>2. PICK d : d = NamedHere(t, k) /\ d.place = Place(k, 1) /\ d.item = k
    BY NamedParts
  <2>3. QED
    BY <1>1, <2>1, <2>2 DEF Home, KindOf, NameKind
<1>3. ASSUME t[k].op \in {"fn", "lambda"}, t[k].other # Literal
      PROVE  /\ ArguedHere(t, k) \in DeclaredIn(t)
             /\ Home(t, ArguedHere(t, k)) = k
             /\ KindOf(t, ArguedHere(t, k)) = "argument"
  <2>1. ArguedHere(t, k) \in DeclaredIn(t)
    <3>1. k \in {j \in 1 .. Len(t) : t[j].op \in {"fn", "lambda"} /\ t[j].other # Literal}
      BY <1>3
    <3>2. QED
      BY <3>1 DEF ArguedHere, DeclaredIn
  <2>2. PICK d : d = ArguedHere(t, k) /\ d.place = Place(k, 3) /\ d.item = k
    BY ArguedParts
  <2>3. QED
    BY <2>1, <2>2 DEF Home, KindOf
<1>4. ASSUME NEW d \in DeclaredIn(t), d.item = k
      PROVE  \/ d = NamedHere(t, k) /\ t[k].op \in Declarers
             \/ d = ArguedHere(t, k) /\ t[k].op \in {"fn", "lambda"} /\ t[k].other # Literal
  <2>1. CASE \E i \in {j \in 1 .. Len(t) : t[j].op \in {"let", "fn", "lambda", "for", "class"}} :
               d = [name |-> t[i].name, place |-> Place(i, 1), item |-> i]
    <3>1. PICK i \in 1 .. Len(t) : t[i].op \in Declarers /\ d = NamedHere(t, i)
      BY <2>1 DEF NamedHere, Declarers
    <3>2. i = k
      BY <1>4, <3>1, NamedParts
    <3>3. QED
      BY <3>1, <3>2
  <2>2. CASE \E i \in {j \in 1 .. Len(t) : t[j].op \in {"fn", "lambda"} /\ t[j].other # Literal} :
               d = [name |-> t[i].other, place |-> Place(i, 3), item |-> i]
    <3>1. PICK i \in 1 .. Len(t) : t[i].op \in {"fn", "lambda"} /\ t[i].other # Literal /\ d = ArguedHere(t, i)
      BY <2>2 DEF ArguedHere
    <3>2. i = k
      BY <1>4, <3>1, ArguedParts
    <3>3. QED
      BY <3>1, <3>2
  <2>3. QED
    BY <2>1, <2>2 DEF DeclaredIn
<1>5. QED
  BY <1>2, <1>3, <1>4

(* The walk declares the name of an item. *)
LEMMA DeclaresName ==
  ASSUME NEW t, t \in Seq(Item), NEW ix, NEW of, NEW S, NEW D, Collected(t, ix, of, S, D),
         ix.current \in DOMAIN ix.scopes,
         NEW k \in 1 .. Len(t), t[k].op \in Declarers, of[ix.current] = ScopeIn(t, k),
         NEW kind, kind = NameKind(t, k),
         NEW name, name = t[k].name, NEW place, place = Place(k, 1),
         NEW new, new = Define(ix, name, kind, place, k),
         NEW F, F = D \cup Mute({NamedHere(t, k)})
  PROVE  Kept(t, ix, new, of, S, F)
<1>1. PICK d : d = NamedHere(t, k)
  OBVIOUS
<1>2. d \in DeclaredIn(t) /\ Home(t, d) = of[ix.current] /\ kind = KindOf(t, d)
  BY <1>1, DeclaredHere
<1>3. PICK item : item = d.item
  OBVIOUS
<1>4. new = Define(ix, name, kind, place, item) /\ name = d.name /\ place = d.place
  BY <1>1, <1>3, NamedParts
<1>5. PICK D2 : D2 = D \cup Mute({d})
  OBVIOUS
<1>6. AddsOnly(D2, D, d)
  BY <1>5 DEF Mute, AddsOnly
<1>7. Kept(t, ix, new, of, S, D2)
  BY <1>2, <1>3, <1>4, <1>6, Declares
<1>8. QED
  BY <1>1, <1>5, <1>7

(* It declares the argument in the scope of the function. *)
LEMMA DeclaresArgument ==
  ASSUME NEW t, t \in Seq(Item), NEW ix, NEW of, NEW S, NEW D, Collected(t, ix, of, S, D),
         ix.current \in DOMAIN ix.scopes,
         NEW k \in 1 .. Len(t), t[k].op \in {"fn", "lambda"}, of[ix.current] = k,
         NEW name, name = t[k].other, NEW place, place = Place(k, 3),
         NEW new, new = Define(ix, name, "argument", place, k),
         NEW F, F = D \cup Mute({ArguedHere(t, k)})
  PROVE  Kept(t, ix, new, of, S, F)
<1>1. PICK d : d = ArguedHere(t, k)
  OBVIOUS
<1>2. CASE t[k].other = Literal
  <2>1. new = ix
    BY <1>2 DEF Define
  <2>2. Mute({d}) = {}
    BY <1>1, <1>2, ArguedParts DEF Mute
  <2>3. F = D
    BY <1>1, <2>2
  <2>4. QED
    BY <2>1, <2>3 DEF Kept
<1>3. CASE t[k].other # Literal
  <2>1. PICK kind : kind = "argument"
    OBVIOUS
  <2>2. d \in DeclaredIn(t) /\ Home(t, d) = of[ix.current] /\ kind = KindOf(t, d)
    BY <1>1, <1>3, <2>1, DeclaredHere
  <2>3. PICK item : item = d.item
    OBVIOUS
  <2>4. new = Define(ix, name, kind, place, item) /\ name = d.name /\ place = d.place
    BY <1>1, <2>1, <2>3, ArguedParts
  <2>5. PICK D2 : D2 = D \cup Mute({d})
    OBVIOUS
  <2>6. AddsOnly(D2, D, d)
    BY <2>5 DEF Mute, AddsOnly
  <2>7. Kept(t, ix, new, of, S, D2)
    BY <2>2, <2>3, <2>4, <2>6, Declares
  <2>8. QED
    BY <1>1, <2>5, <2>7
<1>4. QED
  BY <1>2, <1>3

(* What the items up to k declare, one more.                                *)
LEMMA NextDeclared ==
  ASSUME NEW t, t \in Seq(Item), NEW k \in 1 .. Len(t)
  PROVE  /\ t[k].op \notin Declarers => DeclaredBefore(t, k + 1) \subseteq DeclaredBefore(t, k)
         /\ t[k].op \notin {"fn", "lambda"} =>
              DeclaredBefore(t, k + 1) \subseteq DeclaredBefore(t, k) \cup Mute({NamedHere(t, k)})
         /\ DeclaredBefore(t, k + 1) \subseteq
              DeclaredBefore(t, k) \cup Mute({NamedHere(t, k)}) \cup Mute({ArguedHere(t, k)})
         /\ ScopedBefore(t, k + 1) = IF k \in Begun(t) \ Loopers(t) THEN ScopedBefore(t, k) \cup {k} ELSE ScopedBefore(t, k)
<1>1. Len(t) \in Nat /\ k \in Int
  BY TextParts
<1>2. \A d \in DeclaredBefore(t, k + 1) :
        \/ d \in DeclaredBefore(t, k)
        \/ d.name # Literal /\ d = NamedHere(t, k) /\ t[k].op \in Declarers
        \/ d.name # Literal /\ d = ArguedHere(t, k) /\ t[k].op \in {"fn", "lambda"}
  <2>1. TAKE d \in DeclaredBefore(t, k + 1)
  <2>2. d \in DeclaredIn(t) /\ d.item < k + 1 /\ d.name # Literal
    BY DEF DeclaredBefore
  <2>3. d.item \in Nat
    BY <2>2, DeclaredParts
  <2>4. d.item < k \/ d.item = k
    BY <1>1, <2>2, <2>3
  <2>5. QED
    BY <2>2, <2>4, DeclaredHere DEF DeclaredBefore
<1>3. \A b \in Begun(t) : b < k + 1 <=> b < k \/ b = k
  <2>1. \A b \in Begun(t) : b \in Int
    BY <1>1 DEF Begun
  <2>2. QED
    BY <1>1, <2>1
<1>4. "fn" \in Declarers /\ "lambda" \in Declarers
  BY DEF Declarers
<1>5. QED
  BY <1>2, <1>3, <1>4 DEF Mute, ScopedBefore

PendingBody == [item : Nat, parent : Nat]

(* An item that opens no statement and closes none leaves the bodies        *)
(* pending.                                                                 *)
LEMMA PendingStays ==
  ASSUME NEW t, NEW k, NEW bodies, NEW of, PendingFits(t, k, bodies, of),
         NEW of2, Extends(of, of2), EnteredIn(t, k + 1) = EnteredIn(t, k)
  PROVE  PendingFits(t, k + 1, bodies, of2)
BY DEF PendingFits, Extends

(* Statements that are open began before the item. *)
LEMMA EnteredNumbers ==
  ASSUME NEW t, t \in Seq(Item), NEW k, NEW a \in EnteredIn(t, k)
  PROVE  a \in Nat /\ a < k /\ a \in 1 .. Len(t)
<1>1. Len(t) \in Nat
  BY TextParts
<1>2. a \in Begun(t) /\ a < k
  BY DEF EnteredIn, Entered
<1>3. QED
  BY <1>1, <1>2 DEF Begun

(* An item that opens a statement adds a pending body. *)
LEMMA PendingMore ==
  ASSUME NEW t, t \in Seq(Item), NEW k \in Nat, NEW bodies, NEW of, PendingFits(t, k, bodies, of),
         NEW of2, Extends(of, of2), EnteredIn(t, k + 1) = EnteredIn(t, k) \cup {k},
         NEW p \in DOMAIN of, p \in Nat, of[p] = ScopeIn(t, k),
         NEW new, new = Append(bodies, [item |-> k, parent |-> p])
  PROVE  PendingFits(t, k + 1, new, of2)
<1>1. PICK b : b = [item |-> k, parent |-> p]
  OBVIOUS
<1>2. b \in PendingBody /\ b.item = k /\ b.parent = p
  BY <1>1 DEF PendingBody
<1>3. bodies \in Seq(PendingBody)
  BY DEF PendingFits, PendingBody
<1>4. PICK n \in Nat : n = Len(bodies) /\ DOMAIN bodies = 1 .. n
  BY <1>3, LenProperties
<1>5. /\ new \in Seq(PendingBody) /\ DOMAIN new = 1 .. (n + 1)
      /\ new[n + 1] = b /\ \A j \in 1 .. n : new[j] = bodies[j]
  BY <1>1, <1>2, <1>3, <1>4, AppendProperties
<1>6. \A j \in DOMAIN new : j \in 1 .. n \/ j = n + 1
  BY <1>5
<1>7. \A j \in 1 .. n : bodies[j].item \in EnteredIn(t, k) /\ bodies[j].item < k /\ bodies[j].parent \in DOMAIN of
                        /\ of[bodies[j].parent] = ScopeIn(t, bodies[j].item)
  <2>1. \A j \in 1 .. n : bodies[j].item \in EnteredIn(t, k) /\ bodies[j].parent \in DOMAIN of
                        /\ of[bodies[j].parent] = ScopeIn(t, bodies[j].item)
    BY <1>4 DEF PendingFits
  <2>2. \A a \in EnteredIn(t, k) : a < k
    BY EnteredNumbers
  <2>3. QED
    BY <2>1, <2>2
<1>8. \A i, j \in DOMAIN new : i < j => new[i].item < new[j].item
  <2>1. TAKE i, j \in DOMAIN new
  <2>2. SUFFICES ASSUME i < j PROVE new[i].item < new[j].item
    OBVIOUS
  <2>3. i \in 1 .. n
    BY <1>5, <2>2
  <2>4. CASE j \in 1 .. n
    <3>1. bodies[i].item < bodies[j].item
      BY <1>4, <2>2, <2>3, <2>4 DEF PendingFits
    <3>2. QED
      BY <1>5, <2>3, <2>4, <3>1
  <2>5. CASE j = n + 1
    BY <1>2, <1>5, <1>7, <2>3, <2>5
  <2>6. QED
    BY <1>6, <2>4, <2>5
<1>9. \A j \in DOMAIN new : /\ new[j].item \in EnteredIn(t, k + 1)
                            /\ new[j].parent \in DOMAIN of2
                            /\ of2[new[j].parent] = ScopeIn(t, new[j].item)
  <2>1. TAKE j \in DOMAIN new
  <2>2. CASE j = n + 1
    BY <1>2, <1>5, <2>2 DEF Extends
  <2>3. CASE j \in 1 .. n
    <3>1. new[j] = bodies[j]
      BY <1>5, <2>3
    <3>2. QED
      BY <1>7, <2>3, <3>1 DEF Extends
  <2>4. QED
    BY <1>6, <2>2, <2>3
<1>10. \A a \in EnteredIn(t, k + 1) : \E j \in DOMAIN new : new[j].item = a
  <2>1. TAKE a \in EnteredIn(t, k + 1)
  <2>2. CASE a = k
    <3>1. n + 1 \in DOMAIN new
      BY <1>5
    <3>2. QED
      BY <1>2, <1>5, <2>2, <3>1
  <2>3. CASE a \in EnteredIn(t, k)
    <3>1. PICK j \in 1 .. n : bodies[j].item = a
      BY <1>4, <2>3 DEF PendingFits
    <3>2. j \in DOMAIN new
      BY <1>5
    <3>3. QED
      BY <1>5, <3>1, <3>2
  <2>4. QED
    BY <2>2, <2>3
<1>11. QED
  BY <1>5, <1>8, <1>9, <1>10 DEF PendingFits, PendingBody

(* The last body is of the statement that begins last.                      *)
LEMMA PendingLast ==
  ASSUME NEW t, t \in Seq(Item), NEW k, NEW bodies, NEW of, PendingFits(t, k, bodies, of),
         NEW a \in EnteredIn(t, k), \A c \in EnteredIn(t, k) : c <= a
  PROVE  /\ Last(bodies).item = a /\ Last(bodies).parent \in DOMAIN of
         /\ of[Last(bodies).parent] = ScopeIn(t, a)
         /\ EnteredIn(t, k + 1) = EnteredIn(t, k) \ {a} => PendingFits(t, k + 1, Front(bodies), of)
<1>1. bodies \in Seq(PendingBody)
  BY DEF PendingFits, PendingBody
<1>2. PICK n \in Nat : n = Len(bodies) /\ DOMAIN bodies = 1 .. n
  BY <1>1, LenProperties
<1>3. PICK l \in 1 .. n : bodies[l].item = a
  BY <1>2 DEF PendingFits
<1>4. n >= 1 /\ n \in 1 .. n /\ bodies # <<>>
  BY <1>2, <1>3
<1>5. l = n
  <2>1. SUFFICES ASSUME l # n PROVE FALSE
    OBVIOUS
  <2>2. l < n
    BY <1>3, <2>1
  <2>3. a < bodies[n].item
    BY <1>2, <1>3, <1>4, <2>2 DEF PendingFits
  <2>4. bodies[n].item \in EnteredIn(t, k)
    BY <1>2, <1>4 DEF PendingFits
  <2>5. bodies[n].item <= a /\ bodies[n].item \in Nat /\ a \in Nat
    BY <2>4, EnteredNumbers
  <2>6. QED
    BY <2>3, <2>5
<1>6. /\ Last(bodies) = bodies[n]
      /\ Front(bodies) \in Seq(PendingBody) /\ DOMAIN Front(bodies) = 1 .. (n - 1)
      /\ \A j \in 1 .. (n - 1) : Front(bodies)[j] = bodies[j]
  <2>1. /\ Last(bodies) = bodies[n]
        /\ Front(bodies) \in Seq(PendingBody) /\ Len(Front(bodies)) = n - 1
        /\ \A j \in 1 .. (n - 1) : Front(bodies)[j] = bodies[j]
    BY <1>1, <1>2, <1>4, FrontLast
  <2>2. QED
    BY <2>1, LenProperties
<1>7. \A j \in 1 .. n : /\ bodies[j].item \in EnteredIn(t, k) /\ bodies[j].parent \in DOMAIN of
                        /\ of[bodies[j].parent] = ScopeIn(t, bodies[j].item)
  BY <1>2 DEF PendingFits
<1>8. ASSUME EnteredIn(t, k + 1) = EnteredIn(t, k) \ {a}
      PROVE  PendingFits(t, k + 1, Front(bodies), of)
  <2>1. PICK front : front = Front(bodies)
    OBVIOUS
  <2>2. \A j \in DOMAIN front : j \in 1 .. n /\ front[j] = bodies[j] /\ j < n
    BY <1>2, <1>6, <2>1
  <2>3. \A i, j \in DOMAIN front : i < j => front[i].item < front[j].item
    BY <1>2, <2>2 DEF PendingFits
  <2>4. \A j \in DOMAIN front : front[j].item # a
    <3>1. TAKE j \in DOMAIN front
    <3>2. bodies[j].item < a
      BY <1>2, <1>3, <1>4, <1>5, <2>2 DEF PendingFits
    <3>3. a \in Nat
      BY EnteredNumbers
    <3>4. QED
      BY <2>2, <3>2, <3>3
  <2>5. \A j \in DOMAIN front : /\ front[j].item \in EnteredIn(t, k + 1) /\ front[j].parent \in DOMAIN of
                                /\ of[front[j].parent] = ScopeIn(t, front[j].item)
    BY <1>7, <1>8, <2>2, <2>4
  <2>6. \A c \in EnteredIn(t, k + 1) : \E j \in DOMAIN front : front[j].item = c
    <3>1. TAKE c \in EnteredIn(t, k + 1)
    <3>2. PICK j \in 1 .. n : bodies[j].item = c
      BY <1>2, <1>8 DEF PendingFits
    <3>3. j # n
      BY <1>3, <1>5, <1>8, <3>2
    <3>4. j \in 1 .. (n - 1)
      BY <3>3
    <3>5. QED
      BY <1>6, <2>1, <3>2, <3>4
  <2>7. front \in Seq(PendingBody)
    BY <1>6, <2>1
  <2>8. PendingFits(t, k + 1, front, of)
    BY <2>3, <2>5, <2>6, <2>7 DEF PendingFits, PendingBody
  <2>9. QED
    BY <2>1, <2>8
<1>9. QED
  BY <1>3, <1>4, <1>5, <1>6, <1>7, <1>8

(* What an item does to the statements that are open, in a text. *)
LEMMA EnteredMoves ==
  ASSUME NEW t, Formed(t), NEW k \in 1 .. Len(t)
  PROVE  /\ k \in Begun(t) \ Ended(t) => EnteredIn(t, k + 1) = EnteredIn(t, k) \cup {k}
         /\ k \notin Begun(t) /\ k \notin Ended(t) => EnteredIn(t, k + 1) = EnteredIn(t, k)
         /\ k \in Begun(t) \cap Ended(t) =>
              /\ EnteredIn(t, k + 1) = EnteredIn(t, k)
              /\ \E a \in EnteredIn(t, k) : /\ \A c \in EnteredIn(t, k) : c <= a
                                            /\ ScopeIn(t, k) = ScopeIn(t, a)
                                            /\ Whose(t, k) = a /\ a \in Begun(t)
         /\ k \in Ended(t) \ Begun(t) =>
              \E a \in EnteredIn(t, k) : /\ \A c \in EnteredIn(t, k) : c <= a
                                         /\ EnteredIn(t, k + 1) = EnteredIn(t, k) \ {a}
                                         /\ ScopeIn(t, k) = ScopeIn(t, a)
                                         /\ a \in Begun(t) /\ (a \in Loopers(t) => Closer(t, a) = k)
<1>1. PICK n, B, E, If, Cl, L : n = Len(t) /\ B = Begun(t) /\ E = Ended(t) /\ If = Ifs(t) /\ Cl = Closers(t) /\ L = Loopers(t)
  OBVIOUS
<1>2. Nesting(n, B, E, If, Cl) /\ k \in 1 .. n
  BY <1>1, Nests
<1>3. EnteredIn(t, k) = Entered(B, E, Cl, k) /\ EnteredIn(t, k + 1) = Entered(B, E, Cl, k + 1)
  BY <1>1 DEF EnteredIn
<1>4. \A i : ScopeIn(t, i) = Max({0} \cup (Around(B, Cl, i) \ L))
  BY <1>1 DEF ScopeIn, Outer
<1>5. Entered(B, E, Cl, k) \subseteq B \ E
  BY DEF Entered
<1>6. \A a \in B : Cl[a] = Closer(t, a)
  BY <1>1 DEF Closers, Begun
<1>7. If \subseteq B \ E
  BY <1>2 DEF Nesting
<1>8. ASSUME k \in B \cap E
      PROVE  /\ EnteredIn(t, k + 1) = EnteredIn(t, k)
             /\ \E a \in EnteredIn(t, k) : /\ \A c \in EnteredIn(t, k) : c <= a
                                           /\ ScopeIn(t, k) = ScopeIn(t, a)
                                           /\ Whose(t, k) = a /\ a \in Begun(t)
  <2>1. /\ Entered(B, E, Cl, k + 1) = Entered(B, E, Cl, k)
        /\ \E a \in If \cap Entered(B, E, Cl, k) :
             /\ Cl[a] = k
             /\ \A c \in Entered(B, E, Cl, k) : c <= a
             /\ Around(B, Cl, k) = Around(B, Cl, a)
    BY <1>2, <1>8, EnteredParts
  <2>2. PICK a \in If \cap Entered(B, E, Cl, k) :
             /\ Cl[a] = k
             /\ \A c \in Entered(B, E, Cl, k) : c <= a
             /\ Around(B, Cl, k) = Around(B, Cl, a)
    BY <2>1
  <2>3. ScopeIn(t, k) = ScopeIn(t, a)
    BY <1>4, <2>2
  <2>4. t[k].op = "else"
    BY <1>1, <1>8 DEF Begun, Ended, Beginners, Opens
  <2>5. \A c \in Ifs(t) : Closer(t, c) = k <=> c = a
    <3>1. \A c \in If : Cl[c] = k => c = a
      BY <1>2, <1>7, <2>2, ClosedOnce
    <3>2. QED
      BY <1>1, <1>6, <1>7, <2>2, <3>1
  <2>6. Whose(t, k) = a
    BY <1>1, <2>2, <2>4, <2>5 DEF Whose
  <2>7. QED
    BY <1>1, <1>3, <1>5, <2>1, <2>2, <2>3, <2>6
<1>9. ASSUME k \in E \ B
      PROVE  \E a \in EnteredIn(t, k) : /\ \A c \in EnteredIn(t, k) : c <= a
                                        /\ EnteredIn(t, k + 1) = EnteredIn(t, k) \ {a}
                                        /\ ScopeIn(t, k) = ScopeIn(t, a)
                                        /\ a \in Begun(t) /\ (a \in Loopers(t) => Closer(t, a) = k)
  <2>1. \E a \in Entered(B, E, Cl, k) :
                             /\ \A c \in Entered(B, E, Cl, k) : c <= a
                             /\ Entered(B, E, Cl, k + 1) = Entered(B, E, Cl, k) \ {a}
                             /\ Around(B, Cl, k) = Around(B, Cl, a)
                             /\ (Cl[a] = k \/ \E e \in B \cap E : Cl[a] = e /\ Cl[e] = k)
    BY <1>2, <1>9, EnteredParts
  <2>2. PICK a \in Entered(B, E, Cl, k) :
                             /\ \A c \in Entered(B, E, Cl, k) : c <= a
                             /\ Entered(B, E, Cl, k + 1) = Entered(B, E, Cl, k) \ {a}
                             /\ Around(B, Cl, k) = Around(B, Cl, a)
                             /\ (Cl[a] = k \/ \E e \in B \cap E : Cl[a] = e /\ Cl[e] = k)
    BY <2>1
  <2>3. ScopeIn(t, k) = ScopeIn(t, a)
    BY <1>4, <2>2
  <2>4. a \in B
    BY <1>5
  <2>5. ASSUME a \in Loopers(t) PROVE Closer(t, a) = k
    <3>1. SUFFICES ASSUME NEW e \in B \cap E, Cl[a] = e PROVE FALSE
      BY <1>6, <2>2, <2>4
    <3>2. PICK c \in If : Cl[c] = e
      BY <1>2 DEF Nesting
    <3>3. c = a
      BY <1>2, <1>7, <2>4, <3>1, <3>2, ClosedOnce
    <3>4. t[a].op = "if"
      BY <1>1, <3>2, <3>3 DEF Ifs
    <3>5. QED
      BY <2>5, <3>4 DEF Loopers, Loops
  <2>6. QED
    BY <1>1, <1>3, <2>2, <2>3, <2>4, <2>5
<1>10. /\ k \in B \ E => Entered(B, E, Cl, k + 1) = Entered(B, E, Cl, k) \cup {k}
       /\ k \notin B /\ k \notin E => Entered(B, E, Cl, k + 1) = Entered(B, E, Cl, k)
  BY <1>2, EnteredParts
<1>11. QED
  BY <1>1, <1>3, <1>8, <1>9, <1>10

(* The walk gives a scope the span of the block that it is taken for. *)
LEMMA SpanIs ==
  ASSUME Formed(text), NEW a \in Begun(text)
  PROVE  /\ BodySpan(a) \in [start : Int, end : Int]
         /\ text[a].op # "else" => BodySpan(a) = ScopeSpan(text, a)
         /\ \A b : Whose(text, b) = a => BodySpan(a) = ScopeSpan(text, b)
<1>1. PICK n, B, E, If, Cl : n = Len(text) /\ B = Begun(text) /\ E = Ended(text) /\ If = Ifs(text) /\ Cl = Closers(text)
  OBVIOUS
<1>2. Nesting(n, B, E, If, Cl)
  BY <1>1, Nests
<1>3. a \in Int /\ Cl[a] \in Int
  <2>1. Cl[a] \in E /\ (\A e \in E : e \in Int) /\ (\A b \in B : b \in Int)
    BY <1>1, <1>2 DEF Nesting
  <2>2. QED
    BY <1>1, <2>1
<1>4. Cl[a] = Closer(text, a)
  BY <1>1 DEF Closers, Begun
<1>5. PICK p, q : p = BraceAt(a) /\ q = CloseAt(Closer(text, a))
  OBVIOUS
<1>6. p \in Int /\ q \in Int
  BY <1>3, <1>4, <1>5 DEF BraceAt, CloseAt, Place, Width
<1>7. BodySpan(a) = [start |-> p, end |-> q]
  BY <1>5 DEF BodySpan, Span
<1>8. BodySpan(a) \in [start : Int, end : Int]
  BY <1>6, <1>7
<1>9. text[a].op # "else" => BodySpan(a) = ScopeSpan(text, a)
  BY DEF BodySpan, ScopeSpan, Whose
<1>10. \A b : Whose(text, b) = a => BodySpan(a) = ScopeSpan(text, b)
  BY DEF BodySpan, ScopeSpan
<1>11. QED
  BY <1>8, <1>9, <1>10

(* Exit changes nothing but the current scope. *)
LEMMA ExitIs ==
  ASSUME NEW t, NEW ix, NEW of, NEW S, NEW D, Collected(t, ix, of, S, D), NEW p \in Nat,
         NEW new, new = Exit(ix, p)
  PROVE  Collected(t, new, of, S, D) /\ new.current = p /\ new.scopes = ix.scopes
<1>1. PICK sc, sy, c : sc = ix.scopes /\ sy = ix.symbols /\ c = ix.current
  OBVIOUS
<1>2. ix \in IndexSet
  BY DEF Collected
<1>3. sc \in Seq(ScopeSet) /\ sy \in Seq(SymbolSet) /\ c \in Nat /\ ix = [scopes |-> sc, symbols |-> sy, current |-> c]
  BY <1>1, <1>2 DEF IndexSet
<1>4. new = [scopes |-> sc, symbols |-> sy, current |-> p]
  BY <1>3 DEF Exit
<1>5. new \in IndexSet
  BY <1>3, <1>4 DEF IndexSet
<1>6. new.scopes = sc /\ new.symbols = sy /\ new.current = p
  BY <1>4
<1>7. Collected(t, new, of, S, D)
  BY <1>1, <1>5, <1>6 DEF Collected
<1>8. QED
  BY <1>1, <1>6, <1>7

(* Each scope is of a body. *)
LEMMA Domains ==
  ASSUME NEW t, NEW ix, NEW of, NEW S, NEW D, Collected(t, ix, of, S, D)
  PROVE  DOMAIN of = DOMAIN ix.scopes /\ \A p \in DOMAIN of : p \in Nat
<1>1. ix \in IndexSet /\ ScopesFit(t, ix.scopes, of, S)
  BY DEF Collected
<1>2. ix.scopes \in Seq(ScopeSet) /\ of \in Seq(Nat) /\ Len(of) = Len(ix.scopes)
  BY <1>1 DEF ScopesFit, IndexSet
<1>3. Len(of) \in Nat /\ DOMAIN of = 1 .. Len(of) /\ DOMAIN ix.scopes = 1 .. Len(of)
  BY <1>2, LenProperties
<1>4. QED
  BY <1>3

(* An item that begins no body and ends none.                               *)
LEMMA Passes ==
  ASSUME NEW t, Formed(t), NEW k \in 1 .. Len(t), k \notin Begun(t), k \notin Ended(t),
         NEW ix, NEW of, NEW bodies, ix.current \in DOMAIN of, of[ix.current] = CurrentIn(t, k), PendingFits(t, k, bodies, of),
         NEW new, Collected(t, new, of, ScopedBefore(t, k), DeclaredBefore(t, k + 1)), new.current = ix.current
  PROVE  Walked(t, k + 1, new, bodies)
<1>1. Extends(of, of)
  BY DEF Extends
<1>2. PendingFits(t, k + 1, bodies, of)
  BY <1>1, PendingStays, EnteredMoves
<1>3. new.current \in DOMAIN of /\ of[new.current] = CurrentIn(t, k + 1)
  BY CurrentMoves
<1>4. ScopedBefore(t, k + 1) = ScopedBefore(t, k)
  BY NextDeclared DEF Formed
<1>5. QED
  BY <1>2, <1>3, <1>4 DEF Walked

(* An item that begins a body without a scope.                              *)
LEMMA BeginsLoop ==
  ASSUME NEW t, Formed(t), NEW k \in 1 .. Len(t), k \in Loopers(t),
         NEW ix, NEW of, NEW bodies, ix.current \in DOMAIN of, of[ix.current] = CurrentIn(t, k), PendingFits(t, k, bodies, of),
         NEW new, Collected(t, new, of, ScopedBefore(t, k), DeclaredBefore(t, k + 1)), new.current = ix.current
  PROVE  Walked(t, k + 1, new, Append(bodies, [item |-> k, parent |-> ix.current]))
<1>1. Extends(of, of)
  BY DEF Extends
<1>2. k \in Begun(t) \ Ended(t)
  BY DEF Loopers, Begun, Ended, Loops, Beginners, Opens
<1>3. t \in Seq(Item) /\ k \in Nat
  BY TextParts DEF Formed
<1>4. EnteredIn(t, k + 1) = EnteredIn(t, k) \cup {k} /\ CurrentIn(t, k) = ScopeIn(t, k) /\ CurrentIn(t, k + 1) = CurrentIn(t, k)
  BY <1>2, EnteredMoves, CurrentMoves
<1>5. PICK p : p = ix.current /\ p \in DOMAIN of /\ p \in Nat /\ of[p] = ScopeIn(t, k)
  BY <1>4, Domains
<1>6. PICK b : b = Append(bodies, [item |-> k, parent |-> p])
  OBVIOUS
<1>7. PendingFits(t, k + 1, b, of)
  BY <1>1, <1>3, <1>4, <1>5, <1>6, PendingMore
<1>8. ScopedBefore(t, k + 1) = ScopedBefore(t, k)
  BY NextDeclared DEF Formed
<1>9. new.current \in DOMAIN of /\ of[new.current] = CurrentIn(t, k + 1)
  BY <1>4
<1>10. QED
  BY <1>5, <1>6, <1>7, <1>8, <1>9 DEF Walked

(* An item that begins a body with a scope.                                 *)
LEMMA Begins ==
  ASSUME NEW t, Formed(t), NEW k \in 1 .. Len(t), k \in Begun(t), k \notin Loopers(t), k \notin Ended(t),
         NEW ix, NEW of, NEW bodies, ix.current \in DOMAIN of, of[ix.current] = CurrentIn(t, k), PendingFits(t, k, bodies, of),
         NEW of2, Extends(of, of2), NEW S, S = ScopedBefore(t, k) \cup {k},
         NEW new, Collected(t, new, of2, S, DeclaredBefore(t, k + 1)),
         new.current \in DOMAIN of2, of2[new.current] = k
  PROVE  Walked(t, k + 1, new, Append(bodies, [item |-> k, parent |-> ix.current]))
<1>1. t \in Seq(Item) /\ k \in Nat
  BY TextParts DEF Formed
<1>2. EnteredIn(t, k + 1) = EnteredIn(t, k) \cup {k} /\ CurrentIn(t, k) = ScopeIn(t, k) /\ CurrentIn(t, k + 1) = k
  BY EnteredMoves, CurrentMoves
<1>3. PICK p : p = ix.current /\ p \in DOMAIN of /\ p \in DOMAIN of2 /\ p \in Nat /\ of[p] = ScopeIn(t, k)
  BY <1>2, Domains DEF Extends
<1>4. PICK b : b = Append(bodies, [item |-> k, parent |-> p])
  OBVIOUS
<1>5. PendingFits(t, k + 1, b, of2)
  BY <1>1, <1>2, <1>3, <1>4, PendingMore
<1>6. ScopedBefore(t, k + 1) = S
  BY NextDeclared DEF Formed
<1>7. QED
  BY <1>2, <1>3, <1>4, <1>5, <1>6 DEF Walked

-----------------------------------------------------------------------------
(***************************************************************************)
(* The steps of the walk.                                                  *)
(***************************************************************************)

(* Scopes entered are of bodies that began before. *)
LEMMA ScopesBelow ==
  ASSUME NEW t, NEW k
  PROVE  \A b \in ScopedBefore(t, k) : b < k
BY DEF ScopedBefore

(* let, and an assignment or a call. *)
LEMMA StepPlain ==
  ASSUME Formed(text), NEW k \in 1 .. Len(text), NEW ix, NEW bodies, Walked(text, k, ix, bodies),
         text[k].op \in {"let", "set", "call"},
         NEW kind, kind = IF text[k].op = "let" THEN "definition" ELSE "variable",
         NEW new, new = Mention(Declare(ix, k, kind), k)
  PROVE  Walked(text, k + 1, new, bodies)
<1>1. text \in Seq(Item) /\ k \in Nat /\ text[k].name \in Name \cup {Literal} /\ text[k].other \in Name \cup {Literal}
  BY TextParts DEF Formed
<1>2. k \notin Begun(text) /\ k \notin Ended(text)
  BY DEF Begun, Ended, Beginners, Opens
<1>3. PICK of : /\ Collected(text, ix, of, ScopedBefore(text, k), DeclaredBefore(text, k))
                /\ ix.current \in DOMAIN of /\ of[ix.current] = CurrentIn(text, k)
                /\ PendingFits(text, k, bodies, of)
  BY DEF Walked
<1>4. PICK S, D, E : S = ScopedBefore(text, k) /\ D = DeclaredBefore(text, k) /\ E = DeclaredBefore(text, k + 1)
  OBVIOUS
<1>5. ix.current \in DOMAIN ix.scopes /\ of[ix.current] = ScopeIn(text, k)
  BY <1>2, <1>3, Domains, CurrentMoves
<1>6. PICK one : one = Declare(ix, k, kind)
  OBVIOUS
<1>7. PICK name, place : name = text[k].name /\ place = Place(k, 1)
  OBVIOUS
<1>8. Collected(text, ix, of, S, D)
  BY <1>3, <1>4
<1>9. Collected(text, one, of, S, E) /\ one.current = ix.current /\ DOMAIN one.scopes = DOMAIN ix.scopes
  <2>1. CASE text[k].op = "let"
    <3>1. text[k].op \in Declarers
      BY <2>1 DEF Declarers
    <3>2. one = Define(ix, name, kind, place, k)
      BY <1>6, <1>7, <2>1 DEF Declare, NameAt
    <3>3. kind = NameKind(text, k)
      BY <2>1 DEF NameKind
    <3>4. PICK F : F = D \cup Mute({NamedHere(text, k)})
      OBVIOUS
    <3>5. Kept(text, ix, one, of, S, F)
      BY <1>1, <1>3, <1>4, <1>5, <1>7, <1>8, <3>1, <3>2, <3>3, <3>4, DeclaresName
    <3>6. E \subseteq F
      BY <1>4, <2>1, <3>4, NextDeclared, <1>1
    <3>7. QED
      BY <3>5, <3>6, Fewer DEF Kept
  <2>2. CASE text[k].op # "let"
    <3>1. text[k].op \in Mentions /\ text[k].op \notin Declarers
      BY <2>2 DEF Mentions, Declarers
    <3>2. one = Define(ix, text[k].name, "variable", Place(k, 0), k)
      BY <1>6, <2>2 DEF Declare, NameAt
    <3>3. Kept(text, ix, one, of, S, D)
      <4>1. PICK p, called : p = Place(k, 0) /\ called = text[k].name
        OBVIOUS
      <4>2. one = Define(ix, called, "variable", p, k) /\ p \in {Place(k, 0), Place(k, 3)} /\ called \in Name \cup {Literal}
        BY <1>1, <3>2, <4>1
      <4>3. QED
        BY <1>1, <1>3, <1>4, <1>5, <3>1, <4>2, Mentioned
    <3>4. E \subseteq D
      BY <1>1, <1>4, <3>1, NextDeclared
    <3>5. QED
      BY <3>3, <3>4, Fewer DEF Kept
  <2>3. QED
    BY <2>1, <2>2
<1>10. Kept(text, one, new, of, S, E)
  <2>1. text[k].op \in Mentions
    BY DEF Mentions
  <2>2. PICK p, called : p = Place(k, 3) /\ called = text[k].other
    OBVIOUS
  <2>3. new = Define(one, called, "variable", p, k) /\ p \in {Place(k, 0), Place(k, 3)} /\ called \in Name \cup {Literal}
    BY <1>1, <1>6, <2>2 DEF Mention, OtherAt
  <2>4. one.current \in DOMAIN one.scopes
    BY <1>5, <1>9
  <2>5. QED
    BY <1>1, <1>9, <2>1, <2>3, <2>4, Mentioned
<1>11. Collected(text, new, of, S, E) /\ new.current = ix.current
  BY <1>9, <1>10 DEF Kept
<1>12. QED
  BY <1>2, <1>3, <1>4, <1>11, Passes

(* for, whose variable is declared around it. *)
LEMMA StepFor ==
  ASSUME Formed(text), NEW k \in 1 .. Len(text), NEW ix, NEW bodies, Walked(text, k, ix, bodies),
         text[k].op = "for", NEW new, new = Mention(Declare(ix, k, "definition"), k)
  PROVE  Walked(text, k + 1, new, Append(bodies, [item |-> k, parent |-> ix.current]))
<1>1. text \in Seq(Item) /\ k \in Nat /\ text[k].name \in Name \cup {Literal} /\ text[k].other \in Name \cup {Literal}
  BY TextParts DEF Formed
<1>2. k \in Loopers(text) /\ k \notin Ended(text)
  BY DEF Loopers, Loops, Begun, Ended, Beginners, Opens
<1>3. PICK of : /\ Collected(text, ix, of, ScopedBefore(text, k), DeclaredBefore(text, k))
                /\ ix.current \in DOMAIN of /\ of[ix.current] = CurrentIn(text, k)
                /\ PendingFits(text, k, bodies, of)
  BY DEF Walked
<1>4. PICK S, D, E : S = ScopedBefore(text, k) /\ D = DeclaredBefore(text, k) /\ E = DeclaredBefore(text, k + 1)
  OBVIOUS
<1>5. ix.current \in DOMAIN ix.scopes /\ of[ix.current] = ScopeIn(text, k)
  BY <1>2, <1>3, Domains, CurrentMoves
<1>6. PICK one, kind : one = Declare(ix, k, kind) /\ kind = "definition"
  OBVIOUS
<1>7. PICK name, place : name = text[k].name /\ place = Place(k, 1)
  OBVIOUS
<1>8. Collected(text, ix, of, S, D)
  BY <1>3, <1>4
<1>9. Collected(text, one, of, S, E) /\ one.current = ix.current /\ DOMAIN one.scopes = DOMAIN ix.scopes
  <2>1. text[k].op \in Declarers
    BY DEF Declarers
  <2>2. one = Define(ix, name, kind, place, k)
    BY <1>6, <1>7 DEF Declare, NameAt
  <2>3. kind = NameKind(text, k)
    BY <1>6 DEF NameKind
  <2>4. PICK F : F = D \cup Mute({NamedHere(text, k)})
    OBVIOUS
  <2>5. Kept(text, ix, one, of, S, F)
    BY <1>1, <1>3, <1>4, <1>5, <1>7, <1>8, <2>1, <2>2, <2>3, <2>4, DeclaresName
  <2>6. E \subseteq F
    BY <1>1, <1>4, <2>4, NextDeclared
  <2>7. QED
    BY <2>5, <2>6, Fewer DEF Kept
<1>10. Kept(text, one, new, of, S, E)
  <2>1. text[k].op \in Mentions
    BY DEF Mentions
  <2>2. PICK p, called : p = Place(k, 3) /\ called = text[k].other
    OBVIOUS
  <2>3. new = Define(one, called, "variable", p, k) /\ p \in {Place(k, 0), Place(k, 3)} /\ called \in Name \cup {Literal}
    BY <1>1, <1>6, <2>2 DEF Mention, OtherAt
  <2>4. one.current \in DOMAIN one.scopes
    BY <1>5, <1>9
  <2>5. QED
    BY <1>1, <1>9, <2>1, <2>3, <2>4, Mentioned
<1>11. Collected(text, new, of, S, E) /\ new.current = ix.current
  BY <1>9, <1>10 DEF Kept
<1>12. QED
  BY <1>2, <1>3, <1>4, <1>11, BeginsLoop

(* while, of which only the body is walked. *)
LEMMA StepWhile ==
  ASSUME Formed(text), NEW k \in 1 .. Len(text), NEW ix, NEW bodies, Walked(text, k, ix, bodies),
         text[k].op = "while"
  PROVE  Walked(text, k + 1, ix, Append(bodies, [item |-> k, parent |-> ix.current]))
<1>1. text \in Seq(Item)
  BY DEF Formed
<1>2. k \in Loopers(text)
  BY DEF Loopers, Loops, Begun, Beginners, Opens
<1>3. PICK of : /\ Collected(text, ix, of, ScopedBefore(text, k), DeclaredBefore(text, k))
                /\ ix.current \in DOMAIN of /\ of[ix.current] = CurrentIn(text, k)
                /\ PendingFits(text, k, bodies, of)
  BY DEF Walked
<1>4. DeclaredBefore(text, k + 1) \subseteq DeclaredBefore(text, k)
  BY <1>1, NextDeclared DEF Declarers
<1>5. Collected(text, ix, of, ScopedBefore(text, k), DeclaredBefore(text, k + 1))
  BY <1>3, <1>4, Fewer
<1>6. QED
  BY <1>2, <1>3, <1>5, BeginsLoop

(* Entering the scope of what item k begins.                                *)
LEMMA StepEnter ==
  ASSUME Formed(text), NEW k \in 1 .. Len(text), k \in Begun(text), k \notin Loopers(text), k \notin Ended(text),
         NEW ix, NEW of, NEW D, Collected(text, ix, of, ScopedBefore(text, k), D),
         ix.current \in DOMAIN of, of[ix.current] = CurrentIn(text, k),
         NEW new, new = Enter(ix, BodySpan(k)), NEW T, T = ScopedBefore(text, k) \cup {k}
  PROVE  \E of2 : Entering(text, new, of, of2, T, D, k)
<1>1. text \in Seq(Item) /\ k \in Nat /\ k # 0
  BY TextParts DEF Formed
<1>2. text[k].op # "else"
  BY DEF Ended
<1>3. PICK span : span = BodySpan(k)
  OBVIOUS
<1>4. span = ScopeSpan(text, k) /\ span \in [start : Int, end : Int]
  BY <1>2, <1>3, SpanIs
<1>5. PICK S : S = ScopedBefore(text, k)
  OBVIOUS
<1>6. Under(S, k) /\ T = S \cup {k}
  BY <1>5 DEF ScopedBefore, Under
<1>7. of[ix.current] = ScopeIn(text, k)
  BY CurrentMoves
<1>8. PICK of2 : of2 = Append(of, k)
  OBVIOUS
<1>9. new = Enter(ix, span)
  BY <1>3
<1>10. Collected(text, ix, of, S, D)
  BY <1>5
<1>11. Entering(text, new, of, of2, T, D, k)
  BY <1>1, <1>4, <1>6, <1>7, <1>8, <1>9, <1>10, Enters
<1>12. QED
  BY <1>11

(* if, whose condition is walked when it ends. *)
LEMMA StepIf ==
  ASSUME Formed(text), NEW k \in 1 .. Len(text), NEW ix, NEW bodies, Walked(text, k, ix, bodies),
         text[k].op = "if", NEW new, new = Enter(ix, BodySpan(k))
  PROVE  Walked(text, k + 1, new, Append(bodies, [item |-> k, parent |-> ix.current]))
<1>1. text \in Seq(Item)
  BY DEF Formed
<1>2. k \in Begun(text) /\ k \notin Loopers(text) /\ k \notin Ended(text)
  BY DEF Loopers, Loops, Begun, Ended, Beginners, Opens
<1>3. PICK of : /\ Collected(text, ix, of, ScopedBefore(text, k), DeclaredBefore(text, k))
                /\ ix.current \in DOMAIN of /\ of[ix.current] = CurrentIn(text, k)
                /\ PendingFits(text, k, bodies, of)
  BY DEF Walked
<1>4. DeclaredBefore(text, k + 1) \subseteq DeclaredBefore(text, k)
  BY <1>1, NextDeclared DEF Declarers
<1>5. Collected(text, ix, of, ScopedBefore(text, k), DeclaredBefore(text, k + 1))
  BY <1>3, <1>4, Fewer
<1>6. PICK E, S : E = DeclaredBefore(text, k + 1) /\ S = ScopedBefore(text, k) \cup {k}
  OBVIOUS
<1>7. PICK of2 : Entering(text, new, of, of2, S, E, k)
  BY <1>2, <1>3, <1>5, <1>6, StepEnter
<1>8. QED
  BY <1>2, <1>3, <1>6, <1>7, Begins DEF Entering

(* class, its name around it and a scope for its body. *)
LEMMA StepClass ==
  ASSUME Formed(text), NEW k \in 1 .. Len(text), NEW ix, NEW bodies, Walked(text, k, ix, bodies),
         text[k].op = "class", NEW new, new = Enter(Declare(ix, k, "class"), BodySpan(k))
  PROVE  Walked(text, k + 1, new, Append(bodies, [item |-> k, parent |-> ix.current]))
<1>1. text \in Seq(Item)
  BY DEF Formed
<1>2. k \in Begun(text) /\ k \notin Loopers(text) /\ k \notin Ended(text)
  BY DEF Loopers, Loops, Begun, Ended, Beginners, Opens
<1>3. PICK of : /\ Collected(text, ix, of, ScopedBefore(text, k), DeclaredBefore(text, k))
                /\ ix.current \in DOMAIN of /\ of[ix.current] = CurrentIn(text, k)
                /\ PendingFits(text, k, bodies, of)
  BY DEF Walked
<1>4. PICK S, D, E : S = ScopedBefore(text, k) /\ D = DeclaredBefore(text, k) /\ E = DeclaredBefore(text, k + 1)
  OBVIOUS
<1>5. ix.current \in DOMAIN ix.scopes /\ of[ix.current] = ScopeIn(text, k)
  BY <1>2, <1>3, Domains, CurrentMoves
<1>6. PICK one, kind : one = Declare(ix, k, kind) /\ kind = "class"
  OBVIOUS
<1>7. PICK name, place : name = text[k].name /\ place = Place(k, 1)
  OBVIOUS
<1>8. Collected(text, ix, of, S, D)
  BY <1>3, <1>4
<1>9. Collected(text, one, of, S, E) /\ one.current = ix.current
  <2>1. text[k].op \in Declarers
    BY DEF Declarers
  <2>2. one = Define(ix, name, kind, place, k)
    BY <1>6, <1>7 DEF Declare, NameAt
  <2>3. kind = NameKind(text, k)
    BY <1>6 DEF NameKind
  <2>4. PICK F : F = D \cup Mute({NamedHere(text, k)})
    OBVIOUS
  <2>5. Kept(text, ix, one, of, S, F)
    BY <1>1, <1>3, <1>4, <1>5, <1>7, <1>8, <2>1, <2>2, <2>3, <2>4, DeclaresName
  <2>6. E \subseteq F
    BY <1>1, <1>4, <2>4, NextDeclared
  <2>7. QED
    BY <2>5, <2>6, Fewer DEF Kept
<1>10. PICK T : T = ScopedBefore(text, k) \cup {k}
  OBVIOUS
<1>11. PICK of2 : Entering(text, new, of, of2, T, E, k)
  <2>1. /\ new = Enter(one, BodySpan(k)) /\ one.current \in DOMAIN of /\ of[one.current] = CurrentIn(text, k)
        /\ Collected(text, one, of, ScopedBefore(text, k), E)
    BY <1>3, <1>4, <1>6, <1>9
  <2>2. QED
    BY <1>2, <1>10, <2>1, StepEnter
<1>12. QED
  BY <1>2, <1>3, <1>4, <1>11, <1>10, Begins DEF Entering

(* A function, or a lambda, whose name stands for the hidden one as well.   *)
LEMMA StepFunction ==
  ASSUME Formed(text), NEW k \in 1 .. Len(text), NEW ix, NEW bodies, Walked(text, k, ix, bodies),
         text[k].op \in {"fn", "lambda"},
         NEW kind, kind = IF text[k].op = "fn" THEN "function" ELSE "definition",
         NEW one, one = Declare(ix, k, kind),
         NEW two, two = IF text[k].op = "fn" THEN one ELSE Define(one, Hidden, "function", 0, k),
         NEW new, new = Argument(Enter(two, BodySpan(k)), k)
  PROVE  Walked(text, k + 1, new, Append(bodies, [item |-> k, parent |-> ix.current]))
<1>1. text \in Seq(Item) /\ k \in Nat
  BY TextParts DEF Formed
<1>2. k \in Begun(text) /\ k \notin Loopers(text) /\ k \notin Ended(text)
  BY DEF Loopers, Loops, Begun, Ended, Beginners, Opens
<1>3. PICK of : /\ Collected(text, ix, of, ScopedBefore(text, k), DeclaredBefore(text, k))
                /\ ix.current \in DOMAIN of /\ of[ix.current] = CurrentIn(text, k)
                /\ PendingFits(text, k, bodies, of)
  BY DEF Walked
<1>4. PICK S, D, E : S = ScopedBefore(text, k) /\ D = DeclaredBefore(text, k) /\ E = DeclaredBefore(text, k + 1)
  OBVIOUS
<1>5. ix.current \in DOMAIN ix.scopes /\ of[ix.current] = ScopeIn(text, k)
  BY <1>2, <1>3, Domains, CurrentMoves
<1>6. PICK F, G : F = D \cup Mute({NamedHere(text, k)}) /\ G = F \cup Mute({ArguedHere(text, k)})
  OBVIOUS
<1>7. PICK name, place : name = text[k].name /\ place = Place(k, 1)
  OBVIOUS
<1>8. Collected(text, ix, of, S, D)
  BY <1>3, <1>4
<1>9. Kept(text, ix, one, of, S, F)
  <2>1. text[k].op \in Declarers
    BY DEF Declarers
  <2>2. one = Define(ix, name, kind, place, k)
    BY <1>7 DEF Declare, NameAt
  <2>3. kind = NameKind(text, k)
    BY DEF NameKind
  <2>4. QED
    BY <1>1, <1>3, <1>4, <1>5, <1>6, <1>7, <1>8, <2>1, <2>2, <2>3, DeclaresName
<1>10. Kept(text, ix, two, of, S, F)
  <2>1. CASE text[k].op = "fn"
    BY <1>9, <2>1
  <2>2. CASE text[k].op # "fn"
    <3>1. two = Define(one, Hidden, "function", 0, k) /\ one.current \in DOMAIN one.scopes
      BY <1>5, <1>9, <2>2 DEF Kept
    <3>2. Collected(text, one, of, S, F)
      BY <1>9 DEF Kept
    <3>3. Kept(text, one, two, of, S, F)
      BY <1>1, <3>1, <3>2, Hides
    <3>4. QED
      BY <1>9, <3>3 DEF Kept
  <2>3. QED
    BY <2>1, <2>2
<1>11. PICK three : three = Enter(two, BodySpan(k))
  OBVIOUS
<1>12. PICK T : T = ScopedBefore(text, k) \cup {k}
  OBVIOUS
<1>13. PICK of2 : Entering(text, three, of, of2, T, F, k)
  <2>1. /\ two.current \in DOMAIN of /\ of[two.current] = CurrentIn(text, k)
        /\ Collected(text, two, of, ScopedBefore(text, k), F)
    BY <1>3, <1>4, <1>10 DEF Kept
  <2>2. QED
    BY <1>2, <1>11, <1>12, <2>1, StepEnter
<1>14. Kept(text, three, new, of2, T, G)
  <2>1. PICK other, p : other = text[k].other /\ p = Place(k, 3)
    OBVIOUS
  <2>2. new = Define(three, other, "argument", p, k)
    BY <1>11, <2>1 DEF Argument, OtherAt
  <2>3. three.current \in DOMAIN three.scopes /\ Collected(text, three, of2, T, F) /\ of2[three.current] = k
    BY <1>13 DEF Entering
  <2>4. QED
    BY <1>1, <1>6, <2>2, <2>3, <2>1, DeclaresArgument
<1>15. E \subseteq G
  BY <1>1, <1>4, <1>6, NextDeclared
<1>16. Collected(text, new, of2, T, E) /\ new.current \in DOMAIN of2 /\ of2[new.current] = k
  BY <1>13, <1>14, <1>15, Fewer DEF Entering, Kept
<1>17. QED
  BY <1>2, <1>3, <1>4, <1>12, <1>13, <1>16, Begins DEF Entering

(* The item in which the walk is for the longest: the last one pending.     *)
Topmost(t, k, a) == a \in EnteredIn(t, k) /\ \A c \in EnteredIn(t, k) : c <= a
Foremost(t, k, bodies, of, a) ==
  /\ Last(bodies).item = a /\ Last(bodies).parent \in DOMAIN of
  /\ of[Last(bodies).parent] = ScopeIn(t, a)
  /\ EnteredIn(t, k + 1) = EnteredIn(t, k) \ {a} => PendingFits(t, k + 1, Front(bodies), of)
Left(t, new, of, S, D, p) == Collected(t, new, of, S, D) /\ new.current = p

(* The last body pending is of that statement. *)
LEMMA LastIs ==
  ASSUME NEW t, t \in Seq(Item), NEW k, NEW bodies, NEW of, PendingFits(t, k, bodies, of), NEW a, Topmost(t, k, a)
  PROVE  Foremost(t, k, bodies, of, a)
<1>1. a \in EnteredIn(t, k) /\ \A c \in EnteredIn(t, k) : c <= a
  BY DEF Topmost
<1>2. QED
  BY <1>1, PendingLast DEF Foremost

(* Exit again, with what follows for the index. *)
LEMMA Leaves ==
  ASSUME NEW t, NEW ix, NEW of, NEW S, NEW D, Collected(t, ix, of, S, D), NEW p \in Nat,
         NEW new, new = Exit(ix, p)
  PROVE  Left(t, new, of, S, D, p)
BY ExitIs DEF Left

(* else, in the scope around with the span of the block before it. *)
LEMMA StepElse ==
  ASSUME Formed(text), NEW k \in 1 .. Len(text), NEW ix, NEW bodies, Walked(text, k, ix, bodies),
         text[k].op = "else", NEW new, new = Enter(Exit(ix, Last(bodies).parent), BodySpan(Last(bodies).item))
  PROVE  Walked(text, k + 1, new, bodies)
<1>1. text \in Seq(Item) /\ k \in Nat /\ k # 0
  BY TextParts DEF Formed
<1>2. k \in Begun(text) /\ k \notin Loopers(text) /\ k \in Ended(text)
  BY DEF Loopers, Loops, Begun, Ended, Beginners, Opens
<1>3. PICK of : /\ Collected(text, ix, of, ScopedBefore(text, k), DeclaredBefore(text, k))
                /\ ix.current \in DOMAIN of /\ of[ix.current] = CurrentIn(text, k)
                /\ PendingFits(text, k, bodies, of)
  BY DEF Walked
<1>4. PICK S, D, E : S = ScopedBefore(text, k) /\ D = DeclaredBefore(text, k) /\ E = DeclaredBefore(text, k + 1)
  OBVIOUS
<1>5. EnteredIn(text, k + 1) = EnteredIn(text, k)
  BY <1>2, EnteredMoves
<1>6. PICK a \in EnteredIn(text, k) : /\ \A c \in EnteredIn(text, k) : c <= a
                                      /\ ScopeIn(text, k) = ScopeIn(text, a)
                                      /\ Whose(text, k) = a /\ a \in Begun(text)
  BY <1>2, EnteredMoves
<1>7. PICK p : p = Last(bodies).parent
  OBVIOUS
<1>8. Last(bodies).item = a /\ p \in DOMAIN of /\ of[p] = ScopeIn(text, k)
  <2>1. Topmost(text, k, a)
    BY <1>6 DEF Topmost
  <2>2. PendingFits(text, k, bodies, of)
    BY <1>3
  <2>3. Foremost(text, k, bodies, of, a)
    BY <1>1, <2>1, <2>2, LastIs
  <2>4. QED
    BY <1>6, <1>7, <2>3 DEF Foremost
<1>9. p \in Nat
  BY <1>3, <1>8, Domains
<1>10. PICK left : left = Exit(ix, p)
  OBVIOUS
<1>11. Collected(text, left, of, S, D) /\ left.current = p
  <2>1. Collected(text, ix, of, S, D)
    BY <1>3, <1>4
  <2>2. Left(text, left, of, S, D, p)
    BY <1>9, <1>10, <2>1, Leaves
  <2>3. QED
    BY <2>2 DEF Left
<1>12. E \subseteq D
  BY <1>1, <1>4, NextDeclared DEF Declarers
<1>13. Collected(text, left, of, S, E) /\ left.current \in DOMAIN of /\ of[left.current] = ScopeIn(text, k)
  BY <1>8, <1>11, <1>12, Fewer
<1>14. PICK span : span = BodySpan(a)
  OBVIOUS
<1>15. span = ScopeSpan(text, k) /\ span \in [start : Int, end : Int]
  BY <1>6, <1>14, SpanIs
<1>16. new = Enter(left, span)
  BY <1>7, <1>8, <1>10, <1>14
<1>17. PICK T, of2 : T = S \cup {k} /\ of2 = Append(of, k)
  OBVIOUS
<1>18. Under(S, k)
  BY <1>4 DEF Under, ScopedBefore
<1>19. Entering(text, new, of, of2, T, E, k)
  BY <1>1, <1>2, <1>13, <1>15, <1>16, <1>17, <1>18, Enters
<1>20. PendingFits(text, k + 1, bodies, of2)
  BY <1>3, <1>5, <1>19, PendingStays DEF Entering
<1>21. CurrentIn(text, k + 1) = k
  BY <1>2, CurrentMoves
<1>22. ScopedBefore(text, k + 1) = T
  BY <1>1, <1>2, <1>4, <1>17, NextDeclared
<1>23. QED
  BY <1>4, <1>19, <1>20, <1>21, <1>22 DEF Entering, Walked

(* The end of a body. *)
LEMMA StepEnd ==
  ASSUME Formed(text), NEW k \in 1 .. Len(text), NEW ix, NEW bodies, Walked(text, k, ix, bodies),
         text[k].op = "end",
         NEW body, body = Last(bodies),
         NEW left, left = IF text[body.item].op \in Loops THEN ix ELSE Exit(ix, body.parent),
         NEW new, new = IF text[body.item].op = "if" THEN Mention(left, body.item) ELSE left
  PROVE  Walked(text, k + 1, new, Front(bodies))
<1>1. text \in Seq(Item) /\ k \in Nat /\ k # 0
  BY TextParts DEF Formed
<1>2. k \notin Begun(text) /\ k \in Ended(text)
  BY DEF Begun, Ended, Beginners, Opens
<1>3. PICK of : /\ Collected(text, ix, of, ScopedBefore(text, k), DeclaredBefore(text, k))
                /\ ix.current \in DOMAIN of /\ of[ix.current] = CurrentIn(text, k)
                /\ PendingFits(text, k, bodies, of)
  BY DEF Walked
<1>4. PICK S, D, E : S = ScopedBefore(text, k) /\ D = DeclaredBefore(text, k) /\ E = DeclaredBefore(text, k + 1)
  OBVIOUS
<1>5. PICK a \in EnteredIn(text, k) : /\ \A c \in EnteredIn(text, k) : c <= a
                                      /\ EnteredIn(text, k + 1) = EnteredIn(text, k) \ {a}
                                      /\ ScopeIn(text, k) = ScopeIn(text, a)
                                      /\ a \in Begun(text) /\ (a \in Loopers(text) => Closer(text, a) = k)
  BY <1>2, EnteredMoves
<1>6. PICK p : p = body.parent
  OBVIOUS
<1>7. body.item = a /\ p \in DOMAIN of /\ of[p] = ScopeIn(text, k) /\ PendingFits(text, k + 1, Front(bodies), of)
  <2>1. Topmost(text, k, a)
    BY <1>5 DEF Topmost
  <2>2. PendingFits(text, k, bodies, of)
    BY <1>3
  <2>3. Foremost(text, k, bodies, of, a)
    BY <1>1, <2>1, <2>2, LastIs
  <2>4. QED
    BY <1>5, <1>6, <2>3 DEF Foremost
<1>8. p \in Nat /\ a \in 1 .. Len(text)
  BY <1>1, <1>3, <1>7, Domains, EnteredNumbers
<1>9. CurrentIn(text, k + 1) = ScopeIn(text, k)
  BY <1>2, CurrentMoves
<1>10. Collected(text, left, of, S, D) /\ left.current \in DOMAIN of /\ of[left.current] = CurrentIn(text, k + 1)
  <2>1. CASE text[a].op \in Loops
    <3>1. left = ix /\ a \in Loopers(text)
      BY <1>5, <1>7, <2>1 DEF Loopers
    <3>2. CurrentIn(text, k + 1) = CurrentIn(text, k)
      BY <1>2, <1>5, <3>1, CurrentMoves
    <3>3. QED
      BY <1>3, <1>4, <3>1, <3>2
  <2>2. CASE text[a].op \notin Loops
    <3>1. left = Exit(ix, p)
      BY <1>6, <1>7, <2>2
    <3>2. Collected(text, left, of, S, D) /\ left.current = p
      <4>1. Collected(text, ix, of, S, D)
        BY <1>3, <1>4
      <4>2. Left(text, left, of, S, D, p)
        BY <1>8, <3>1, <4>1, Leaves
      <4>3. QED
        BY <4>2 DEF Left
    <3>3. QED
      BY <1>7, <1>9, <3>2
  <2>3. QED
    BY <2>1, <2>2
<1>11. Collected(text, new, of, S, D) /\ new.current = left.current
  <2>1. CASE text[a].op = "if"
    <3>1. PICK name, q : name = text[a].other /\ q = Place(a, 3)
      OBVIOUS
    <3>2. new = Define(left, name, "variable", q, a)
      BY <1>7, <2>1, <3>1 DEF Mention, OtherAt
    <3>3. text[a].op \in Mentions /\ name \in Name \cup {Literal} /\ q \in {Place(a, 0), Place(a, 3)}
      BY <1>1, <1>8, <2>1, <3>1, TextParts DEF Mentions
    <3>4. left.current \in DOMAIN left.scopes
      BY <1>10, Domains
    <3>5. Kept(text, left, new, of, S, D)
      BY <1>1, <1>8, <1>10, <3>2, <3>3, <3>4, Mentioned
    <3>6. QED
      BY <3>5 DEF Kept
  <2>2. CASE text[a].op # "if"
    BY <1>7, <1>10, <2>2
  <2>3. QED
    BY <2>1, <2>2
<1>12. E \subseteq D
  BY <1>1, <1>4, NextDeclared DEF Declarers
<1>13. Collected(text, new, of, S, E) /\ new.current \in DOMAIN of /\ of[new.current] = CurrentIn(text, k + 1)
  BY <1>10, <1>11, <1>12, Fewer
<1>14. ScopedBefore(text, k + 1) = S
  BY <1>1, <1>2, <1>4, NextDeclared
<1>15. QED
  BY <1>4, <1>7, <1>13, <1>14 DEF Walked

(* The walk begins in shape. *)
LEMMA WalkBegins ==
  ASSUME NEW t, Formed(t)
  PROVE  Walked(t, 1, NoIndex, <<>>)
<1>1. t \in Seq(Item) /\ Len(t) \in Nat
  BY TextParts DEF Formed
<1>2. PICK of : of = <<0>>
  OBVIOUS
<1>3. of \in Seq(Nat) /\ Len(of) = 1 /\ DOMAIN of = {1} /\ of[1] = 0
  BY <1>2
<1>4. PICK root : root = [parent |-> 0, symbols |-> <<>>, span |-> Span(0, -1)]
  OBVIOUS
<1>5. root \in ScopeSet /\ root.parent = 0 /\ root.span = Span(0, -1) /\ root.symbols = <<>>
  <2>1. PICK w : w = Span(0, -1)
    OBVIOUS
  <2>2. w \in [start : Int, end : Int]
    BY <2>1 DEF Span
  <2>3. root = [parent |-> 0, symbols |-> <<>>, span |-> w]
    BY <1>4, <2>1
  <2>4. QED
    BY <2>1, <2>2, <2>3 DEF ScopeSet
<1>6. PICK sc : sc = <<root>>
  OBVIOUS
<1>7. sc \in Seq(ScopeSet) /\ Len(sc) = 1 /\ DOMAIN sc = {1} /\ sc[1] = root
  BY <1>5, <1>6
<1>8. NoIndex = [scopes |-> sc, symbols |-> <<>>, current |-> 1]
  BY <1>4, <1>6 DEF NoIndex, Root
<1>9. NoIndex \in IndexSet /\ NoIndex.scopes = sc /\ NoIndex.symbols = <<>> /\ NoIndex.current = 1
  BY <1>7, <1>8 DEF IndexSet
<1>10. ScopedBefore(t, 1) = {} /\ DeclaredBefore(t, 1) = {} /\ EnteredIn(t, 1) = {} /\ Before(Begun(t), Closers(t), 1) = {}
  <2>1. \A b \in Begun(t) : ~(b < 1)
    BY <1>1 DEF Begun
  <2>2. \A d \in DeclaredIn(t) : ~(d.item < 1)
    <3>1. TAKE d \in DeclaredIn(t)
    <3>2. d.item \in 1 .. Len(t)
      BY <1>1, DeclaredParts
    <3>3. QED
      BY <1>1, <3>2
  <2>3. ScopedBefore(t, 1) = {} /\ Before(Begun(t), Closers(t), 1) = {}
    BY <2>1 DEF ScopedBefore, Before
  <2>4. DeclaredBefore(t, 1) = {}
    BY <2>2 DEF DeclaredBefore
  <2>5. EnteredIn(t, 1) = {}
    BY <2>1 DEF EnteredIn, Entered
  <2>6. QED
    BY <2>3, <2>4, <2>5
<1>11. CurrentIn(t, 1) = 0
  <2>1. {0} \cup (Before(Begun(t), Closers(t), 1) \ Loopers(t)) = {0}
    BY <1>10
  <2>2. Max({0}) \in {0}
    <3>1. {0} \subseteq 0 .. 0 /\ 0 \in Nat
      OBVIOUS
    <3>2. QED
      BY <3>1, Greatest
  <2>3. QED
    BY <2>1, <2>2 DEF CurrentIn
<1>12. ScopesFit(t, sc, of, {})
  <2>1. \A s \in DOMAIN of : s = 1 /\ of[s] = 0 /\ sc[s].parent = 0 /\ sc[s].span = Span(0, -1)
    BY <1>3, <1>5, <1>7
  <2>2. \A s, r \in DOMAIN of : ~(s < r)
    BY <1>3
  <2>3. QED
    BY <1>3, <1>7, <2>1, <2>2 DEF ScopesFit
<1>13. SymbolsFit(t, sc, <<>>, of, {})
  BY <1>5, <1>7 DEF SymbolsFit
<1>14. PendingFits(t, 1, <<>>, of)
  BY <1>10 DEF PendingFits
<1>15. Collected(t, NoIndex, of, {}, {})
  BY <1>9, <1>12, <1>13 DEF Collected
<1>16. NoIndex.current \in DOMAIN of /\ of[NoIndex.current] = CurrentIn(t, 1)
  BY <1>3, <1>9, <1>11
<1>17. QED
  BY <1>10, <1>14, <1>15, <1>16 DEF Walked

-----------------------------------------------------------------------------
(***************************************************************************)
(* Where names are seen.                                                   *)
(***************************************************************************)

InOwn(B, E, Cl, L, i, h) == h # 0 /\ h \in E /\ \A b \in Around(B, Cl, i) : b > h => b \in L \cup E
Afar(B, E, Cl, L, i, h) == h \in Reach(B, Cl, L, Outer(B, Cl, L \cup E, i))

ReachIs(B, Cl, L, i, c) == Reach(B, Cl, L, c) = {c, 0} \cup {b \in Around(B, Cl, i) \ L : b < c}

(* What is reached from a body around an item. *)
LEMMA ReachesAround ==
  ASSUME NEW n, NEW B, NEW E, NEW If, NEW Cl, Nesting(n, B, E, If, Cl), NEW L, NEW i \in Int,
         NEW c, c \in {0} \cup Around(B, Cl, i)
  PROVE  ReachIs(B, Cl, L, i, c)
BY Reached DEF ReachIs

(* A body around an item is reached, unless it is the else that the item is *)
(* in.                                                                      *)
LEMMA SeenOrOwn ==
  ASSUME NEW n, NEW B, NEW E, NEW If, NEW Cl, Nesting(n, B, E, If, Cl), NEW L, NEW i \in Int,
         NEW h \in {0} \cup (Around(B, Cl, i) \ L)
  PROVE  Afar(B, E, Cl, L, i, h) <=> ~InOwn(B, E, Cl, L, i, h)
<1>1. PICK c, M : M = L \cup E /\ c = Outer(B, Cl, M, i)
  OBVIOUS
<1>2. c \in {0} \cup (Around(B, Cl, i) \ M) /\ \A b \in Around(B, Cl, i) \ M : b <= c
  BY <1>1, OuterIs
<1>3. \A b \in Around(B, Cl, i) : b \in Int /\ b >= 1
  <2>1. \A b \in B : b \in Int /\ b >= 1
    BY DEF Nesting
  <2>2. QED
    BY <2>1 DEF Around
<1>4. c \in {0} \cup Around(B, Cl, i)
  BY <1>2
<1>5. Reach(B, Cl, L, c) = {c, 0} \cup {b \in Around(B, Cl, i) \ L : b < c}
  BY <1>4, ReachesAround DEF ReachIs
<1>6. c \in Int /\ h \in Int /\ (h # 0 => h \in Around(B, Cl, i) /\ h \notin L /\ h >= 1)
  BY <1>2, <1>3
<1>7. ASSUME ~InOwn(B, E, Cl, L, i, h) PROVE h \in Reach(B, Cl, L, c)
  <2>1. CASE h = 0
    BY <1>5, <2>1
  <2>2. CASE h # 0 /\ h <= c
    BY <1>5, <1>6, <2>2
  <2>3. CASE h # 0 /\ c < h
    <3>1. \A b \in Around(B, Cl, i) : b > h => b \in M
      <4>1. TAKE b \in Around(B, Cl, i)
      <4>2. b > h => ~(b <= c)
        BY <1>3, <1>6, <2>3
      <4>3. QED
        BY <1>2, <4>2
    <3>2. h \in M
      <4>1. ~(h <= c)
        BY <1>6, <2>3
      <4>2. QED
        BY <1>2, <1>6, <2>3, <4>1
    <3>3. QED
      BY <1>1, <1>6, <1>7, <2>3, <3>1, <3>2 DEF InOwn
  <2>4. QED
    BY <1>6, <2>1, <2>2, <2>3
<1>8. ASSUME InOwn(B, E, Cl, L, i, h), h \in Reach(B, Cl, L, c) PROVE FALSE
  <2>1. h # 0 /\ h \in E /\ \A b \in Around(B, Cl, i) : b > h => b \in M
    BY <1>1, <1>8 DEF InOwn
  <2>2. h # c
    BY <1>1, <1>2, <2>1
  <2>3. h < c
    BY <1>5, <1>8, <2>1, <2>2
  <2>4. c > h /\ c # 0
    BY <1>6, <2>1, <2>3
  <2>5. QED
    BY <1>2, <2>1, <2>4
<1>9. QED
  BY <1>1, <1>7, <1>8 DEF Afar

(* What is reached from an item is around it. *)
LEMMA AfarAround ==
  ASSUME NEW n, NEW B, NEW E, NEW If, NEW Cl, Nesting(n, B, E, If, Cl), NEW L, NEW i \in Int, NEW h,
         Afar(B, E, Cl, L, i, h)
  PROVE  h \in {0} \cup Around(B, Cl, i)
<1>1. PICK c, M : M = L \cup E /\ c = Outer(B, Cl, M, i)
  OBVIOUS
<1>2. c \in {0} \cup (Around(B, Cl, i) \ M)
  BY <1>1, OuterIs
<1>3. c \in {0} \cup Around(B, Cl, i)
  BY <1>2
<1>4. Reach(B, Cl, L, c) = {c, 0} \cup {b \in Around(B, Cl, i) \ L : b < c}
  BY <1>3, ReachesAround DEF ReachIs
<1>5. QED
  BY <1>1, <1>3, <1>4 DEF Afar

(* What is known in a body of an item is declared in one.                   *)
LEMMA HomeAround ==
  ASSUME NEW n, NEW B, NEW E, NEW If, NEW Cl, Nesting(n, B, E, If, Cl), NEW L, NEW i \in Int, NEW k \in Int,
         \/ k \in Around(B, Cl, i)
         \/ Outer(B, Cl, {}, k) \in {0} \cup Around(B, Cl, i)
  PROVE  Outer(B, Cl, L, k) \in {0} \cup (Around(B, Cl, i) \ L)
<1>1. PICK o, m : o = Outer(B, Cl, L, k) /\ m = Outer(B, Cl, {}, k)
  OBVIOUS
<1>2. o \in {0} \cup (Around(B, Cl, k) \ L)
  BY <1>1, OuterIs
<1>3. m \in {0} \cup (Around(B, Cl, k) \ {}) /\ \A b \in Around(B, Cl, k) \ {} : b <= m
  BY <1>1, OuterIs
<1>4. \A b \in B : b \in Int /\ b >= 1
  BY DEF Nesting
<1>5. CASE o = 0
  BY <1>1, <1>5
<1>6. CASE o # 0 /\ k \in Around(B, Cl, i)
  <2>1. Around(B, Cl, k) = {b \in Around(B, Cl, i) : b < k}
    BY <1>6, AroundAll
  <2>2. QED
    BY <1>1, <1>2, <1>6, <2>1
<1>7. CASE o # 0 /\ m \in {0} \cup Around(B, Cl, i)
  <2>1. o \in Around(B, Cl, k) /\ o \notin L /\ o <= m
    BY <1>2, <1>3, <1>7
  <2>2. o \in Int /\ o >= 1
    BY <1>4, <2>1 DEF Around
  <2>3. m # 0
    BY <2>1, <2>2
  <2>4. m \in Around(B, Cl, k) /\ m \in Around(B, Cl, i) /\ m \in Int
    BY <1>3, <1>4, <1>7, <2>3 DEF Around
  <2>5. CASE o = m
    BY <1>1, <2>1, <2>4, <2>5
  <2>6. CASE o # m
    <3>1. o < m
      BY <2>1, <2>2, <2>4, <2>6
    <3>2. Around(B, Cl, m) = {b \in Around(B, Cl, k) : b < m}
      BY <2>4, AroundAll
    <3>3. Around(B, Cl, m) = {b \in Around(B, Cl, i) : b < m}
      BY <2>4, AroundAll
    <3>4. QED
      BY <1>1, <2>1, <3>1, <3>2, <3>3
  <2>7. QED
    BY <2>5, <2>6
<1>8. QED
  BY <1>1, <1>5, <1>6, <1>7

(* The body of an item is not that of its scope only when it is one of a    *)
(* loop.                                                                    *)
LEMMA InnerLoop ==
  ASSUME NEW n, NEW B, NEW E, NEW If, NEW Cl, Nesting(n, B, E, If, Cl), NEW L, NEW S, NEW k,
         Outer(B, Cl, L, k) \in S, 0 \in S, Outer(B, Cl, {}, k) \notin S
  PROVE  Outer(B, Cl, {}, k) \in Around(B, Cl, k) \cap L
<1>1. PICK o, m : o = Outer(B, Cl, L, k) /\ m = Outer(B, Cl, {}, k)
  OBVIOUS
<1>2. o \in {0} \cup (Around(B, Cl, k) \ L) /\ \A b \in Around(B, Cl, k) \ L : b <= o
  BY <1>1, OuterIs
<1>3. m \in {0} \cup (Around(B, Cl, k) \ {}) /\ \A b \in Around(B, Cl, k) \ {} : b <= m
  BY <1>1, OuterIs
<1>4. m \in Around(B, Cl, k) /\ m # o
  BY <1>1, <1>3
<1>5. SUFFICES ASSUME m \notin L PROVE FALSE
  BY <1>1, <1>4
<1>6. m <= o
  BY <1>2, <1>4, <1>5
<1>7. \A b \in B : b \in Int /\ b >= 1
  BY DEF Nesting
<1>8. m \in Int /\ m >= 1 /\ (o = 0 \/ o \in Around(B, Cl, k))
  BY <1>2, <1>4, <1>7 DEF Around
<1>9. o \in Int /\ (o # 0 => o <= m)
  BY <1>2, <1>3, <1>7, <1>8 DEF Around
<1>10. QED
  BY <1>4, <1>6, <1>8, <1>9

-----------------------------------------------------------------------------
(***************************************************************************)
(* What is seen in a text.                                                 *)
(***************************************************************************)

BodiesIn(t, i) == {0} \cup Around(Begun(t), Closers(t), i)
BodyIn(t, i) == Outer(Begun(t), Closers(t), {}, i)
ClassedIn(t, i) == BodyIn(t, i) # 0 /\ t[BodyIn(t, i)].op = "class"
KnownOf(t, d) ==
  IF d.place = Place(d.item, 3) \/ t[d.item].op = "for" \/ ClassedIn(t, d.item) THEN d.item ELSE BodyIn(t, d.item)
VisibleIn(t, name, i) == {d \in DeclaredIn(t) : d.name = name /\ d.item <= i /\ KnownOf(t, d) \in BodiesIn(t, i)}
OwnElse(t, i, d) ==
  LET body == ScopeIn(t, d.item)
  IN  /\ body # 0 /\ t[body].op = "else" /\ body \in BodiesIn(t, i)
      /\ \A b \in BodiesIn(t, i) : b > body => t[b].op \in Loops \cup {"else"}
OnceIn(t) == \A c, d \in DeclaredIn(t) : c.name = d.name => c = d
Seat(t, i) == Outer(Begun(t), Closers(t), Loopers(t) \cup Ended(t), i)
Near(t, i, d) == Home(t, d) \in Reach(Begun(t), Closers(t), Loopers(t), Seat(t, i))

(* What is visible is in a scope searched, unless it is of the own else. *)
LEMMA Sees ==
  ASSUME NEW t, Formed(t), NEW name, NEW i \in 1 .. Len(t), NEW d \in VisibleIn(t, name, i)
  PROVE  Near(t, i, d) <=> ~OwnElse(t, i, d)
<1>1. PICK n, B, E, If, Cl, L : n = Len(t) /\ B = Begun(t) /\ E = Ended(t) /\ If = Ifs(t) /\ Cl = Closers(t) /\ L = Loopers(t)
  OBVIOUS
<1>2. Nesting(n, B, E, If, Cl) /\ t \in Seq(Item) /\ i \in Int
  BY <1>1, Nests DEF Formed
<1>3. d \in DeclaredIn(t) /\ KnownOf(t, d) \in BodiesIn(t, i)
  BY DEF VisibleIn
<1>4. PICK k, h : k = d.item /\ k \in 1 .. n /\ k \in Int /\ h = Home(t, d)
  BY <1>1, <1>2, <1>3, DeclaredParts
<1>5. Near(t, i, d) <=> Afar(B, E, Cl, L, i, h)
  BY <1>1, <1>4 DEF Near, Afar, Seat
<1>6. CASE d.place = Place(d.item, 3)
  <2>1. h = k /\ k \in {0} \cup Around(B, Cl, i) /\ t[k].op \in {"fn", "lambda"}
    <3>1. t[k].op \in {"fn", "lambda"}
      <4>1. d.place # Place(d.item, 1)
        BY <1>4, <1>6, Places
      <4>2. QED
        BY <1>2, <1>3, <1>4, <4>1, DeclaredParts
    <3>2. QED
      BY <1>1, <1>3, <1>4, <1>6, <3>1 DEF Home, KnownOf, BodiesIn
  <2>2. k \notin L /\ k \notin E /\ k # 0
    BY <1>1, <1>4, <2>1 DEF Loopers, Ended, Loops
  <2>3. h \in {0} \cup (Around(B, Cl, i) \ L)
    BY <2>1, <2>2
  <2>4. ~InOwn(B, E, Cl, L, i, h)
    BY <2>1, <2>2 DEF InOwn
  <2>5. ~OwnElse(t, i, d)
    <3>1. SUFFICES ASSUME OwnElse(t, i, d) PROVE FALSE
      OBVIOUS
    <3>2. ScopeIn(t, k) < k
      <4>1. ScopeIn(t, k) \in {0} \cup (Around(B, Cl, k) \ L)
        BY <1>1, <1>2, OuterIs DEF ScopeIn
      <4>2. QED
        BY <1>4, <4>1 DEF Around
    <3>3. k > ScopeIn(t, k)
      BY <1>4, <3>2, <1>1, <1>2, OuterIs DEF ScopeIn
    <3>4. t[k].op \in Loops \cup {"else"}
      BY <1>1, <1>4, <2>1, <2>2, <3>1, <3>3 DEF OwnElse, BodiesIn
    <3>5. QED
      BY <2>1, <3>4 DEF Loops
  <2>6. QED
    BY <1>2, <1>5, <2>3, <2>4, <2>5, SeenOrOwn
<1>7. CASE d.place # Place(d.item, 3)
  <2>1. h = Outer(B, Cl, L, k)
    BY <1>1, <1>4, <1>7 DEF Home, ScopeIn
  <2>2. k \in Around(B, Cl, i) \/ Outer(B, Cl, {}, k) \in {0} \cup Around(B, Cl, i)
    BY <1>1, <1>3, <1>4 DEF KnownOf, BodiesIn, BodyIn
  <2>3. h \in {0} \cup (Around(B, Cl, i) \ L)
    BY <1>2, <1>4, <2>1, <2>2, HomeAround
  <2>4. \A b \in B : (b \in E <=> t[b].op = "else") /\ (b \in L <=> t[b].op \in Loops) /\ b # 0
    <3>1. \A b \in B : b # 0
      BY <1>2 DEF Nesting
    <3>2. \A b \in B : (b \in E <=> t[b].op = "else") /\ (b \in L <=> t[b].op \in Loops)
      BY <1>1 DEF Begun, Ended, Loopers, Beginners, Opens
    <3>3. QED
      BY <3>1, <3>2
  <2>5. ASSUME OwnElse(t, i, d) PROVE InOwn(B, E, Cl, L, i, h)
    <3>1. h = ScopeIn(t, d.item)
      BY <1>1, <1>4, <2>1 DEF ScopeIn
    <3>2. h # 0 /\ t[h].op = "else" /\ \A b \in BodiesIn(t, i) : b > h => t[b].op \in Loops \cup {"else"}
      BY <2>5, <3>1 DEF OwnElse
    <3>3. h \in B
      BY <2>3, <3>2 DEF Around
    <3>4. \A b \in Around(B, Cl, i) : b \in B /\ b \in BodiesIn(t, i)
      BY <1>1 DEF Around, BodiesIn
    <3>5. QED
      BY <2>4, <3>2, <3>3, <3>4 DEF InOwn
  <2>6. ASSUME InOwn(B, E, Cl, L, i, h) PROVE OwnElse(t, i, d)
    <3>1. h = ScopeIn(t, d.item)
      BY <1>1, <1>4, <2>1 DEF ScopeIn
    <3>2. h # 0 /\ h \in E /\ \A b \in Around(B, Cl, i) : b > h => b \in L \cup E
      BY <2>6 DEF InOwn
    <3>3. h \in Around(B, Cl, i) /\ h \in B
      BY <2>3, <3>2 DEF Around
    <3>4. \A b \in BodiesIn(t, i) : b > h => t[b].op \in Loops \cup {"else"}
      <4>1. TAKE b \in BodiesIn(t, i)
      <4>2. CASE b = 0
        <5>1. ~(b > h)
          <6>1. h \in Int /\ h >= 1
            BY <1>2, <3>3 DEF Nesting
          <6>2. QED
            BY <4>2, <6>1
        <5>2. QED
          BY <5>1
      <4>3. CASE b # 0
        <5>1. b \in Around(B, Cl, i) /\ b \in B
          BY <1>1, <4>3 DEF BodiesIn, Around
        <5>2. QED
          BY <2>4, <3>2, <5>1
      <4>4. QED
        BY <4>2, <4>3
    <3>5. t[h].op = "else" /\ h \in BodiesIn(t, i)
      BY <1>1, <2>4, <3>2, <3>3 DEF BodiesIn
    <3>6. QED
      BY <3>1, <3>2, <3>4, <3>5 DEF OwnElse
  <2>7. Afar(B, E, Cl, L, i, h) <=> ~InOwn(B, E, Cl, L, i, h)
    BY <1>2, <2>3, SeenOrOwn
  <2>8. QED
    BY <1>5, <2>5, <2>6, <2>7
<1>8. QED
  BY <1>6, <1>7

(* What is found and not seen.                                              *)
Astray(t, i, d) ==
  \/ d.item > i
  \/ ClassedIn(t, d.item)
  \/ \E b \in (BodiesIn(t, d.item) \cup {d.item}) \ BodiesIn(t, i) : b # 0 /\ t[b].op \in Loops

(* What is in a scope searched and not visible comes later, or is of a      *)
(* class or a loop.                                                         *)
LEMMA SeesNot ==
  ASSUME NEW t, Formed(t), NEW i \in 1 .. Len(t), NEW d \in DeclaredIn(t), Near(t, i, d),
         d \notin VisibleIn(t, d.name, i)
  PROVE  Astray(t, i, d)
<1>1. PICK n, B, E, If, Cl, L : n = Len(t) /\ B = Begun(t) /\ E = Ended(t) /\ If = Ifs(t) /\ Cl = Closers(t) /\ L = Loopers(t)
  OBVIOUS
<1>2. Nesting(n, B, E, If, Cl) /\ t \in Seq(Item) /\ i \in Int
  BY <1>1, Nests DEF Formed
<1>3. PICK k, h : k = d.item /\ k \in 1 .. n /\ k \in Int /\ h = Home(t, d) /\ k # 0
  BY <1>1, <1>2, DeclaredParts
<1>4. h \in BodiesIn(t, i)
  <2>1. Afar(B, E, Cl, L, i, h)
    BY <1>1, <1>3 DEF Near, Afar, Seat
  <2>2. QED
    BY <1>1, <1>2, <2>1, AfarAround DEF BodiesIn
<1>5. SUFFICES ASSUME ~(k > i), ~ClassedIn(t, k)
               PROVE  \E b \in (BodiesIn(t, k) \cup {k}) \ BodiesIn(t, i) : b # 0 /\ t[b].op \in Loops
  BY <1>3 DEF Astray
<1>6. KnownOf(t, d) \notin BodiesIn(t, i)
  BY <1>2, <1>3, <1>5 DEF VisibleIn
<1>7. d.place # Place(d.item, 3)
  BY <1>3, <1>4, <1>6 DEF KnownOf, Home
<1>8. CASE t[k].op = "for"
  <2>1. k \notin BodiesIn(t, i)
    BY <1>3, <1>6, <1>8 DEF KnownOf
  <2>2. QED
    BY <1>3, <1>8, <2>1 DEF Loops
<1>9. CASE t[k].op # "for"
  <2>1. PICK m, S : m = Outer(B, Cl, {}, k) /\ S = BodiesIn(t, i)
    OBVIOUS
  <2>2. m \notin S
    BY <1>1, <1>3, <1>5, <1>6, <1>7, <1>9, <2>1 DEF KnownOf, BodyIn
  <2>3. Outer(B, Cl, L, k) \in S /\ 0 \in S
    BY <1>1, <1>3, <1>4, <1>7, <2>1 DEF Home, ScopeIn, BodiesIn
  <2>4. m \in Around(B, Cl, k) \cap L
    BY <1>2, <2>1, <2>2, <2>3, InnerLoop
  <2>5. m # 0 /\ t[m].op \in Loops /\ m \in BodiesIn(t, k)
    BY <1>1, <2>2, <2>3, <2>4 DEF Loopers, BodiesIn
  <2>6. QED
    BY <2>1, <2>2, <2>5
<1>10. QED
  BY <1>8, <1>9

-----------------------------------------------------------------------------
(***************************************************************************)
(* What the queries find.                                                  *)
(***************************************************************************)

(* The bodies whose blocks have spans.                                      *)
Spanned(t) == Begun(t) \ (Loopers(t) \cup Ended(t))

(* The block whose span a scope has is one with a span of its own. *)
LEMMA WhoseIs ==
  ASSUME NEW t, Formed(t), NEW b \in Begun(t) \ Loopers(t)
  PROVE  /\ Whose(t, b) \in Spanned(t)
         /\ Whose(t, b) = b \/ (b \in Ended(t) /\ Whose(t, b) < b)
         /\ b \in Spanned(t) => Whose(t, b) = b
<1>1. Nesting(Len(t), Begun(t), Ended(t), Ifs(t), Closers(t))
  BY Nests
<1>2. CASE t[b].op = "else"
  <2>1. b \in Begun(t) \cap Ended(t)
    BY <1>2 DEF Ended, Begun
  <2>2. \E a \in Ifs(t) : Closers(t)[a] = b
    BY <1>1, <2>1 DEF Nesting
  <2>3. \A a \in Ifs(t) : Closers(t)[a] = Closer(t, a)
    BY DEF Ifs, Closers
  <2>4. Whose(t, b) = CHOOSE a \in Ifs(t) : Closer(t, a) = b
    BY <1>2 DEF Whose
  <2>5. PICK a : a = Whose(t, b) /\ a \in Ifs(t) /\ Closers(t)[a] = b
    BY <2>2, <2>3, <2>4
  <2>6. a \in Begun(t) /\ a < Closers(t)[a]
    BY <1>1, <2>5 DEF Nesting
  <2>7. a \notin Loopers(t) /\ a \notin Ended(t)
    BY <2>5 DEF Ifs, Loopers, Ended, Loops
  <2>8. QED
    BY <2>1, <2>5, <2>6, <2>7 DEF Spanned
<1>3. CASE t[b].op # "else"
  <2>1. Whose(t, b) = b
    BY <1>3 DEF Whose
  <2>2. b \notin Ended(t)
    BY <1>3 DEF Ended, Begun, Beginners, Opens
  <2>3. QED
    BY <2>1, <2>2 DEF Spanned
<1>4. QED
  BY <1>2, <1>3

(* The name of an item is in the blocks around it.                          *)
Spots(t, i, p) == i \in 1 .. Len(t) /\ i \notin Ended(t) /\ p \in {Place(i, 0), Place(i, 3)}

(* A name is in the span of a scope when its item is in the block. *)
LEMMA WithinIs ==
  ASSUME NEW t, Formed(t), NEW b \in Begun(t) \ Loopers(t), NEW i, NEW p, Spots(t, i, p), t = text,
         NEW w, w = Whose(t, b)
  PROVE  Within(p, ScopeSpan(t, b)) <=> w \in Around(Begun(t), Closers(t), i)
<1>1. PICK n, B, E, If, Cl : n = Len(t) /\ B = Begun(t) /\ E = Ended(t) /\ If = Ifs(t) /\ Cl = Closers(t)
  OBVIOUS
<1>2. Nesting(n, B, E, If, Cl)
  BY <1>1, Nests
<1>3. w \in B
  BY <1>1, WhoseIs DEF Spanned
<1>4. PICK c : c = Cl[w] /\ c = Closer(t, w)
  BY <1>1, <1>3 DEF Closers, Begun
<1>5. c \in E /\ w < c /\ c \in Int /\ w \in Int /\ i \in Int /\ i # c
  <2>1. c \in E /\ w < c
    BY <1>2, <1>3, <1>4 DEF Nesting
  <2>2. \A x \in E \cup B : x \in Int
    BY <1>2 DEF Nesting
  <2>3. c \in Int /\ w \in Int
    BY <1>3, <2>1, <2>2
  <2>4. i \in 1 .. n /\ i \notin E
    BY <1>1 DEF Spots
  <2>5. n \in Nat
    BY <1>2 DEF Nesting
  <2>6. QED
    BY <2>1, <2>3, <2>4, <2>5
<1>6. ScopeSpan(t, b) = Span(10 * (w - 1) + 6, 10 * (c - 1) + 1)
  BY <1>4 DEF ScopeSpan, BraceAt, CloseAt, Place, Width
<1>7. Within(p, ScopeSpan(t, b)) <=> p >= 10 * (w - 1) + 6 /\ p <= 10 * (c - 1) + 1
  BY <1>6 DEF Within, Span
<1>8. PICK q \in {0, 3} : p = 10 * (i - 1) + q
  BY DEF Spots, Place, Width
<1>9. Within(p, ScopeSpan(t, b)) <=> w < i /\ i < c
  BY <1>5, <1>7, <1>8
<1>10. QED
  BY <1>1, <1>3, <1>4, <1>9 DEF Around

(* The spans of blocks around an item nest.                                 *)
LEMMA Smaller ==
  ASSUME NEW t, Formed(t), t = text, NEW b \in Begun(t) \ Loopers(t), NEW c \in Begun(t) \ Loopers(t),
         NEW i \in Int, NEW v, NEW w, v = Whose(t, b), w = Whose(t, c),
         v \in Around(Begun(t), Closers(t), i), w \in Around(Begun(t), Closers(t), i), v <= w
  PROVE  /\ ScopeSpan(t, c).end - ScopeSpan(t, c).start <= ScopeSpan(t, b).end - ScopeSpan(t, b).start
         /\ v < w => ScopeSpan(t, c).end - ScopeSpan(t, c).start < ScopeSpan(t, b).end - ScopeSpan(t, b).start
         /\ ScopeSpan(t, c).end - ScopeSpan(t, c).start \in Int
<1>1. PICK n, B, E, If, Cl : n = Len(t) /\ B = Begun(t) /\ E = Ended(t) /\ If = Ifs(t) /\ Cl = Closers(t)
  OBVIOUS
<1>2. Nesting(n, B, E, If, Cl)
  BY <1>1, Nests
<1>3. v \in B /\ w \in B /\ v < i /\ i < Cl[v] /\ w < i /\ i < Cl[w]
  BY <1>1 DEF Around
<1>4. v \in Int /\ w \in Int /\ Cl[v] \in Int /\ Cl[w] \in Int
  <2>1. Cl[v] \in E /\ Cl[w] \in E
    BY <1>2, <1>3 DEF Nesting
  <2>2. \A x \in E \cup B : x \in Int
    BY <1>2 DEF Nesting
  <2>3. QED
    BY <1>3, <2>1, <2>2
<1>5. v < w => Cl[w] < Cl[v]
  BY <1>2, <1>3, <1>4 DEF Nesting
<1>6. Cl[v] = Closer(t, v) /\ Cl[w] = Closer(t, w)
  BY <1>1, <1>3 DEF Closers, Begun
<1>7. /\ ScopeSpan(t, b) = Span(10 * (v - 1) + 6, 10 * (Cl[v] - 1) + 1)
      /\ ScopeSpan(t, c) = Span(10 * (w - 1) + 6, 10 * (Cl[w] - 1) + 1)
  BY <1>6 DEF ScopeSpan, BraceAt, CloseAt, Place, Width
<1>8. /\ ScopeSpan(t, b).end = 10 * (Cl[v] - 1) + 1 /\ ScopeSpan(t, b).start = 10 * (v - 1) + 6
      /\ ScopeSpan(t, c).end = 10 * (Cl[w] - 1) + 1 /\ ScopeSpan(t, c).start = 10 * (w - 1) + 6
  BY <1>7 DEF Span
<1>9. v = w \/ v < w
  BY <1>4
<1>10. QED
  BY <1>4, <1>5, <1>8, <1>9

(* The scopes of a text, all collected.                                     *)
Indexed(t, ix, of) == Collected(t, ix, of, ScopedBefore(t, Len(t) + 1), DeclaredBefore(t, Len(t) + 1))

(* The scope of a place is that of the nearest block around it.             *)
LEMMA SeatIs ==
  ASSUME Formed(text), NEW of, Indexed(text, index, of), NEW i, NEW p, Spots(text, i, p)
  PROVE  ScopeAt(p) \in DOMAIN of /\ of[ScopeAt(p)] = Seat(text, i)
<1>1. PICK n, B, E, If, Cl, L, M : /\ n = Len(text) /\ B = Begun(text) /\ E = Ended(text) /\ If = Ifs(text)
                                   /\ Cl = Closers(text) /\ L = Loopers(text) /\ M = L \cup E
  OBVIOUS
<1>2. Nesting(n, B, E, If, Cl) /\ i \in 1 .. n /\ i \in Int
  BY <1>1, Nests DEF Spots
<1>3. PICK sc, S : sc = index.scopes /\ S = ScopedBefore(text, Len(text) + 1)
  OBVIOUS
<1>4. ScopesFit(text, sc, of, S) /\ sc \in Seq(ScopeSet)
  BY <1>3 DEF Indexed, Collected, IndexSet
<1>5. S = B \ L
  <2>1. \A b \in B : b < n + 1
    BY <1>2 DEF Nesting
  <2>2. QED
    BY <1>1, <1>3, <2>1 DEF ScopedBefore
<1>6. PICK m \in Nat : m = Len(of) /\ DOMAIN of = 1 .. m /\ DOMAIN sc = 1 .. m /\ m >= 1
  <2>1. of \in Seq(Nat) /\ Len(of) = Len(sc) /\ 1 \in DOMAIN of
    BY <1>4 DEF ScopesFit
  <2>2. Len(of) \in Nat /\ DOMAIN of = 1 .. Len(of) /\ DOMAIN sc = 1 .. Len(of)
    BY <1>4, <2>1, LenProperties
  <2>3. PICK m : m = Len(of)
    OBVIOUS
  <2>4. m \in Nat /\ DOMAIN of = 1 .. m /\ DOMAIN sc = 1 .. m
    BY <2>2, <2>3
  <2>5. m >= 1
    BY <2>1, <2>4
  <2>6. QED
    BY <2>3, <2>4, <2>5
<1>7. PICK inside : inside = {s \in DOMAIN index.scopes : Within(p, index.scopes[s].span)}
  OBVIOUS
<1>8. /\ 1 \notin inside
      /\ \A s \in 1 .. m : s # 1 => /\ of[s] \in B \ L /\ sc[s].span = ScopeSpan(text, of[s])
                                    /\ s \in inside <=> Whose(text, of[s]) \in Around(B, Cl, i)
  <2>1. \A s \in 1 .. m : s # 1 => of[s] \in B \ L /\ sc[s].span = ScopeSpan(text, of[s])
    BY <1>4, <1>5, <1>6 DEF ScopesFit
  <2>2. sc[1].span = Span(0, -1)
    <3>1. 1 \in DOMAIN of
      BY <1>6
    <3>2. QED
      BY <1>4, <3>1 DEF ScopesFit
  <2>3. 1 \notin inside
    <3>1. p \in Int
      BY <1>2 DEF Spots, Place, Width
    <3>2. ~Within(p, Span(0, -1))
      BY <3>1 DEF Within, Span
    <3>3. QED
      BY <1>3, <1>7, <2>2, <3>2
  <2>4. ASSUME NEW s \in 1 .. m, s # 1
        PROVE  s \in inside <=> Whose(text, of[s]) \in Around(B, Cl, i)
    <3>1. PICK b, w : b = of[s] /\ w = Whose(text, b)
      OBVIOUS
    <3>2. b \in Begun(text) \ Loopers(text)
      BY <1>1, <2>1, <2>4, <3>1
    <3>3. Within(p, ScopeSpan(text, b)) <=> w \in Around(Begun(text), Closers(text), i)
      BY <3>1, <3>2, WithinIs
    <3>4. s \in inside <=> Within(p, ScopeSpan(text, b))
      BY <1>3, <1>6, <1>7, <2>1, <2>4, <3>1
    <3>5. QED
      BY <1>1, <3>1, <3>3, <3>4
  <2>5. QED
    BY <2>1, <2>3, <2>4
<1>9. PICK e : e = Seat(text, i) /\ e = Outer(B, Cl, M, i)
  BY <1>1 DEF Seat
<1>10. e \in {0} \cup (Around(B, Cl, i) \ M) /\ \A b \in Around(B, Cl, i) \ M : b <= e
  BY <1>2, <1>9, OuterIs
<1>11. \A s \in inside : /\ s \in 1 .. m /\ s # 1
                         /\ Whose(text, of[s]) \in Around(B, Cl, i) \ M /\ Whose(text, of[s]) <= e
                         /\ Whose(text, of[s]) <= of[s] /\ of[s] \in Int
  <2>1. TAKE s \in inside
  <2>2. s \in 1 .. m /\ s # 1
    BY <1>3, <1>6, <1>7, <1>8
  <2>3. of[s] \in B \ L /\ Whose(text, of[s]) \in Around(B, Cl, i)
    BY <1>8, <2>2
  <2>4. PICK b, w : b = of[s] /\ w = Whose(text, b) /\ b \in Begun(text) \ Loopers(text)
    BY <1>1, <2>3
  <2>5. w \in Spanned(text) /\ (w = b \/ w < b)
    BY <2>4, WhoseIs
  <2>6. b \in Int /\ w \in Int
    <3>1. w \in B /\ b \in B
      BY <1>1, <2>4, <2>5 DEF Spanned
    <3>2. QED
      BY <1>2, <3>1 DEF Nesting
  <2>7. w \in Around(B, Cl, i) \ M
    BY <1>1, <2>3, <2>4, <2>5 DEF Spanned
  <2>8. QED
    BY <1>10, <2>2, <2>4, <2>5, <2>6, <2>7
<1>12. CASE inside = {}
  <2>1. ScopeAt(p) = 1
    BY <1>7, <1>12 DEF ScopeAt
  <2>2. e = 0
    <3>1. SUFFICES ASSUME e # 0 PROVE FALSE
      OBVIOUS
    <3>2. e \in Around(B, Cl, i) /\ e \notin M /\ e \in B
      BY <1>10, <3>1 DEF Around
    <3>3. PICK s \in 1 .. m : of[s] = e
      BY <1>1, <1>4, <1>5, <1>6, <3>2 DEF ScopesFit
    <3>4. s # 1
      BY <1>4, <1>6, <3>1, <3>3 DEF ScopesFit
    <3>5. Whose(text, e) = e
      <4>1. e \in Begun(text) \ Loopers(text) /\ e \in Spanned(text)
        BY <1>1, <3>2 DEF Spanned
      <4>2. QED
        BY <4>1, WhoseIs
    <3>6. s \in inside
      BY <1>8, <3>2, <3>3, <3>4, <3>5
    <3>7. QED
      BY <1>12, <3>6
  <2>3. of[1] = 0
    BY <1>4, <1>5, <1>6, <1>2 DEF ScopesFit, Nesting
  <2>4. QED
    BY <1>6, <1>9, <2>1, <2>2, <2>3
<1>13. CASE inside # {}
  <2>1. PICK r : r \in inside
    BY <1>13
  <2>2. e # 0 /\ e \in Around(B, Cl, i) \ M /\ e \in B /\ e \in Int
    <3>1. PICK w : w = Whose(text, of[r]) /\ w \in Around(B, Cl, i) /\ w <= e
      BY <1>11, <2>1
    <3>2. w \in Int /\ w >= 1
      <4>1. w \in B
        BY <3>1 DEF Around
      <4>2. QED
        BY <1>2, <4>1 DEF Nesting
    <3>3. e # 0
      BY <3>1, <3>2
    <3>4. e \in Around(B, Cl, i) \ M /\ e \in B
      BY <1>10, <3>3 DEF Around
    <3>5. QED
      BY <1>2, <3>3, <3>4 DEF Nesting
  <2>3. PICK z \in 1 .. m : of[z] = e
    BY <1>1, <1>4, <1>5, <1>6, <2>2 DEF ScopesFit
  <2>4. Whose(text, e) = e
    <3>1. e \in Begun(text) \ Loopers(text) /\ e \in Spanned(text)
      BY <1>1, <2>2 DEF Spanned
    <3>2. QED
      BY <3>1, WhoseIs
  <2>5. z # 1
    BY <1>4, <1>6, <2>2, <2>3 DEF ScopesFit
  <2>6. z \in inside
    BY <1>8, <2>2, <2>3, <2>4, <2>5
  <2> DEFINE size(s) == index.scopes[s].span.end - index.scopes[s].span.start
  <2>7. ASSUME NEW s \in inside
        PROVE  /\ size(z) <= size(s)
               /\ Whose(text, of[s]) # e => size(z) < size(s)
               /\ size(s) \in Int
    <3>1. PICK b, v : b = of[s] /\ v = Whose(text, b)
      OBVIOUS
    <3>2. s \in 1 .. m /\ s # 1 /\ v \in Around(B, Cl, i) /\ v <= e
      BY <1>11, <2>7, <3>1
    <3>3. b \in Begun(text) \ Loopers(text) /\ sc[s].span = ScopeSpan(text, b)
      BY <1>1, <1>8, <3>1, <3>2
    <3>4. e \in Begun(text) \ Loopers(text) /\ sc[z].span = ScopeSpan(text, e)
      BY <1>1, <1>8, <2>2, <2>3, <2>5
    <3>5. v \in Int
      <4>1. v \in B
        BY <3>2 DEF Around
      <4>2. QED
        BY <1>2, <4>1 DEF Nesting
    <3>6. v \in Around(Begun(text), Closers(text), i) /\ e \in Around(Begun(text), Closers(text), i)
      BY <1>1, <2>2, <3>2
    <3>7. v # e => v < e
      BY <2>2, <3>2, <3>5
    <3>8. /\ ScopeSpan(text, e).end - ScopeSpan(text, e).start <= ScopeSpan(text, b).end - ScopeSpan(text, b).start
          /\ v < e => ScopeSpan(text, e).end - ScopeSpan(text, e).start < ScopeSpan(text, b).end - ScopeSpan(text, b).start
      BY <1>2, <2>4, <3>1, <3>2, <3>3, <3>4, <3>6, Smaller
    <3>9. v <= v /\ ScopeSpan(text, b).end - ScopeSpan(text, b).start \in Int
      BY <1>2, <3>1, <3>3, <3>5, <3>6, Smaller
    <3>10. QED
      BY <1>3, <3>1, <3>3, <3>4, <3>7, <3>8, <3>9
  <2>8. PICK smallest : smallest = {s \in inside : \A r2 \in inside : size(s) <= size(r2)}
    OBVIOUS
  <2>9. ScopeAt(p) = Min(smallest)
    BY <1>7, <1>13, <2>8 DEF ScopeAt
  <2>10. z \in smallest
    BY <2>6, <2>7, <2>8
  <2>11. \A s \in smallest : s \in 1 .. m /\ z <= s
    <3>1. TAKE s \in smallest
    <3>2. s \in inside /\ size(s) <= size(z)
      BY <2>6, <2>8
    <3>3. Whose(text, of[s]) = e
      BY <2>6, <2>7, <3>2
    <3>4. e <= of[s] /\ of[s] \in Int /\ s \in 1 .. m
      BY <1>11, <3>2, <3>3
    <3>5. SUFFICES ASSUME s < z PROVE FALSE
      BY <3>4
    <3>6. of[s] < of[z]
      BY <1>4, <1>6, <3>4, <3>5 DEF ScopesFit
    <3>7. QED
      BY <2>2, <2>3, <3>4, <3>6
  <2>12. Min(smallest) \in smallest /\ \A x \in smallest : Min(smallest) <= x
    <3>1. smallest \subseteq Nat /\ smallest # {}
      BY <2>10, <2>11
    <3>2. QED
      BY <3>1, Smallest
  <2>13. ScopeAt(p) = z
    <3>1. PICK y : y = Min(smallest)
      OBVIOUS
    <3>2. y \in 1 .. m /\ z <= y /\ y <= z
      BY <2>10, <2>11, <2>12, <3>1
    <3>3. QED
      BY <2>3, <2>9, <3>1, <3>2
  <2>14. QED
    BY <1>6, <1>9, <2>3, <2>13
<1>14. QED
  BY <1>12, <1>13

Sizes(t, ix, of, m) ==
  /\ m \in Nat /\ DOMAIN of = 1 .. m /\ DOMAIN ix.scopes = 1 .. m /\ Len(ix.scopes) = m
  /\ \A s \in 1 .. m : of[s] \in {0} \cup Begun(t)
  /\ \A s \in 1 .. m : \/ of[s] = 0 /\ ix.scopes[s].parent = 0
                       \/ /\ of[s] \in Begun(t) /\ ix.scopes[s].parent \in 1 .. (s - 1)
                          /\ of[ix.scopes[s].parent] = ScopeIn(t, of[s])
  /\ \A s, r \in 1 .. m : of[s] = of[r] => s = r

(* The scopes are as many as the bodies with scopes, and the program. *)
LEMMA Sized ==
  ASSUME NEW t, NEW ix, NEW of, Indexed(t, ix, of)
  PROVE  \E m : Sizes(t, ix, of, m)
<1>1. PICK sc, S : sc = ix.scopes /\ S = ScopedBefore(t, Len(t) + 1)
  OBVIOUS
<1>2. ScopesFit(t, sc, of, S) /\ sc \in Seq(ScopeSet)
  BY <1>1 DEF Indexed, Collected, IndexSet
<1>3. PICK m : m = Len(of)
  OBVIOUS
<1>4. m \in Nat /\ DOMAIN of = 1 .. m /\ DOMAIN sc = 1 .. m /\ Len(sc) = m /\ \A s \in 1 .. m : of[s] \in Nat
  <2>1. of \in Seq(Nat) /\ Len(of) = Len(sc)
    BY <1>2 DEF ScopesFit
  <2>2. Len(of) \in Nat /\ DOMAIN of = 1 .. Len(of) /\ DOMAIN sc = 1 .. Len(of)
    BY <1>2, <2>1, LenProperties
  <2>3. \A s \in 1 .. Len(of) : of[s] \in Nat
    BY <2>1, ElementOfSeq
  <2>4. QED
    BY <1>3, <2>1, <2>2, <2>3
<1>5. \A s \in 1 .. m : \/ of[s] = 0 /\ sc[s].parent = 0
                        \/ of[s] \in Begun(t) /\ sc[s].parent \in 1 .. (s - 1) /\ of[sc[s].parent] = ScopeIn(t, of[s])
  <2>1. S \subseteq Begun(t)
    BY <1>2 DEF ScopesFit
  <2>2. QED
    BY <1>2, <1>4, <2>1 DEF ScopesFit
<1>6. \A s, r \in 1 .. m : of[s] = of[r] => s = r
  <2>1. SUFFICES ASSUME NEW s \in 1 .. m, NEW r \in 1 .. m, of[s] = of[r], s # r PROVE FALSE
    OBVIOUS
  <2>2. s < r \/ r < s
    BY <1>4, <2>1
  <2>3. of[s] < of[r] \/ of[r] < of[s]
    BY <1>2, <1>4, <2>2 DEF ScopesFit
  <2>4. QED
    BY <1>4, <2>1, <2>3
<1>7. \A s \in 1 .. m : of[s] \in {0} \cup Begun(t)
  BY <1>5
<1>8. Sizes(t, ix, of, m)
  BY <1>1, <1>4, <1>5, <1>6, <1>7 DEF Sizes
<1>9. QED
  BY <1>8

(* What a scope has of a name are declarations of its body.                 *)
Names(t, ix, of, name, s) ==
  Named(name, s) # {} =>
    LET r == ix.scopes[s].symbols[Min(Named(name, s))]
    IN  /\ r \in DOMAIN ix.symbols /\ r # 0
        /\ \E d \in DeclaredIn(t) : d.name = name /\ Home(t, d) = of[s] /\ ix.symbols[r] = SymbolOf(t, d)

(* What a scope has of a name is declared in its body. *)
LEMMA NamedIs ==
  ASSUME Formed(text), NEW of, Indexed(text, index, of), NEW name \in Name, NEW m, Sizes(text, index, of, m),
         NEW s \in 1 .. m
  PROVE  Names(text, index, of, name, s)
<1>1. SUFFICES ASSUME Named(name, s) # {}
               PROVE  /\ index.scopes[s].symbols[Min(Named(name, s))] \in DOMAIN index.symbols
                      /\ index.scopes[s].symbols[Min(Named(name, s))] # 0
                      /\ \E d \in DeclaredIn(text) :
                           /\ d.name = name /\ Home(text, d) = of[s]
                           /\ index.symbols[index.scopes[s].symbols[Min(Named(name, s))]] = SymbolOf(text, d)
  BY DEF Names
<1>2. PICK sc, sy, q, D : /\ sc = index.scopes /\ sy = index.symbols /\ q = sc[s].symbols
                          /\ D = DeclaredBefore(text, Len(text) + 1)
  OBVIOUS
<1>3. SymbolsFit(text, sc, sy, of, D) /\ sc \in Seq(ScopeSet) /\ sy \in Seq(SymbolSet)
  BY <1>2 DEF Indexed, Collected, IndexSet
<1>4. s \in DOMAIN sc
  BY <1>2 DEF Sizes
<1>5. q \in Seq(Nat) /\ DOMAIN q = 1 .. Len(q) /\ Len(q) \in Nat
  <2>1. sc[s] \in ScopeSet
    BY <1>3, <1>4
  <2>2. q \in Seq(Nat)
    BY <1>2, <2>1 DEF ScopeSet
  <2>3. QED
    BY <2>2, LenProperties
<1>6. Named(name, s) = {i \in DOMAIN q : sy[q[i]].name = name /\ sy[q[i]].kind # "variable"}
  BY <1>2 DEF Named
<1>7. Min(Named(name, s)) \in Named(name, s)
  <2>1. Named(name, s) \subseteq Nat
    BY <1>5, <1>6
  <2>2. QED
    BY <1>1, <2>1, Smallest
<1>8. PICK j : j = Min(Named(name, s)) /\ j \in DOMAIN q /\ sy[q[j]].name = name /\ sy[q[j]].kind # "variable"
  BY <1>6, <1>7
<1>9. PICK r : r = q[j]
  OBVIOUS
<1>10. r \in DOMAIN sy /\ Fits(text, sy[r], of[s])
  BY <1>2, <1>3, <1>4, <1>8, <1>9 DEF SymbolsFit
<1>11. r # 0
  BY <1>3, <1>10, LenProperties
<1>12. ~Usage(text, sy[r]) /\ sy[r].name # Hidden
  <2>1. name # Hidden
    BY NamesAssumption
  <2>2. QED
    BY <1>8, <1>9, <2>1 DEF Usage
<1>13. PICK d \in DeclaredIn(text) : sy[r] = SymbolOf(text, d) /\ Home(text, d) = of[s]
  BY <1>10, <1>12 DEF Fits, Declaring
<1>14. d.name = name
  <2>1. SymbolOf(text, d).name = d.name
    BY DEF SymbolOf
  <2>2. QED
    BY <1>8, <1>9, <1>13, <2>1
<1>15. QED
  BY <1>2, <1>8, <1>9, <1>10, <1>11, <1>13, <1>14

(* The symbol of a declaration is in the scope of its body.                 *)
LEMMA IsNamed ==
  ASSUME Formed(text), NEW of, Indexed(text, index, of), NEW m, Sizes(text, index, of, m),
         NEW d \in DeclaredIn(text), NEW name \in Name, d.name = name
  PROVE  \E s \in 1 .. m : of[s] = Home(text, d) /\ Named(name, s) # {}
<1>1. PICK sc, sy, D : sc = index.scopes /\ sy = index.symbols /\ D = DeclaredBefore(text, Len(text) + 1)
  OBVIOUS
<1>2. SymbolsFit(text, sc, sy, of, D) /\ sc \in Seq(ScopeSet) /\ sy \in Seq(SymbolSet)
  BY <1>1 DEF Indexed, Collected, IndexSet
<1>3. text \in Seq(Item)
  BY DEF Formed
<1>4. /\ d.item \in 1 .. Len(text) /\ KindOf(text, d) \in {"definition", "function", "class", "argument"}
      /\ d = [name |-> d.name, place |-> d.place, item |-> d.item]
  BY <1>3, DeclaredParts
<1>5. d \in D
  <2>1. d.name # Literal
    BY NamesAssumption
  <2>2. d.item < Len(text) + 1
    BY <1>3, <1>4, TextParts
  <2>3. QED
    BY <1>1, <2>1, <2>2 DEF DeclaredBefore
<1>6. PICK s \in DOMAIN sc : \E j \in DOMAIN sc[s].symbols : sy[sc[s].symbols[j]] = SymbolOf(text, d)
  BY <1>2, <1>5 DEF SymbolsFit
<1>7. PICK j \in DOMAIN sc[s].symbols : sy[sc[s].symbols[j]] = SymbolOf(text, d)
  BY <1>6
<1>8. PICK x : /\ x = SymbolOf(text, d) /\ x.name = name /\ x.kind = KindOf(text, d)
               /\ x.place = d.place /\ x.item = d.item /\ x.kind # "variable"
  <2>1. PICK a, b, c, e : a = d.name /\ b = KindOf(text, d) /\ c = d.place /\ e = d.item
    OBVIOUS
  <2>2. PICK x : x = SymbolOf(text, d) /\ x = [name |-> a, kind |-> b, place |-> c, item |-> e]
    BY <2>1 DEF SymbolOf
  <2>3. x.name = a /\ x.kind = b /\ x.place = c /\ x.item = e
    BY <2>2
  <2>4. QED
    BY <1>4, <2>1, <2>2, <2>3
<1>9. Fits(text, x, of[s])
  BY <1>2, <1>6, <1>7, <1>8 DEF SymbolsFit
<1>10. ~Usage(text, x) /\ x.name # Hidden
  <2>1. name # Hidden
    BY NamesAssumption
  <2>2. QED
    BY <1>8, <2>1 DEF Usage
<1>11. PICK c \in DeclaredIn(text) : x = SymbolOf(text, c) /\ Home(text, c) = of[s]
  BY <1>9, <1>10 DEF Fits, Declaring
<1>12. c = d
  <2>1. c = [name |-> c.name, place |-> c.place, item |-> c.item]
    BY <1>3, DeclaredParts
  <2>2. x.name = c.name /\ x.place = c.place /\ x.item = c.item
    BY <1>11 DEF SymbolOf
  <2>3. QED
    BY <1>4, <1>8, <2>1, <2>2
<1>13. j \in Named(name, s)
  BY <1>1, <1>7, <1>8 DEF Named
<1>14. s \in 1 .. m
  BY <1>1 DEF Sizes
<1>15. QED
  BY <1>11, <1>12, <1>13, <1>14

(* FindDefinition climbs.                                                   *)
ClimbedTo(m, par, has, val, z, r) == \E f : Climbs(m, par, has, val, f) /\ r = f[z]

(* FindDefinition is such a search. *)
LEMMA FindIs ==
  ASSUME Formed(text), NEW of, Indexed(text, index, of), NEW name \in Name, NEW m, Sizes(text, index, of, m),
         NEW par, par = [s \in 1 .. m |-> index.scopes[s].parent],
         NEW has, has = [s \in 1 .. m |-> Named(name, s) # {}],
         NEW val, val = [s \in 1 .. m |-> index.scopes[s].symbols[Min(Named(name, s))]],
         NEW p, NEW z, z = ScopeAt(p), NEW r, r = FindDefinition(name, p)
  PROVE  ClimbedTo(m, par, has, val, z, r)
<1> DEFINE named(s) == Named(name, s) # {}
           value(s) == index.scopes[s].symbols[Min(Named(name, s))]
           outer(s) == index.scopes[s].parent
           climb == CHOOSE f : f = [s \in 0 .. m |-> IF s = 0 THEN 0 ELSE IF named(s) THEN value(s) ELSE f[outer(s)]]
<1>1. m \in Nat /\ Len(index.scopes) = m
  BY DEF Sizes
<1>2. FindDefinition(name, p) = climb[ScopeAt(p)]
  BY <1>1 DEF FindDefinition
<1>3. \A s \in 1 .. m : par[s] \in 0 .. (s - 1)
  <2>1. TAKE s \in 1 .. m
  <2>2. index.scopes[s].parent = 0 \/ index.scopes[s].parent \in 1 .. (s - 1)
    BY DEF Sizes
  <2>3. QED
    BY <1>1, <2>2
<1>4. PICK e : Climbs(m, par, has, val, e)
  BY <1>1, <1>3, ClimbExists
<1>5. \A s \in 1 .. m : (has[s] <=> named(s)) /\ val[s] = value(s) /\ par[s] = outer(s)
  OBVIOUS
<1> HIDE DEF named, value, outer
<1>6. \A s \in 0 .. m : s = 0 \/ s \in 1 .. m
  BY <1>1
<1>7. ASSUME NEW f
      PROVE  [s \in 0 .. m |-> IF s = 0 THEN 0 ELSE IF has[s] THEN val[s] ELSE f[par[s]]]
             = [s \in 0 .. m |-> IF s = 0 THEN 0 ELSE IF named(s) THEN value(s) ELSE f[outer(s)]]
  BY <1>5, <1>6
<1>8. e = [s \in 0 .. m |-> IF s = 0 THEN 0 ELSE IF named(s) THEN value(s) ELSE e[outer(s)]]
  BY <1>4, <1>7 DEF Climbs
<1>9. climb = [s \in 0 .. m |-> IF s = 0 THEN 0 ELSE IF named(s) THEN value(s) ELSE climb[outer(s)]]
  BY <1>8
<1> HIDE DEF climb
<1>10. Climbs(m, par, has, val, climb)
  BY <1>7, <1>9 DEF Climbs
<1>11. QED
  BY <1>2, <1>10 DEF ClimbedTo

Finding(t, ix, name, i, r) ==
  /\ r = 0 => \A d \in DeclaredIn(t) : d.name = name => ~Near(t, i, d)
  /\ r # 0 => /\ r \in DOMAIN ix.symbols
              /\ \E d \in DeclaredIn(t) : d.name = name /\ Near(t, i, d) /\ ix.symbols[r] = SymbolOf(t, d)

(* It finds a declaration in the scopes searched, and none only if there is *)
(* none.                                                                    *)
LEMMA Finds ==
  ASSUME Formed(text), NEW of, Indexed(text, index, of), NEW name \in Name, NEW i, NEW p, Spots(text, i, p),
         NEW r, r = FindDefinition(name, p)
  PROVE  Finding(text, index, name, i, r)
<1>1. PICK m : Sizes(text, index, of, m)
  BY Sized
<1>2. PICK par, has, val : /\ par = [s \in 1 .. m |-> index.scopes[s].parent]
                           /\ has = [s \in 1 .. m |-> Named(name, s) # {}]
                           /\ val = [s \in 1 .. m |-> index.scopes[s].symbols[Min(Named(name, s))]]
  OBVIOUS
<1>3. PICK f : Climbs(m, par, has, val, f) /\ r = f[ScopeAt(p)]
  <2>1. PICK y : y = ScopeAt(p)
    OBVIOUS
  <2>2. ClimbedTo(m, par, has, val, y, r)
    BY <1>1, <1>2, <2>1, FindIs
  <2>3. QED
    BY <2>1, <2>2 DEF ClimbedTo
<1>4. PICK n, B, E, If, Cl, L : /\ n = Len(text) /\ B = Begun(text) /\ E = Ended(text) /\ If = Ifs(text)
                                /\ Cl = Closers(text) /\ L = Loopers(text)
  OBVIOUS
<1>5. Nesting(n, B, E, If, Cl)
  BY <1>4, Nests
<1>6. PICK z : z = ScopeAt(p) /\ z \in 1 .. m /\ of[z] = Seat(text, i)
  BY <1>1, SeatIs DEF Sizes
<1>7. m \in Nat /\ of \in [1 .. m -> {0} \cup B]
  <2>1. of = [s \in 1 .. m |-> of[s]]
    <3>1. of \in Seq(Nat) /\ DOMAIN of = 1 .. m
      BY <1>1 DEF Indexed, Collected, ScopesFit, Sizes
    <3>2. QED
      BY <3>1
  <2>2. m \in Nat /\ \A s \in 1 .. m : of[s] \in {0} \cup B
    BY <1>1, <1>4 DEF Sizes
  <2>3. QED
    BY <2>1, <2>2
<1>8. \A s \in 1 .. m : \/ of[s] = 0 /\ par[s] = 0
                        \/ of[s] \in B /\ par[s] \in 1 .. (s - 1) /\ of[par[s]] = Outer(B, Cl, L, of[s])
  <2>1. TAKE s \in 1 .. m
  <2>2. par[s] = index.scopes[s].parent
    BY <1>2
  <2>3. QED
    BY <1>1, <1>4, <2>2 DEF Sizes, ScopeIn
<1>9. \A s, q \in 1 .. m : of[s] = of[q] => s = q
  BY <1>1 DEF Sizes
<1>10. \A s \in 1 .. m : Names(text, index, of, name, s)
  BY <1>1, NamedIs
<1>11. \A s \in 1 .. m : has[s] => /\ val[s] # 0 /\ val[s] \in DOMAIN index.symbols
                                   /\ \E d \in DeclaredIn(text) : /\ d.name = name /\ Home(text, d) = of[s]
                                                                  /\ index.symbols[val[s]] = SymbolOf(text, d)
  <2>1. TAKE s \in 1 .. m
  <2>2. HAVE has[s]
  <2>3. Named(name, s) # {} /\ val[s] = index.scopes[s].symbols[Min(Named(name, s))]
    BY <1>2, <2>2
  <2>4. QED
    BY <1>10, <2>3 DEF Names
<1>12. \A s \in 1 .. m : has[s] => val[s] # 0
  BY <1>11
<1>13. PICK S : S = Reach(B, Cl, L, of[z])
  OBVIOUS
<1>14. /\ f[z] = 0 => \A q \in 1 .. m : of[q] \in S => ~has[q]
       /\ f[z] # 0 => \E q \in 1 .. m : of[q] \in S /\ has[q] /\ f[z] = val[q]
  <2>1. Scopewise(B, Cl, L, m, par, has, val, of)
    BY <1>7, <1>8, <1>9, <1>12 DEF Scopewise
  <2>2. Climbed(B, Cl, L, m, has, val, of, f, z)
    BY <1>3, <1>5, <1>6, <2>1, Climbing
  <2>3. QED
    BY <1>13, <2>2 DEF Climbed
<1>15. \A d \in DeclaredIn(text) : Near(text, i, d) <=> Home(text, d) \in S
  BY <1>4, <1>6, <1>13 DEF Near
<1>16. ASSUME r = 0, NEW d \in DeclaredIn(text), d.name = name, Near(text, i, d)
       PROVE  FALSE
  <2>1. PICK s \in 1 .. m : of[s] = Home(text, d) /\ Named(name, s) # {}
    BY <1>1, <1>16, IsNamed
  <2>2. has[s]
    BY <1>2, <2>1
  <2>3. QED
    BY <1>3, <1>6, <1>14, <1>15, <1>16, <2>1, <2>2
<1>17. ASSUME r # 0
       PROVE  /\ r \in DOMAIN index.symbols
              /\ \E d \in DeclaredIn(text) : d.name = name /\ Near(text, i, d) /\ index.symbols[r] = SymbolOf(text, d)
  <2>1. PICK q \in 1 .. m : of[q] \in S /\ has[q] /\ r = val[q]
    BY <1>3, <1>6, <1>14, <1>17
  <2>2. PICK d \in DeclaredIn(text) : d.name = name /\ Home(text, d) = of[q] /\ index.symbols[r] = SymbolOf(text, d)
    BY <1>11, <2>1
  <2>3. r \in DOMAIN index.symbols
    BY <1>11, <2>1
  <2>4. QED
    BY <1>15, <2>1, <2>2, <2>3
<1>18. QED
  BY <1>16, <1>17 DEF Finding

-----------------------------------------------------------------------------
(***************************************************************************)
(* The statement of a place.                                               *)
(***************************************************************************)

(* Finish is where the last body of the statement ends. *)
LEMMA FinishIs ==
  ASSUME Formed(text), NEW j \in 1 .. Len(text), j \notin Ended(text), NEW B, NEW Cl, B = Begun(text), Cl = Closers(text)
  PROVE  Finish(j) = IF j \in B THEN End(B, Cl, j) ELSE j
<1>1. PICK n, E, If : n = Len(text) /\ E = Ended(text) /\ If = Ifs(text)
  OBVIOUS
<1>2. Nesting(n, B, E, If, Cl)
  BY <1>1, Nests
<1>3. text[j].op \in Opens <=> j \in B
  BY DEF Begun, Beginners, Opens, Ended
<1>4. CASE j \notin B
  BY <1>3, <1>4 DEF Finish
<1>5. CASE j \in B
  <2>1. PICK c : c = Closer(text, j) /\ c = Cl[j]
    BY DEF Closers
  <2>2. c \in E /\ E \subseteq 1 .. n
    BY <1>2, <1>5, <2>1 DEF Nesting
  <2>3. text[c].op = "else" <=> c \in B
    BY <1>1, <2>2 DEF Begun, Ended, Beginners, Opens
  <2>4. c \in B => Closer(text, c) = Cl[c]
    BY DEF Closers, Begun
  <2>5. QED
    BY <1>3, <1>5, <2>1, <2>3, <2>4 DEF Finish, End
<1>6. QED
  BY <1>4, <1>5

(* A statement spans what it begins.                                        *)
LEMMA SpansTo ==
  ASSUME NEW j, NEW e \in Int, j \in Int, e = Finish(j), NEW k \in Int, NEW q \in {1, 3}
  PROVE  Within(Place(k, q), StatementSpan(j)) <=> j <= k /\ k <= e
<1>1. StatementSpan(j) = Span(10 * (j - 1) + 0, 10 * (e - 1) + 9)
  BY DEF StatementSpan, Place, Width
<1>2. Within(Place(k, q), StatementSpan(j)) <=> /\ 10 * (k - 1) + q >= 10 * (j - 1) + 0
                                                /\ 10 * (k - 1) + q <= 10 * (e - 1) + 9
  BY <1>1 DEF Within, Span, Place, Width
<1>3. QED
  BY <1>2

(* Statements passed, by the second walk, that contain item k.              *)
Containing(t, u, k) == {j \in 1 .. u : j \notin Ended(t) /\ j <= k /\ k <= Finish(j)}

(* FindStatement is the last of them. *)
LEMMA StatementIs ==
  ASSUME Formed(text), NEW u \in Nat, u <= Len(text), DOMAIN types = 1 .. u, NEW k \in 1 .. Len(text), NEW q \in {1, 3},
         NEW p, p = Place(k, q)
  PROVE  FindStatement(p) = Max({0} \cup Containing(text, u, k))
<1>1. text \in Seq(Item) /\ Len(text) \in Nat
  BY TextParts DEF Formed
<1>2. PICK B, E, Cl, n, If : B = Begun(text) /\ E = Ended(text) /\ Cl = Closers(text) /\ n = Len(text) /\ If = Ifs(text)
  OBVIOUS
<1>3. Nesting(n, B, E, If, Cl)
  BY <1>2, Nests
<1>4. ASSUME NEW j \in 1 .. u, text[j].op \notin {"else", "end"}
      PROVE  Within(p, StatementSpan(j)) <=> j <= k /\ k <= Finish(j)
  <2>1. j \in 1 .. Len(text) /\ j \notin E /\ j \in Int
    BY <1>1, <1>2, <1>4 DEF Ended
  <2>2. Finish(j) = IF j \in B THEN End(B, Cl, j) ELSE j
    BY <1>2, <2>1, FinishIs
  <2>3. Finish(j) \in Int
    <3>1. CASE j \in B
      <4>1. End(B, Cl, j) \in E
        BY <1>3, <2>1, <3>1, Ends
      <4>2. \A e \in E : e \in Int
        BY <1>3 DEF Nesting
      <4>3. QED
        BY <2>2, <3>1, <4>1, <4>2
    <3>2. CASE j \notin B
      BY <2>1, <2>2, <3>2
    <3>3. QED
      BY <3>1, <3>2
  <2>4. PICK e : e = Finish(j)
    OBVIOUS
  <2>5. k \in Int /\ e \in Int
    BY <1>1, <2>3, <2>4
  <2>6. QED
    BY <2>1, <2>4, <2>5, SpansTo
<1>5. {i \in DOMAIN types : /\ text[i].op \notin {"else", "end"}
                            /\ Within(p, StatementSpan(i))} = Containing(text, u, k)
  <2>1. \A j \in 1 .. u : j \notin Ended(text) <=> text[j].op \notin {"else", "end"}
    BY <1>1 DEF Ended
  <2>2. QED
    BY <1>4, <2>1 DEF Containing
<1>6. QED
  BY <1>5 DEF FindStatement

(* That of a declaration passed is its item.                                *)
LEMMA OwnStatement ==
  ASSUME Formed(text), NEW u \in Nat, u <= Len(text), DOMAIN types = 1 .. u, NEW k \in 1 .. u, k \notin Ended(text),
         NEW p, p \in {Place(k, 1), Place(k, 3)}
  PROVE  FindStatement(p) = k
<1>1. text \in Seq(Item) /\ Len(text) \in Nat /\ k \in 1 .. Len(text) /\ k \in Int
  BY TextParts DEF Formed
<1>2. PICK S : S = {0} \cup Containing(text, u, k)
  OBVIOUS
<1>3. FindStatement(p) = Max(S)
  <2>1. PICK q \in {1, 3} : p = Place(k, q)
    OBVIOUS
  <2>2. QED
    BY <1>1, <1>2, <2>1, StatementIs
<1>4. k <= Finish(k)
  <2>1. PICK B, E, Cl, n, If : B = Begun(text) /\ E = Ended(text) /\ Cl = Closers(text) /\ n = Len(text) /\ If = Ifs(text)
    OBVIOUS
  <2>2. Nesting(n, B, E, If, Cl)
    BY <2>1, Nests
  <2>3. Finish(k) = IF k \in B THEN End(B, Cl, k) ELSE k
    BY <1>1, <2>1, FinishIs
  <2>4. CASE k \in B
    <3>1. End(B, Cl, k) \in E /\ k < End(B, Cl, k)
      BY <2>1, <2>2, <2>4, Ends
    <3>2. \A e \in E : e \in Int
      BY <2>2 DEF Nesting
    <3>3. QED
      BY <1>1, <2>3, <2>4, <3>1, <3>2
  <2>5. CASE k \notin B
    BY <1>1, <2>3, <2>5
  <2>6. QED
    BY <2>4, <2>5
<1>5. k \in S /\ \A j \in S : j <= k
  BY <1>1, <1>2, <1>4 DEF Containing
<1>6. S \subseteq 0 .. u
  BY <1>2 DEF Containing
<1>7. Max(S) \in S /\ \A x \in S : Max(S) >= x
  BY <1>5, <1>6, Greatest
<1>8. PICK m : m = Max(S)
  OBVIOUS
<1>9. m <= k /\ m >= k /\ m \in Int
  <2>1. m \in S /\ \A x \in S : m >= x
    BY <1>7, <1>8
  <2>2. m \in 0 .. u
    BY <1>6, <2>1
  <2>3. QED
    BY <1>5, <2>1, <2>2
<1>10. QED
  BY <1>1, <1>3, <1>8, <1>9

(* For the item the walk is at it is the one entered last.                  *)
LEMMA EnteredStatement ==
  ASSUME Formed(text), NEW k \in 1 .. Len(text), DOMAIN types = 1 .. (k - 1),
         NEW p, p = Place(k, 1)
  PROVE  FindStatement(p) = Max({0} \cup EnteredIn(text, k))
<1>1. text \in Seq(Item) /\ Len(text) \in Nat /\ k \in Int
  BY TextParts DEF Formed
<1>2. PICK u \in Nat : u = k - 1
  BY <1>1
<1>3. PICK q \in {1, 3} : p = Place(k, q)
  OBVIOUS
<1>4. FindStatement(p) = Max({0} \cup Containing(text, u, k))
  BY <1>1, <1>2, <1>3, StatementIs
<1>5. PICK B, E, Cl, n, If : B = Begun(text) /\ E = Ended(text) /\ Cl = Closers(text) /\ n = Len(text) /\ If = Ifs(text)
  OBVIOUS
<1>6. Nesting(n, B, E, If, Cl)
  BY <1>5, Nests
<1>7. \A j \in 1 .. u : j \notin E => (k <= Finish(j) <=> j \in B /\ k <= End(B, Cl, j))
  <2>1. TAKE j \in 1 .. u
  <2>2. HAVE j \notin E
  <2>3. j \in 1 .. Len(text) /\ ~(k <= j)
    BY <1>1, <1>2
  <2>4. Finish(j) = IF j \in B THEN End(B, Cl, j) ELSE j
    BY <1>5, <2>2, <2>3, FinishIs
  <2>5. QED
    BY <2>3, <2>4
<1>8. Containing(text, u, k) = Entered(B, E, Cl, k)
  <2>1. \A j \in B : j \in Int /\ j >= 1
    BY <1>6 DEF Nesting
  <2>2. \A j \in B : j < k <=> j \in 1 .. u
    BY <1>1, <1>2, <2>1
  <2>3. \A j \in 1 .. u : j <= k
    BY <1>1, <1>2
  <2>4. QED
    BY <1>5, <1>7, <2>2, <2>3 DEF Containing, Entered
<1>9. QED
  BY <1>4, <1>5, <1>8 DEF EnteredIn

(* A lambda is entered last when it is the body: what is entered and does   *)
(* not go around an item is an if whose else does.                          *)
LEMMA EnteredAround ==
  ASSUME NEW n, NEW B, NEW E, NEW If, NEW Cl, Nesting(n, B, E, If, Cl), NEW i \in 1 .. n, i \notin E,
         NEW a \in Entered(B, E, Cl, i)
  PROVE  a \in Around(B, Cl, i) \/ (a \in If /\ \E e \in Around(B, Cl, i) : a < e)
<1>1. a \in B /\ a \notin E /\ a < i /\ i <= End(B, Cl, a)
  BY DEF Entered
<1>2. End(B, Cl, a) \in E /\ Cl[a] \in E /\ a < Cl[a]
  <2>1. End(B, Cl, a) \in E
    BY <1>1, Ends
  <2>2. QED
    BY <1>1, <2>1 DEF Nesting
<1>3. \A x \in E \cup B : x \in Int
  BY DEF Nesting
<1>4. n \in Nat
  BY DEF Nesting
<1>5. i < End(B, Cl, a) /\ (i < Cl[a] \/ Cl[a] < i)
  BY <1>1, <1>2, <1>3, <1>4
<1>6. CASE i < Cl[a]
  BY <1>1, <1>6 DEF Around
<1>7. CASE Cl[a] < i
  <2>1. PICK e : e = Cl[a]
    OBVIOUS
  <2>2. e \in B /\ End(B, Cl, a) = Cl[e]
    <3>1. End(B, Cl, a) # Cl[a]
      BY <1>2, <1>3, <1>4, <1>5, <1>7
    <3>2. QED
      BY <2>1, <3>1 DEF End
  <2>3. e \in Around(B, Cl, i) /\ a < e
    BY <1>2, <1>5, <1>7, <2>1, <2>2 DEF Around
  <2>4. PICK b \in If : Cl[b] = e
    BY <1>2, <2>1, <2>2 DEF Nesting
  <2>5. b \in B
    BY <2>4 DEF Nesting
  <2>6. b = a
    BY <1>1, <2>1, <2>4, <2>5, ClosedOnce
  <2>7. QED
    BY <2>3, <2>4, <2>6
<1>8. QED
  BY <1>5, <1>6, <1>7

(* The statement entered last is a lambda just when the body is. *)
LEMMA InnerEntered ==
  ASSUME NEW n, NEW B, NEW E, NEW If, NEW Cl, Nesting(n, B, E, If, Cl), NEW i \in 1 .. n, i \notin E,
         NEW Lam, Lam \subseteq B \ E, Lam \cap If = {},
         NEW m, m = Max({0} \cup Entered(B, E, Cl, i)), NEW y, y = Outer(B, Cl, {}, i)
  PROVE  m \in Lam \/ y \in Lam => m = y
<1>1. y \in {0} \cup (Around(B, Cl, i) \ {}) /\ \A b \in Around(B, Cl, i) \ {} : b <= y
  BY OuterIs
<1>2. n \in Nat /\ \A x \in E \cup B : x \in 1 .. n
  BY DEF Nesting
<1>3. m \in {0} \cup Entered(B, E, Cl, i) /\ \A x \in {0} \cup Entered(B, E, Cl, i) : m >= x
  <2>1. PICK S : S = {0} \cup Entered(B, E, Cl, i)
    OBVIOUS
  <2>2. S \subseteq 0 .. n
    <3>1. \A x \in S : x = 0 \/ x \in B
      BY <2>1 DEF Entered
    <3>2. QED
      BY <1>2, <3>1
  <2>3. QED
    BY <1>2, <2>1, <2>2, Greatest
<1>4. m \in Int /\ y \in Int /\ i \in Int
  <2>1. m = 0 \/ m \in B
    BY <1>3 DEF Entered
  <2>2. y = 0 \/ y \in B
    BY <1>1 DEF Around
  <2>3. QED
    BY <1>2, <2>1, <2>2
<1>5. ASSUME y \in Lam PROVE m = y
  <2>1. y \in Around(B, Cl, i) /\ y \in B \ E
    BY <1>1, <1>2, <1>5
  <2>2. y \in Entered(B, E, Cl, i)
    <3>1. Cl[y] <= End(B, Cl, y) /\ End(B, Cl, y) \in E /\ Cl[y] \in E
      <4>1. Cl[y] <= End(B, Cl, y) /\ End(B, Cl, y) \in E
        BY <2>1, Ends
      <4>2. QED
        BY <2>1, <4>1 DEF Nesting
    <3>2. y < i /\ i < Cl[y]
      BY <2>1 DEF Around
    <3>3. Cl[y] \in Int /\ End(B, Cl, y) \in Int
      BY <1>2, <3>1
    <3>4. i <= End(B, Cl, y)
      BY <1>4, <3>1, <3>2, <3>3
    <3>5. QED
      BY <2>1, <3>2, <3>4 DEF Entered
  <2>3. m \in Entered(B, E, Cl, i) /\ y <= m
    <3>1. m >= y
      BY <1>3, <2>2
    <3>2. y >= 1
      BY <1>2, <2>1
    <3>3. QED
      BY <1>3, <1>4, <3>1, <3>2
  <2>4. CASE m \in Around(B, Cl, i)
    <3>1. m <= y
      BY <1>1, <2>4
    <3>2. QED
      BY <1>4, <2>3, <3>1
  <2>5. CASE m \notin Around(B, Cl, i)
    <3>1. PICK e \in Around(B, Cl, i) : m < e
      BY <2>3, <2>5, EnteredAround
    <3>2. e <= y /\ e \in Int
      BY <1>1, <1>2, <3>1 DEF Around
    <3>3. QED
      BY <1>4, <2>3, <3>1, <3>2
  <2>6. QED
    BY <2>4, <2>5
<1>6. ASSUME m \in Lam PROVE m = y
  <2>1. m \in Entered(B, E, Cl, i) /\ m \in B \ E /\ m >= 1
    BY <1>2, <1>3, <1>6
  <2>2. m \in Around(B, Cl, i)
    BY <1>6, <2>1, EnteredAround
  <2>3. m <= y /\ y # 0
    BY <1>1, <1>4, <2>1, <2>2
  <2>4. y \in Around(B, Cl, i) /\ y \in B /\ y < i /\ i < Cl[y]
    BY <1>1, <2>3 DEF Around
  <2>5. CASE y \notin E
    <3>1. y \in Entered(B, E, Cl, i)
      <4>1. Cl[y] <= End(B, Cl, y) /\ End(B, Cl, y) \in E
        BY <2>4, <2>5, Ends
      <4>2. Cl[y] \in E
        BY <2>4 DEF Nesting
      <4>3. Cl[y] \in Int /\ End(B, Cl, y) \in Int
        BY <1>2, <4>1, <4>2
      <4>4. i <= End(B, Cl, y)
        BY <1>4, <2>4, <4>1, <4>3
      <4>5. QED
        BY <2>4, <2>5, <4>4 DEF Entered
    <3>2. m >= y
      BY <1>3, <3>1
    <3>3. QED
      BY <1>4, <2>3, <3>2
  <2>6. CASE y \in E
    <3>1. PICK b \in If : Cl[b] = y
      BY <2>4, <2>6 DEF Nesting
    <3>2. b \in B \ E /\ b < y
      BY <3>1 DEF Nesting
    <3>3. b \in Int /\ Cl[y] \in Int
      <4>1. Cl[y] \in E
        BY <2>4 DEF Nesting
      <4>2. QED
        BY <1>2, <3>2, <4>1
    <3>4. End(B, Cl, b) = Cl[y]
      BY <2>4, <3>1 DEF End
    <3>5. b \in Entered(B, E, Cl, i)
      BY <1>4, <2>4, <3>2, <3>3, <3>4 DEF Entered
    <3>6. b <= m /\ b # m
      <4>1. m >= b
        BY <1>3, <3>5
      <4>2. QED
        BY <1>4, <1>6, <3>1, <3>3, <4>1
    <3>7. m < y
      BY <1>4, <2>1, <2>3, <2>6
    <3>8. Cl[m] < y
      <4>1. b < m
        BY <1>4, <3>3, <3>6
      <4>2. QED
        BY <2>1, <3>1, <3>2, <3>7, <4>1 DEF Nesting
    <3>9. i < Cl[m]
      BY <2>2 DEF Around
    <3>10. Cl[m] \in Int
      <4>1. Cl[m] \in E
        BY <2>1 DEF Nesting
      <4>2. QED
        BY <1>2, <4>1
    <3>11. QED
      BY <1>4, <2>4, <3>8, <3>9, <3>10
  <2>7. QED
    BY <2>5, <2>6
<1>7. QED
  BY <1>5, <1>6

-----------------------------------------------------------------------------
(***************************************************************************)
(* Texts as the properties see them.                                       *)
(***************************************************************************)

(* The bodies around an item. *)
LEMMA BodiesAre ==
  ASSUME Formed(text), NEW i \in 1 .. Len(text)
  PROVE  /\ Bodies(i) = BodiesIn(text, i) /\ Body(i) = BodyIn(text, i)
         /\ InClass(i) <=> ClassedIn(text, i)
         /\ ScopeBody(i) = ScopeIn(text, i)
<1>1. PICK n, B, E, If, Cl, L : /\ n = Len(text) /\ B = Begun(text) /\ E = Ended(text) /\ If = Ifs(text)
                                /\ Cl = Closers(text) /\ L = Loopers(text)
  OBVIOUS
<1>2. Nesting(n, B, E, If, Cl) /\ n \in Nat
  BY <1>1, Nests DEF Nesting
<1>3. \A b \in 1 .. (i - 1) : /\ b \in 1 .. n /\ b < i
                              /\ text[b].op \in Opens \cup {"else"} <=> b \in B
                              /\ b \in B => Closer(text, b) = Cl[b] /\ Cl[b] \in Int
  <2>1. TAKE b \in 1 .. (i - 1)
  <2>2. b \in 1 .. n /\ b < i
    BY <1>1, <1>2
  <2>3. text[b].op \in Opens \cup {"else"} <=> b \in B
    BY <1>1, <2>2 DEF Begun, Beginners
  <2>4. ASSUME b \in B PROVE Closer(text, b) = Cl[b] /\ Cl[b] \in Int
    <3>1. Cl[b] \in E /\ \A e \in E : e \in Int
      BY <1>2, <2>4 DEF Nesting
    <3>2. QED
      BY <1>1, <2>2, <3>1 DEF Closers
  <2>5. QED
    BY <2>2, <2>3, <2>4
<1>4. \A b \in B : b < i => b \in 1 .. (i - 1)
  <2>1. \A b \in B : b \in Int /\ b >= 1
    BY <1>2 DEF Nesting
  <2>2. i \in Int
    BY <1>1, <1>2
  <2>3. QED
    BY <2>1, <2>2
<1>5. Bodies(i) = {0} \cup Around(B, Cl, i)
  <2>1. \A b \in B : Cl[b] \in Int
    <3>1. \A b \in B : Cl[b] \in E
      BY <1>2 DEF Nesting
    <3>2. \A e \in E : e \in Int
      BY <1>2 DEF Nesting
    <3>3. QED
      BY <3>1, <3>2
  <2>2. \A b : (b \in 1 .. (i - 1) /\ text[b].op \in Opens \cup {"else"} /\ Closer(text, b) > i)
               <=> (b \in B /\ b < i /\ i < Cl[b])
    <3>1. TAKE b
    <3>2. CASE b \in 1 .. (i - 1) /\ b \in B
      <4>1. Closer(text, b) = Cl[b] /\ Cl[b] \in Int /\ i \in Int /\ b < i
        BY <1>1, <1>2, <1>3, <3>2
      <4>2. QED
        BY <1>3, <3>2, <4>1
    <3>3. CASE ~(b \in 1 .. (i - 1) /\ b \in B)
      BY <1>3, <1>4, <3>3
    <3>4. QED
      BY <3>2, <3>3
  <2>3. QED
    BY <2>2 DEF Bodies, Around
<1>6. Bodies(i) = BodiesIn(text, i)
  BY <1>1, <1>5 DEF BodiesIn
<1>7. Body(i) = BodyIn(text, i)
  BY <1>1, <1>5 DEF Body, BodyIn, Outer
<1>8. InClass(i) <=> ClassedIn(text, i)
  BY <1>7 DEF InClass, ClassedIn
<1>9. ScopeBody(i) = ScopeIn(text, i)
  <2>1. {b \in Bodies(i) : b = 0 \/ text[b].op \notin Loops} = {0} \cup (Around(B, Cl, i) \ L)
    <3>1. \A b \in Around(B, Cl, i) : b # 0 /\ (text[b].op \in Loops <=> b \in L)
      <4>1. \A b \in B : b # 0
        BY <1>2 DEF Nesting
      <4>2. QED
        BY <1>1, <4>1 DEF Around, Loopers
    <3>2. QED
      BY <1>5, <3>1
  <2>2. QED
    BY <1>1, <2>1 DEF ScopeBody, ScopeIn, Outer
<1>10. QED
  BY <1>6, <1>7, <1>8, <1>9

(* The declarations of the text. *)
LEMMA DeclarationsAre ==
  ASSUME Formed(text)
  PROVE  Declarations = DeclaredIn(text)
<1>1. DOMAIN text = 1 .. Len(text)
  BY TextParts DEF Formed
<1>2. \A i \in {j \in 1 .. Len(text) : text[j].op \in {"let", "fn", "lambda", "for", "class"}} : NameAt(i) = Place(i, 1)
  BY DEF NameAt
<1>3. QED
  BY <1>1, <1>2 DEF Declarations, DeclaredIn, OtherAt

(* The body in which the run knows a declaration. *)
LEMMA KnownsAre ==
  ASSUME Formed(text), NEW d \in DeclaredIn(text)
  PROVE  d.item \in 1 .. Len(text) /\ KnownIn(d) = KnownOf(text, d)
<1>1. d.item \in 1 .. Len(text)
  BY DeclaredParts DEF Formed
<1>2. PICK k : k = d.item /\ k \in 1 .. Len(text)
  BY <1>1
<1>3. Body(k) = BodyIn(text, k) /\ (InClass(k) <=> ClassedIn(text, k))
  BY <1>2, BodiesAre
<1>4. QED
  BY <1>1, <1>2, <1>3 DEF KnownIn, KnownOf, OtherAt

(* The declarations that the run has. *)
LEMMA VisiblesAre ==
  ASSUME Formed(text), NEW i \in 1 .. Len(text), NEW name
  PROVE  Visible(name, i) = VisibleIn(text, name, i)
<1>1. Bodies(i) = BodiesIn(text, i) /\ Declarations = DeclaredIn(text)
  BY BodiesAre, DeclarationsAre
<1>2. \A d \in DeclaredIn(text) : KnownIn(d) = KnownOf(text, d)
  BY KnownsAre
<1>3. QED
  BY <1>1, <1>2 DEF Visible, VisibleIn

(* The own else. *)
LEMMA OwnElsesAre ==
  ASSUME Formed(text), NEW i \in 1 .. Len(text), NEW d \in DeclaredIn(text), NEW use, use.item = i
  PROVE  InOwnElse(use, d) <=> OwnElse(text, i, d)
<1>1. PICK k : k = d.item /\ k \in 1 .. Len(text)
  BY KnownsAre
<1>2. ScopeBody(k) = ScopeIn(text, k) /\ Bodies(i) = BodiesIn(text, i)
  BY <1>1, BodiesAre
<1>3. QED
  BY <1>1, <1>2 DEF InOwnElse, OwnElse

(* No name declared twice. *)
LEMMA OnceIs ==
  ASSUME Formed(text)
  PROVE  DeclaredOnce <=> OnceIn(text)
BY DeclarationsAre DEF DeclaredOnce, OnceIn

-----------------------------------------------------------------------------
(***************************************************************************)
(* What names are found for the uses.                                      *)
(***************************************************************************)

(* The symbol of a declaration. *)
LEMMA SymbolParts ==
  ASSUME NEW t, t \in Seq(Item), NEW d \in DeclaredIn(t), NEW x, x = SymbolOf(t, d)
  PROVE  /\ x.name = d.name /\ x.place = d.place /\ x.item = d.item /\ x.kind = KindOf(t, d)
         /\ x.kind # "variable"
<1>1. KindOf(t, d) \in {"definition", "function", "class", "argument"}
  BY DeclaredParts
<1>2. PICK a, b, c, e : a = d.name /\ b = KindOf(t, d) /\ c = d.place /\ e = d.item
  OBVIOUS
<1>3. x = [name |-> a, kind |-> b, place |-> c, item |-> e]
  BY <1>2 DEF SymbolOf
<1>4. x.name = a /\ x.kind = b /\ x.place = c /\ x.item = e
  BY <1>3
<1>5. QED
  BY <1>1, <1>2, <1>4

(* A use is a name with a place of its item.                                *)
LEMMA UsesAre ==
  ASSUME Formed(text), NEW of, Indexed(text, index, of), NEW x \in Range(index.symbols), x.kind = "variable"
  PROVE  /\ x.name \in Name /\ x.item \in 1 .. Len(text)
         /\ Spots(text, x.item, x.place)
<1>1. PICK m \in DOMAIN index.symbols : x = index.symbols[m]
  BY DEF Range
<1>2. PICK b : Fits(text, x, b)
  BY <1>1 DEF Indexed, Collected, SymbolsFit
<1>3. Usage(text, x)
  <2>1. ~Declaring(text, x, b)
    BY SymbolParts DEF Declaring, Formed
  <2>2. QED
    BY <1>2, <2>1 DEF Fits
<1>4. x.name \in Name /\ x.item \in 1 .. Len(text) /\ text[x.item].op \in Mentions
      /\ x.place \in {Place(x.item, 0), Place(x.item, 3)}
  BY <1>3 DEF Usage
<1>5. x.item \notin Ended(text)
  BY <1>4 DEF Ended, Mentions
<1>6. QED
  BY <1>4, <1>5 DEF Spots

(* The declaration visible is found, unless it is of the own else.          *)
LEMMA FindsSeen ==
  ASSUME Formed(text), NEW of, Indexed(text, index, of), NEW name \in Name, NEW i, NEW p, Spots(text, i, p),
         NEW r, r = FindDefinition(name, p), OnceIn(text), NEW d \in VisibleIn(text, name, i)
  PROVE  /\ OwnElse(text, i, d) => r = 0
         /\ ~OwnElse(text, i, d) => r # 0 /\ r \in DOMAIN index.symbols /\ index.symbols[r] = SymbolOf(text, d)
<1>1. Finding(text, index, name, i, r)
  BY Finds
<1>2. i \in 1 .. Len(text) /\ d \in DeclaredIn(text) /\ d.name = name
  BY DEF Spots, VisibleIn
<1>3. Near(text, i, d) <=> ~OwnElse(text, i, d)
  BY <1>2, Sees
<1>4. \A c \in DeclaredIn(text) : c.name = name => c = d
  BY <1>2 DEF OnceIn
<1>5. QED
  BY <1>1, <1>2, <1>3, <1>4 DEF Finding

(* Where nothing is visible, what is found is astray. *)
LEMMA FindsNot ==
  ASSUME Formed(text), NEW of, Indexed(text, index, of), NEW name \in Name, NEW i, NEW p, Spots(text, i, p),
         NEW r, r = FindDefinition(name, p), r # 0, VisibleIn(text, name, i) = {}
  PROVE  \E d \in DeclaredIn(text) : index.symbols[r] = SymbolOf(text, d) /\ Astray(text, i, d)
<1>1. Finding(text, index, name, i, r)
  BY Finds
<1>2. PICK d \in DeclaredIn(text) : d.name = name /\ Near(text, i, d) /\ index.symbols[r] = SymbolOf(text, d)
  BY <1>1 DEF Finding
<1>3. i \in 1 .. Len(text) /\ d \notin VisibleIn(text, d.name, i)
  BY <1>2 DEF Spots
<1>4. QED
  BY <1>2, <1>3, SeesNot

(* What FindsDeclaration says, of an index that is complete. *)
LEMMA FindsDeclarations ==
  ASSUME Formed(text), NEW of, Indexed(text, index, of)
  PROVE  FindsDeclaration
<1>1. SUFFICES ASSUME DeclaredOnce, NEW use \in Uses, NEW d \in Visible(use.name, use.item),
                      ~InOwnElse(use, d)
               PROVE  {s.place : s \in Found(use)} = {d.place}
  BY DEF FindsDeclaration
<1>2. use \in Range(index.symbols) /\ use.kind = "variable"
  BY DEF Uses
<1>3. PICK name, i, p : /\ name = use.name /\ i = use.item /\ p = use.place
                        /\ name \in Name /\ i \in 1 .. Len(text) /\ Spots(text, i, p)
  BY <1>2, UsesAre
<1>4. d \in VisibleIn(text, name, i) /\ d \in DeclaredIn(text)
  <2>1. d \in VisibleIn(text, name, i)
    BY <1>1, <1>3, VisiblesAre
  <2>2. QED
    BY <2>1 DEF VisibleIn
<1>5. ~OwnElse(text, i, d)
  BY <1>1, <1>3, <1>4, OwnElsesAre
<1>6. OnceIn(text)
  BY <1>1, OnceIs
<1>7. PICK r : r = FindDefinition(name, p)
  OBVIOUS
<1>8. r # 0 /\ index.symbols[r] = SymbolOf(text, d)
  BY <1>3, <1>4, <1>5, <1>6, <1>7, FindsSeen
<1>9. Found(use) = {index.symbols[r]}
  BY <1>3, <1>7, <1>8 DEF Found
<1>10. index.symbols[r].place = d.place
  BY <1>4, <1>8, SymbolParts DEF Formed
<1>11. QED
  BY <1>9, <1>10

(* What FindsMore says, of such an index. *)
LEMMA FindsTheRest ==
  ASSUME Formed(text), NEW of, Indexed(text, index, of)
  PROVE  FindsMore
<1>1. SUFFICES ASSUME NEW use \in Uses, Visible(use.name, use.item) = {}, NEW s \in Found(use)
               PROVE  \/ s.item > use.item
                      \/ InClass(s.item)
                      \/ \E b \in (Bodies(s.item) \cup {s.item}) \ Bodies(use.item) : b # 0 /\ text[b].op \in Loops
  BY DEF FindsMore
<1>2. use \in Range(index.symbols) /\ use.kind = "variable"
  BY DEF Uses
<1>3. PICK name, i, p : /\ name = use.name /\ i = use.item /\ p = use.place
                        /\ name \in Name /\ i \in 1 .. Len(text) /\ Spots(text, i, p)
  BY <1>2, UsesAre
<1>4. VisibleIn(text, name, i) = {}
  BY <1>1, <1>3, VisiblesAre
<1>5. PICK r : r = FindDefinition(name, p)
  OBVIOUS
<1>6. r # 0 /\ s = index.symbols[r]
  BY <1>1, <1>3, <1>5 DEF Found
<1>7. PICK d \in DeclaredIn(text) : s = SymbolOf(text, d) /\ Astray(text, i, d)
  BY <1>3, <1>4, <1>5, <1>6, FindsNot
<1>8. s.item = d.item /\ d.item \in 1 .. Len(text)
  <2>1. s.item = d.item
    BY <1>7, SymbolParts DEF Formed
  <2>2. QED
    BY <2>1, KnownsAre
<1>9. PICK k : k = d.item /\ k \in 1 .. Len(text) /\ s.item = k
  BY <1>8
<1>10. /\ Bodies(k) = BodiesIn(text, k) /\ Bodies(i) = BodiesIn(text, i)
       /\ InClass(k) <=> ClassedIn(text, k)
  BY <1>3, <1>9, BodiesAre
<1>11. \/ k > i
       \/ ClassedIn(text, k)
       \/ \E b \in (BodiesIn(text, k) \cup {k}) \ BodiesIn(text, i) : b # 0 /\ text[b].op \in Loops
  BY <1>7, <1>9 DEF Astray
<1>12. QED
  BY <1>3, <1>9, <1>10, <1>11

-----------------------------------------------------------------------------
(***************************************************************************)
(* The types of variables.                                                 *)
(***************************************************************************)

TypeSet == [kind : {"function", "class", "argument", "number", "unknown"}, of : Nat]

(* The type that follows for item i from the declaration it reads.          *)
Due(t, u, i, d) ==
  IF OwnElse(t, i, d) THEN Unknown
  ELSE IF d.item = i
    THEN IF BodyIn(t, i) # 0 /\ t[BodyIn(t, i)].op = "lambda" THEN Type("function", BodyIn(t, i)) ELSE Unknown
  ELSE IF d.place = Place(d.item, 3) /\ t[d.item].op = "fn" THEN Type("argument", d.item)
  ELSE IF t[d.item].op \in {"let", "lambda"} THEN u[d.item]
  ELSE IF t[d.item].op = "fn" THEN Type("function", d.item)
  ELSE IF t[d.item].op = "class" THEN Type("class", d.item) ELSE Unknown

Typed(t, u, i) ==
  /\ t[i].op = "lambda" => u[i] = Type("function", i)
  /\ t[i].op = "let" /\ t[i].other = Literal => u[i] = Type("number", 0)
  /\ t[i].op = "let" /\ t[i].other # Literal /\ OnceIn(t) =>
       \A d \in VisibleIn(t, t[i].other, i) : u[i] = Due(t, u, i, d)
TypedTo(t, u, n) == u \in Seq(TypeSet) /\ DOMAIN u = 1 .. n /\ Len(u) = n /\ \A i \in 1 .. n : Typed(t, u, i)

(* Types of the kinds there are. *)
LEMMA TypesAre ==
  /\ \A k \in {"function", "class", "argument", "number", "unknown"}, n \in Nat : Type(k, n) \in TypeSet
  /\ Unknown \in TypeSet
BY DEF Type, Unknown, TypeSet

(* What a symbol of a declaration is known as.                              *)
LEMMA KnownAs ==
  ASSUME text \in Seq(Item), NEW d \in DeclaredIn(text), NEW x, x = SymbolOf(text, d)
  PROVE  /\ KnownType(x) \in TypeSet
         /\ text[d.item].op = "fn" =>
              KnownType(x) = IF d.place = Place(d.item, 3) THEN Type("argument", d.item) ELSE Type("function", d.item)
         /\ text[d.item].op = "class" => KnownType(x) = Type("class", d.item)
         /\ text[d.item].op = "for" => KnownType(x) = Unknown
         /\ text[d.item].op = "let" /\ text[d.item].other # Literal => KnownType(x) = Unknown
<1>1. PICK k, c : k = d.item /\ c = x.kind
  OBVIOUS
<1>2. x.item = k /\ c = KindOf(text, d) /\ k \in Nat
  BY <1>1, SymbolParts, DeclaredParts
<1>3. c \in {"definition", "function", "class", "argument"}
  BY <1>2, DeclaredParts
<1>4. KnownType(x) = IF c \in {"function", "class", "argument"} THEN Type(c, k)
                     ELSE IF text[k].op = "lambda" THEN Type("function", k)
                     ELSE IF text[k].op = "let" /\ text[k].other = Literal THEN Type("number", 0) ELSE Unknown
  <2>1. x.kind = c /\ x.item = k
    BY <1>1, <1>2
  <2>2. CASE c \in {"function", "class", "argument"}
    <3>1. c # "definition"
      BY <2>2
    <3>2. QED
      BY <2>1, <2>2, <3>1 DEF KnownType
  <2>3. CASE c \notin {"function", "class", "argument"}
    <3>1. c = "definition"
      BY <1>3, <2>3
    <3>2. CASE text[k].op = "lambda"
      BY <2>1, <3>1, <3>2 DEF KnownType
    <3>3. CASE text[k].op # "lambda" /\ text[k].op = "let" /\ text[k].other = Literal
      BY <2>1, <3>1, <3>3 DEF KnownType
    <3>4. CASE text[k].op # "lambda" /\ ~(text[k].op = "let" /\ text[k].other = Literal)
      BY <2>1, <3>1, <3>4 DEF KnownType
    <3>5. QED
      BY <2>3, <3>2, <3>3, <3>4
  <2>4. QED
    BY <2>2, <2>3
<1>5. KnownType(x) \in TypeSet
  BY <1>2, <1>4, TypesAre
<1>6. /\ d.place = Place(k, 3) => c = "argument" /\ text[k].op \in {"fn", "lambda"}
      /\ d.place # Place(k, 3) => c = IF text[k].op = "fn" THEN "function"
                                      ELSE IF text[k].op = "class" THEN "class" ELSE "definition"
  <2>1. d.place = Place(k, 3) => text[k].op \in {"fn", "lambda"}
    <3>1. Place(k, 1) # Place(k, 3)
      BY <1>2, Places
    <3>2. QED
      BY <1>1, <3>1, DeclaredParts
  <2>2. QED
    BY <1>1, <1>2, <2>1 DEF KindOf
<1>7. QED
  BY <1>1, <1>4, <1>5, <1>6

(* The statement of a declaration is one that was passed, or none. *)
LEMMA StatementFound ==
  ASSUME Formed(text), NEW u \in Nat, u < Len(text), DOMAIN types = 1 .. u,
         NEW d \in DeclaredIn(text)
  PROVE  FindStatement(d.place) \in 0 .. u
<1>1. PICK k, p : k = d.item /\ p = d.place /\ k \in 1 .. Len(text)
  BY KnownsAre
<1>2. PICK q \in {1, 3} : p = Place(k, q)
  BY <1>1, DeclaredParts DEF Formed
<1>3. PICK S : S = {0} \cup Containing(text, u, k)
  OBVIOUS
<1>4. Len(text) \in Nat
  BY TextParts DEF Formed
<1>5. FindStatement(p) = Max(S)
  BY <1>1, <1>2, <1>3, <1>4, StatementIs
<1>6. S \subseteq 0 .. u /\ S # {}
  BY <1>3 DEF Containing
<1>7. Max(S) \in S
  BY <1>6, Greatest
<1>8. QED
  BY <1>1, <1>5, <1>6, <1>7

(* A variable has some type. *)
LEMMA VariableTyped ==
  ASSUME Formed(text), NEW of, Indexed(text, index, of), NEW name \in Name, NEW i, NEW p, Spots(text, i, p),
         NEW u \in Nat, u < Len(text), types \in Seq(TypeSet), DOMAIN types = 1 .. u
  PROVE  VariableType(name, p) \in TypeSet
<1>1. PICK r : r = FindDefinition(name, p)
  OBVIOUS
<1>2. CASE r = 0
  BY <1>1, <1>2, TypesAre DEF VariableType
<1>3. CASE r # 0
  <2>1. Finding(text, index, name, i, r)
    BY <1>1, Finds
  <2>2. PICK d \in DeclaredIn(text) : index.symbols[r] = SymbolOf(text, d)
    BY <1>3, <2>1 DEF Finding
  <2>3. PICK x : x = index.symbols[r]
    OBVIOUS
  <2>4. x.place = d.place /\ text \in Seq(Item)
    BY <2>2, <2>3, SymbolParts DEF Formed
  <2>5. PICK s : s = FindStatement(d.place) /\ s \in 0 .. u
    BY StatementFound
  <2>6. VariableType(name, p) = IF s # 0 /\ text[s].op \in {"let", "lambda"} THEN types[s] ELSE KnownType(x)
    BY <1>1, <1>3, <2>3, <2>4, <2>5 DEF VariableType
  <2>7. KnownType(x) \in TypeSet
    BY <2>2, <2>3, <2>4, KnownAs
  <2>8. s # 0 => types[s] \in TypeSet
    <3>1. s # 0 => s \in DOMAIN types
      BY <2>5
    <3>2. QED
      BY <3>1
  <2>9. QED
    BY <2>6, <2>7, <2>8
<1>4. QED
  BY <1>2, <1>3

(* The type that is inferred is the one that follows.                       *)
LEMMA VariableFollows ==
  ASSUME Formed(text), NEW of, Indexed(text, index, of), OnceIn(text),
         NEW i \in 1 .. Len(text), text[i].op = "let", text[i].other # Literal,
         NEW u \in Nat, u = i - 1, TypedTo(text, types, u),
         NEW d \in VisibleIn(text, text[i].other, i)
  PROVE  VariableType(text[i].other, OtherAt(i)) = Due(text, types, i, d)
<1>1. text \in Seq(Item) /\ i \in Int /\ Len(text) \in Nat /\ DOMAIN types = 1 .. u /\ u < Len(text)
  BY TextParts DEF Formed, TypedTo
<1>2. PICK name, p : name = text[i].other /\ p = Place(i, 3) /\ name \in Name
  BY <1>1, TextParts
<1>3. Spots(text, i, p)
  BY <1>2 DEF Spots, Ended
<1>4. PICK r : r = FindDefinition(name, p)
  OBVIOUS
<1>5. d \in VisibleIn(text, name, i)
  BY <1>2
<1>6. /\ OwnElse(text, i, d) => r = 0
      /\ ~OwnElse(text, i, d) => r # 0 /\ index.symbols[r] = SymbolOf(text, d)
  BY <1>2, <1>3, <1>4, <1>5, FindsSeen
<1>7. VariableType(text[i].other, OtherAt(i)) = VariableType(name, p)
  BY <1>2 DEF OtherAt
<1>8. CASE OwnElse(text, i, d)
  <2>1. VariableType(name, p) = Unknown
    BY <1>4, <1>6, <1>8 DEF VariableType
  <2>2. QED
    BY <1>7, <1>8, <2>1 DEF Due
<1>9. CASE ~OwnElse(text, i, d)
  <2>1. PICK x : x = index.symbols[r] /\ x = SymbolOf(text, d) /\ r # 0
    BY <1>6, <1>9
  <2>2. d \in DeclaredIn(text) /\ d.item <= i
    BY DEF VisibleIn
  <2>3. x.place = d.place
    BY <1>1, <2>1, <2>2, SymbolParts
  <2>4. PICK s : s = FindStatement(d.place)
    OBVIOUS
  <2>5. VariableType(name, p) = IF s # 0 /\ text[s].op \in {"let", "lambda"} THEN types[s] ELSE KnownType(x)
    BY <1>4, <2>1, <2>3, <2>4 DEF VariableType
  <2>6. PICK k : k = d.item /\ k \in 1 .. Len(text) /\ k \in Int
    BY <2>2, KnownsAre
  <2>7. \/ d.place = Place(k, 1) /\ text[k].op \in {"let", "fn", "lambda", "for", "class"}
        \/ d.place = Place(k, 3) /\ text[k].op \in {"fn", "lambda"}
    BY <1>1, <2>2, <2>6, DeclaredParts
  <2>8. CASE k = i
    <3>1. d.place = Place(i, 1)
      BY <2>7, <2>8
    <3>2. PICK B, E, If, Cl, n : B = Begun(text) /\ E = Ended(text) /\ If = Ifs(text) /\ Cl = Closers(text) /\ n = Len(text)
      OBVIOUS
    <3>3. Nesting(n, B, E, If, Cl)
      BY <3>2, Nests
    <3>4. PICK m, y : m = Max({0} \cup Entered(B, E, Cl, i)) /\ y = Outer(B, Cl, {}, i)
      OBVIOUS
    <3>5. s = m
      <4>1. DOMAIN types = 1 .. (i - 1)
        BY <1>1
      <4>2. s = Max({0} \cup EnteredIn(text, i))
        <5>1. PICK z : z = d.place /\ z = Place(i, 1)
          BY <3>1
        <5>2. FindStatement(z) = Max({0} \cup EnteredIn(text, i))
          BY <4>1, <5>1, EnteredStatement
        <5>3. QED
          BY <2>4, <5>1, <5>2
      <4>3. QED
        BY <3>2, <3>4, <4>2 DEF EnteredIn
    <3>6. PICK Lam : Lam = {b \in 1 .. Len(text) : text[b].op = "lambda"}
      OBVIOUS
    <3>7. Lam \subseteq B \ E /\ Lam \cap If = {} /\ i \notin E
      BY <3>2, <3>6 DEF Begun, Ended, Ifs, Beginners, Opens
    <3>8. m \in Lam \/ y \in Lam => m = y
      BY <3>2, <3>3, <3>4, <3>7, InnerEntered
    <3>9. y = BodyIn(text, i)
      BY <3>2, <3>4 DEF BodyIn
    <3>10. /\ m = 0 \/ (m \in B /\ m \in 1 .. u)
           /\ y = 0 \/ y \in B
      <4>1. \A b \in B : b \in 1 .. n
        BY <3>3 DEF Nesting
      <4>2. m \in {0} \cup Entered(B, E, Cl, i)
        <5>1. PICK S : S = {0} \cup Entered(B, E, Cl, i)
          OBVIOUS
        <5>2. S \subseteq 0 .. n /\ n \in Nat
          <6>1. n \in Nat /\ \A b \in S : b = 0 \/ b \in B
            BY <3>3, <5>1 DEF Nesting, Entered
          <6>2. QED
            BY <4>1, <6>1
        <5>3. QED
          BY <3>4, <5>1, <5>2, Greatest
      <4>3. y \in {0} \cup (Around(B, Cl, i) \ {})
        BY <3>3, <3>4, OuterIs
      <4>4. m # 0 => m \in B /\ m < i
        BY <4>2 DEF Entered
      <4>5. y # 0 => y \in B
        BY <4>3 DEF Around
      <4>6. m # 0 => m \in 1 .. u
        BY <1>1, <4>1, <4>4
      <4>7. QED
        BY <4>4, <4>5, <4>6
    <3>11. \A b \in B : b \in Lam <=> text[b].op = "lambda"
      BY <3>2, <3>6 DEF Begun
    <3>12. \A b \in B : text[b].op # "let"
      BY <3>2 DEF Begun, Beginners, Opens
    <3>13. KnownType(x) = Unknown
      BY <1>1, <2>1, <2>2, <2>6, <2>8, KnownAs
    <3>14. Due(text, types, i, d) = IF y # 0 /\ text[y].op = "lambda" THEN Type("function", y) ELSE Unknown
      BY <1>9, <2>6, <2>8, <3>9 DEF Due
    <3>15. CASE m \in Lam \/ y \in Lam
      <4>1. m = y /\ m \in Lam /\ m # 0
        BY <1>1, <3>6, <3>8, <3>15
      <4>2. text[m].op = "lambda" /\ m \in 1 .. u
        BY <3>6, <3>10, <4>1
      <4>3. types[m] = Type("function", m)
        BY <4>2 DEF TypedTo, Typed
      <4>4. QED
        BY <1>7, <2>5, <3>5, <3>14, <4>1, <4>2, <4>3
    <3>16. CASE m \notin Lam /\ y \notin Lam
      <4>1. ~(m # 0 /\ text[m].op \in {"let", "lambda"})
        BY <3>10, <3>11, <3>12, <3>16
      <4>2. ~(y # 0 /\ text[y].op = "lambda")
        BY <3>10, <3>11, <3>16
      <4>3. QED
        BY <1>7, <2>5, <3>5, <3>13, <3>14, <4>1, <4>2
    <3>17. QED
      BY <3>15, <3>16
  <2>9. CASE k # i
    <3>1. k \in 1 .. u /\ k # 0
      BY <1>1, <2>2, <2>6, <2>9
    <3>2. s = k
      <4>1. k \notin Ended(text)
        BY <2>7 DEF Ended
      <4>2. u <= Len(text) /\ d.place \in {Place(k, 1), Place(k, 3)}
        BY <1>1, <2>7
      <4>3. PICK z : z = d.place
        OBVIOUS
      <4>4. FindStatement(z) = k
        BY <1>1, <3>1, <4>1, <4>2, <4>3, OwnStatement
      <4>5. QED
        BY <2>4, <4>3, <4>4
    <3>3. VariableType(name, p) = IF text[k].op \in {"let", "lambda"} THEN types[k] ELSE KnownType(x)
      BY <2>5, <3>1, <3>2
    <3>4. Due(text, types, i, d) =
            IF d.place = Place(k, 3) /\ text[k].op = "fn" THEN Type("argument", k)
            ELSE IF text[k].op \in {"let", "lambda"} THEN types[k]
            ELSE IF text[k].op = "fn" THEN Type("function", k)
            ELSE IF text[k].op = "class" THEN Type("class", k) ELSE Unknown
      BY <1>9, <2>6, <2>9 DEF Due
    <3>5. /\ text[k].op = "fn" =>
               KnownType(x) = IF d.place = Place(k, 3) THEN Type("argument", k) ELSE Type("function", k)
          /\ text[k].op = "class" => KnownType(x) = Type("class", k)
          /\ text[k].op = "for" => KnownType(x) = Unknown
      BY <1>1, <2>1, <2>2, <2>6, KnownAs
    <3>6. text[k].op \in {"let", "fn", "lambda", "for", "class"}
      BY <2>7
    <3>7. CASE text[k].op \in {"let", "lambda"}
      BY <1>7, <3>3, <3>4, <3>7
    <3>8. CASE text[k].op = "fn"
      BY <1>7, <3>3, <3>4, <3>5, <3>8
    <3>9. CASE text[k].op = "class"
      BY <1>7, <3>3, <3>4, <3>5, <3>9
    <3>10. CASE text[k].op = "for"
      BY <1>7, <3>3, <3>4, <3>5, <3>10
    <3>11. QED
      BY <3>6, <3>7, <3>8, <3>9, <3>10
  <2>10. QED
    BY <2>8, <2>9
<1>10. QED
  BY <1>8, <1>9

(* The types with one more. *)
LEMMA TypedMore ==
  ASSUME NEW t, NEW u, NEW n \in Nat, TypedTo(t, u, n), NEW k, k = n + 1, NEW x \in TypeSet,
         t[k].op = "lambda" => x = Type("function", k),
         t[k].op = "let" /\ t[k].other = Literal => x = Type("number", 0),
         t[k].op = "let" /\ t[k].other # Literal /\ OnceIn(t) =>
           \A d \in VisibleIn(t, t[k].other, k) : x = Due(t, u, k, d),
         \A d \in DeclaredIn(t) : d.item \in Nat /\ d.item >= 1,
         NEW v, v = Append(u, x)
  PROVE  TypedTo(t, v, k)
<1>1. u \in Seq(TypeSet) /\ DOMAIN u = 1 .. n /\ Len(u) = n /\ \A i \in 1 .. n : Typed(t, u, i)
  BY DEF TypedTo
<1>2. /\ v \in Seq(TypeSet) /\ Len(v) = k /\ DOMAIN v = 1 .. k /\ v[k] = x
      /\ \A i \in 1 .. n : v[i] = u[i]
  <2>1. v \in Seq(TypeSet) /\ Len(v) = k /\ v[k] = x /\ \A i \in 1 .. n : v[i] = u[i]
    BY <1>1, AppendProperties
  <2>2. QED
    BY <2>1, LenProperties
<1>3. ASSUME NEW i \in 1 .. k, NEW d \in VisibleIn(t, t[i].other, i)
      PROVE  Due(t, v, i, d) = Due(t, u, i, d)
  <2>1. d \in DeclaredIn(t) /\ d.item <= i
    BY <1>3 DEF VisibleIn
  <2>2. CASE d.item = i
    BY <2>2 DEF Due
  <2>3. CASE d.item # i
    <3>1. d.item \in Nat /\ d.item >= 1
      BY <2>1
    <3>2. d.item \in 1 .. n
      BY <1>3, <2>1, <2>3, <3>1
    <3>3. v[d.item] = u[d.item]
      BY <1>2, <3>2
    <3>4. QED
      BY <3>3 DEF Due
  <2>4. QED
    BY <2>2, <2>3
<1>4. ASSUME NEW i \in 1 .. n
      PROVE  Typed(t, v, i)
  <2>1. Typed(t, u, i) /\ v[i] = u[i] /\ i \in 1 .. k
    BY <1>1, <1>2, <1>4
  <2>2. QED
    BY <1>3, <2>1 DEF Typed
<1>5. Typed(t, v, k)
  <2>1. k \in 1 .. k
    OBVIOUS
  <2>2. QED
    BY <1>2, <1>3, <2>1 DEF Typed
<1>6. \A i \in 1 .. k : i = k \/ i \in 1 .. n
  OBVIOUS
<1>7. QED
  BY <1>2, <1>4, <1>5, <1>6 DEF TypedTo

-----------------------------------------------------------------------------
(***************************************************************************)
(* The invariant.                                                          *)
(***************************************************************************)

IInv ==
  /\ text \in Texts
  /\ at \in 1 .. (Len(text) + 1)
  /\ status \in {"walking", "inferring", "done", "panic"}
  /\ status = "walking" => types = <<>> /\ Walked(text, at, index, pending)
  /\ status \in {"inferring", "done"} => Walked(text, Len(text) + 1, index, pending)
  /\ status = "inferring" => TypedTo(text, types, at - 1)
  /\ status = "done" => TypedTo(text, types, Len(text))

(* The texts have the form that was assumed. *)
LEMMA Forms ==
  ASSUME text \in Texts
  PROVE  Formed(text) /\ text \in Seq(Item) /\ Len(text) \in Nat /\ DOMAIN text = 1 .. Len(text)
<1>1. Formed(text)
  BY TextsAssumption DEF Formed
<1>2. QED
  BY <1>1, TextParts DEF Formed

(* The walk starts with an empty index. *)
LEMMA StartsIn ==
  ASSUME Init
  PROVE  IInv
<1>1. text \in Texts /\ at = 1 /\ index = NoIndex /\ pending = <<>> /\ types = <<>> /\ status = "walking"
  BY DEF Init
<1>2. Formed(text) /\ Len(text) \in Nat
  BY <1>1, Forms
<1>3. Walked(text, at, index, pending)
  <2>1. Walked(text, 1, NoIndex, <<>>)
    BY <1>2, WalkBegins
  <2>2. QED
    BY <1>1, <2>1
<1>4. QED
  BY <1>1, <1>2, <1>3 DEF IInv

(* A step of the walk to an index that stays in shape.                      *)
LEMMA Steps ==
  ASSUME IInv, status = "walking", NEW k, k = at, k \in 1 .. Len(text), NEW new, NEW bodies, Step(new, bodies),
         Walked(text, k + 1, new, bodies)
  PROVE  IInv'
<1>1. text' = text /\ at' = k + 1 /\ index' = new /\ pending' = bodies /\ types' = types /\ status' = status
  BY DEF Step
<1>2. text \in Texts /\ types = <<>> /\ Len(text) \in Nat
  BY Forms DEF IInv
<1>3. at' \in 1 .. (Len(text') + 1)
  BY <1>1, <1>2
<1>4. status' = "walking" /\ text' \in Texts /\ types' = <<>>
  BY <1>1, <1>2
<1>5. Walked(text, k + 1, new, bodies)
  OBVIOUS
<1>6. Walked(text, at, index, pending)'
  BY <1>1, <1>5
<1>7. QED
  BY <1>3, <1>4, <1>6 DEF IInv

(* What holds where the walk is at an item. *)
LEMMA Walks ==
  ASSUME IInv, NEW op, Walking(op)
  PROVE  /\ status = "walking" /\ at \in 1 .. Len(text) /\ Formed(text) /\ text[at].op = op
         /\ Walked(text, at, index, pending)
<1>1. status = "walking" /\ at \in DOMAIN text /\ text[at].op = op
  BY DEF Walking, Now
<1>2. text \in Texts /\ Walked(text, at, index, pending)
  BY <1>1 DEF IInv
<1>3. QED
  BY <1>1, <1>2, Forms

(* The types inferred stay those that follow.                               *)
LEMMA Infers ==
  ASSUME IInv, InferItem
  PROVE  IInv'
<1>1. status = "inferring" /\ at \in DOMAIN text
      /\ text' = text /\ at' = at + 1 /\ index' = index /\ pending' = pending /\ status' = status
  BY DEF InferItem
<1>2. text \in Texts /\ Walked(text, Len(text) + 1, index, pending) /\ TypedTo(text, types, at - 1)
  BY <1>1 DEF IInv
<1>3. Formed(text) /\ text \in Seq(Item) /\ Len(text) \in Nat /\ at \in 1 .. Len(text)
  BY <1>1, <1>2, Forms
<1>4. PICK k, u : k = at /\ u = at - 1
  OBVIOUS
<1>5. k \in 1 .. Len(text) /\ u \in Nat /\ k = u + 1 /\ u = k - 1 /\ u < Len(text) /\ k \in Nat
  BY <1>3, <1>4
<1>6. TypedTo(text, types, u)
  BY <1>2, <1>4
<1>7. PICK x : /\ types' = Append(types, x)
               /\ x = CASE text[k].op = "lambda" -> Type("function", k)
                        [] text[k].op = "let" /\ text[k].other = Literal -> Type("number", 0)
                        [] text[k].op = "let" /\ text[k].other # Literal -> VariableType(text[k].other, OtherAt(k))
                        [] OTHER -> Unknown
  BY <1>4 DEF InferItem, Now
<1>8. PICK of : Indexed(text, index, of)
  BY <1>2 DEF Walked, Indexed
<1>9. text[k].op = "lambda" => x = Type("function", k)
  <2>1. SUFFICES ASSUME text[k].op = "lambda" PROVE x = Type("function", k)
    OBVIOUS
  <2>2. text[k].op # "let"
    BY <2>1
  <2>3. QED
    BY <1>7, <2>1, <2>2
<1>10. text[k].op = "let" /\ text[k].other = Literal => x = Type("number", 0)
  <2>1. SUFFICES ASSUME text[k].op = "let", text[k].other = Literal PROVE x = Type("number", 0)
    OBVIOUS
  <2>2. text[k].op # "lambda"
    BY <2>1
  <2>3. QED
    BY <1>7, <2>1, <2>2
<1>11. text[k].op = "let" /\ text[k].other # Literal => x = VariableType(text[k].other, OtherAt(k))
  <2>1. SUFFICES ASSUME text[k].op = "let", text[k].other # Literal PROVE x = VariableType(text[k].other, OtherAt(k))
    OBVIOUS
  <2>2. text[k].op # "lambda"
    BY <2>1
  <2>3. QED
    BY <1>7, <2>1, <2>2
<1>12. text[k].op \notin {"let", "lambda"} => x = Unknown
  BY <1>7
<1>13. x \in TypeSet
  <2>1. CASE text[k].op = "let" /\ text[k].other # Literal
    <3>1. PICK name, p : name = text[k].other /\ p = Place(k, 3) /\ name \in Name
      BY <1>3, <1>5, <2>1, TextParts
    <3>2. Spots(text, k, p)
      BY <1>5, <2>1, <3>1 DEF Spots, Ended
    <3>3. types \in Seq(TypeSet) /\ DOMAIN types = 1 .. u
      BY <1>6 DEF TypedTo
    <3>4. VariableType(name, p) \in TypeSet
      BY <1>3, <1>5, <1>8, <3>1, <3>2, <3>3, VariableTyped
    <3>5. QED
      BY <1>11, <2>1, <3>1, <3>4 DEF OtherAt
  <2>2. CASE ~(text[k].op = "let" /\ text[k].other # Literal)
    BY <1>5, <1>9, <1>10, <1>12, <2>2, TypesAre
  <2>3. QED
    BY <2>1, <2>2
<1>14. text[k].op = "let" /\ text[k].other # Literal /\ OnceIn(text) =>
         \A d \in VisibleIn(text, text[k].other, k) : x = Due(text, types, k, d)
  BY <1>3, <1>5, <1>6, <1>8, <1>11, VariableFollows
<1>15. \A d \in DeclaredIn(text) : d.item \in Nat /\ d.item >= 1
  BY <1>3, KnownsAre
<1>16. PICK v : v = types' /\ v = Append(types, x)
  BY <1>7
<1>17. TypedTo(text, v, k)
  BY <1>5, <1>6, <1>9, <1>10, <1>13, <1>14, <1>15, <1>16, TypedMore
<1>18. text' \in Texts /\ at' \in 1 .. (Len(text') + 1) /\ status' = "inferring"
  BY <1>1, <1>2, <1>3
<1>19. Walked(text, Len(text) + 1, index, pending)'
  BY <1>1, <1>2
<1>20. TypedTo(text, types, at - 1)'
  <2>1. at' - 1 = k
    BY <1>1, <1>3, <1>4
  <2>2. QED
    BY <1>1, <1>16, <1>17, <2>1
<1>21. QED
  BY <1>18, <1>19, <1>20 DEF IInv

(* Every step keeps the invariant. *)
LEMMA StaysIn ==
  ASSUME IInv, [Next]_vars
  PROVE  IInv'
<1>1. CASE WalkLet
  <2>1. /\ status = "walking" /\ at \in 1 .. Len(text) /\ Formed(text) /\ text[at].op = "let"
        /\ Walked(text, at, index, pending)
    BY <1>1, Walks DEF WalkLet
  <2>2. PICK k, kind, new : k = at /\ kind = "definition" /\ new = Mention(Declare(index, k, kind), k)
    OBVIOUS
  <2>3. Step(new, pending)
    BY <1>1, <2>2 DEF WalkLet
  <2>4. Walked(text, k + 1, new, pending)
    BY <2>1, <2>2, StepPlain
  <2>5. QED
    BY <2>1, <2>2, <2>3, <2>4, Steps
<1>2. CASE WalkUse
  <2>1. /\ status = "walking" /\ at \in 1 .. Len(text) /\ Formed(text) /\ text[at].op \in {"set", "call"}
        /\ Walked(text, at, index, pending)
    <3>1. CASE Walking("set")
      BY <3>1, Walks
    <3>2. CASE Walking("call")
      BY <3>2, Walks
    <3>3. QED
      BY <1>2, <3>1, <3>2 DEF WalkUse
  <2>2. PICK k, kind, new : k = at /\ kind = "variable" /\ new = Mention(Declare(index, k, kind), k)
    OBVIOUS
  <2>3. Step(new, pending)
    BY <1>2, <2>2 DEF WalkUse
  <2>4. Walked(text, k + 1, new, pending)
    BY <2>1, <2>2, StepPlain
  <2>5. QED
    BY <2>1, <2>2, <2>3, <2>4, Steps
<1>3. CASE WalkFn
  <2>1. /\ status = "walking" /\ at \in 1 .. Len(text) /\ Formed(text) /\ text[at].op = "fn"
        /\ Walked(text, at, index, pending)
    BY <1>3, Walks DEF WalkFn
  <2>2. PICK k, kind, one, new, bodies : /\ k = at /\ kind = "function" /\ one = Declare(index, k, kind)
                                         /\ new = Argument(Enter(one, BodySpan(k)), k)
                                         /\ bodies = Append(pending, [item |-> k, parent |-> index.current])
    OBVIOUS
  <2>3. Step(new, bodies)
    BY <1>3, <2>2 DEF WalkFn, Begin
  <2>4. Walked(text, k + 1, new, bodies)
    BY <2>1, <2>2, StepFunction
  <2>5. QED
    BY <2>1, <2>2, <2>3, <2>4, Steps
<1>4. CASE WalkLambda
  <2>1. /\ status = "walking" /\ at \in 1 .. Len(text) /\ Formed(text) /\ text[at].op = "lambda"
        /\ Walked(text, at, index, pending)
    BY <1>4, Walks DEF WalkLambda
  <2>2. PICK k, kind, one, two, new, bodies :
          /\ k = at /\ kind = "definition" /\ one = Declare(index, k, kind)
          /\ two = Define(one, Hidden, "function", 0, k)
          /\ new = Argument(Enter(two, BodySpan(k)), k)
          /\ bodies = Append(pending, [item |-> k, parent |-> index.current])
    OBVIOUS
  <2>3. Step(new, bodies)
    BY <1>4, <2>2 DEF WalkLambda, Begin
  <2>4. Walked(text, k + 1, new, bodies)
    BY <2>1, <2>2, StepFunction
  <2>5. QED
    BY <2>1, <2>2, <2>3, <2>4, Steps
<1>5. CASE WalkReturn
  <2>1. text' = text /\ at' = at /\ status' = "panic"
    BY <1>5 DEF WalkReturn
  <2>2. QED
    BY <2>1 DEF IInv
<1>6. CASE WalkIf
  <2>1. /\ status = "walking" /\ at \in 1 .. Len(text) /\ Formed(text) /\ text[at].op = "if"
        /\ Walked(text, at, index, pending)
    BY <1>6, Walks DEF WalkIf
  <2>2. PICK k, new, bodies : /\ k = at /\ new = Enter(index, BodySpan(k))
                              /\ bodies = Append(pending, [item |-> k, parent |-> index.current])
    OBVIOUS
  <2>3. Step(new, bodies)
    BY <1>6, <2>2 DEF WalkIf, Begin
  <2>4. Walked(text, k + 1, new, bodies)
    BY <2>1, <2>2, StepIf
  <2>5. QED
    BY <2>1, <2>2, <2>3, <2>4, Steps
<1>7. CASE WalkFor
  <2>1. /\ status = "walking" /\ at \in 1 .. Len(text) /\ Formed(text) /\ text[at].op = "for"
        /\ Walked(text, at, index, pending)
    BY <1>7, Walks DEF WalkFor
  <2>2. PICK k, new, bodies : /\ k = at /\ new = Mention(Declare(index, k, "definition"), k)
                              /\ bodies = Append(pending, [item |-> k, parent |-> index.current])
    OBVIOUS
  <2>3. Step(new, bodies)
    BY <1>7, <2>2 DEF WalkFor, Begin
  <2>4. Walked(text, k + 1, new, bodies)
    BY <2>1, <2>2, StepFor
  <2>5. QED
    BY <2>1, <2>2, <2>3, <2>4, Steps
<1>8. CASE WalkWhile
  <2>1. /\ status = "walking" /\ at \in 1 .. Len(text) /\ Formed(text) /\ text[at].op = "while"
        /\ Walked(text, at, index, pending)
    BY <1>8, Walks DEF WalkWhile
  <2>2. PICK k, bodies : k = at /\ bodies = Append(pending, [item |-> k, parent |-> index.current])
    OBVIOUS
  <2>3. Step(index, bodies)
    BY <1>8, <2>2 DEF WalkWhile, Begin
  <2>4. Walked(text, k + 1, index, bodies)
    BY <2>1, <2>2, StepWhile
  <2>5. QED
    BY <2>1, <2>2, <2>3, <2>4, Steps
<1>9. CASE WalkClass
  <2>1. /\ status = "walking" /\ at \in 1 .. Len(text) /\ Formed(text) /\ text[at].op = "class"
        /\ Walked(text, at, index, pending)
    BY <1>9, Walks DEF WalkClass
  <2>2. PICK k, new, bodies : /\ k = at /\ new = Enter(Declare(index, k, "class"), BodySpan(k))
                              /\ bodies = Append(pending, [item |-> k, parent |-> index.current])
    OBVIOUS
  <2>3. Step(new, bodies)
    BY <1>9, <2>2 DEF WalkClass, Begin
  <2>4. Walked(text, k + 1, new, bodies)
    BY <2>1, <2>2, StepClass
  <2>5. QED
    BY <2>1, <2>2, <2>3, <2>4, Steps
<1>10. CASE WalkElse
  <2>1. /\ status = "walking" /\ at \in 1 .. Len(text) /\ Formed(text) /\ text[at].op = "else"
        /\ Walked(text, at, index, pending)
    BY <1>10, Walks DEF WalkElse
  <2>2. PICK k, new : k = at /\ new = Enter(Exit(index, Last(pending).parent), BodySpan(Last(pending).item))
    OBVIOUS
  <2>3. Step(new, pending)
    BY <1>10, <2>2 DEF WalkElse
  <2>4. Walked(text, k + 1, new, pending)
    BY <2>1, <2>2, StepElse
  <2>5. QED
    BY <2>1, <2>2, <2>3, <2>4, Steps
<1>11. CASE WalkEnd
  <2>1. /\ status = "walking" /\ at \in 1 .. Len(text) /\ Formed(text) /\ text[at].op = "end"
        /\ Walked(text, at, index, pending)
    BY <1>11, Walks DEF WalkEnd
  <2>2. PICK k, body, left, new : /\ k = at /\ body = Last(pending)
                                  /\ left = IF text[body.item].op \in Loops THEN index ELSE Exit(index, body.parent)
                                  /\ new = IF text[body.item].op = "if" THEN Mention(left, body.item) ELSE left
    OBVIOUS
  <2>3. Step(new, Front(pending))
    BY <1>11, <2>2 DEF WalkEnd
  <2>4. Walked(text, k + 1, new, Front(pending))
    BY <2>1, <2>2, StepEnd
  <2>5. QED
    BY <2>1, <2>2, <2>3, <2>4, Steps
<1>12. CASE WalkProgram
  <2>1. /\ status = "walking" /\ at > Len(text) /\ status' = "inferring" /\ at' = 1
        /\ text' = text /\ index' = index /\ pending' = pending /\ types' = types
    BY <1>12 DEF WalkProgram
  <2>2. text \in Texts /\ types = <<>> /\ Walked(text, at, index, pending) /\ at \in 1 .. (Len(text) + 1)
    BY <2>1 DEF IInv
  <2>3. Len(text) \in Nat /\ at = Len(text) + 1
    BY <2>1, <2>2, Forms
  <2>4. TypedTo(text, types, 0)
    BY <2>2 DEF TypedTo
  <2>5. TypedTo(text, types, at - 1)'
    <3>1. at' - 1 = 0
      BY <2>1
    <3>2. QED
      BY <2>1, <2>4, <3>1
  <2>6. Walked(text, Len(text) + 1, index, pending)'
    BY <2>1, <2>2, <2>3
  <2>7. text' \in Texts /\ at' \in 1 .. (Len(text') + 1) /\ status' = "inferring"
    BY <2>1, <2>2, <2>3
  <2>8. QED
    BY <2>5, <2>6, <2>7 DEF IInv
<1>13. CASE InferItem
  BY <1>13, Infers
<1>14. CASE InferProgram
  <2>1. /\ status = "inferring" /\ at > Len(text) /\ status' = "done" /\ at' = at
        /\ text' = text /\ index' = index /\ pending' = pending /\ types' = types
    BY <1>14 DEF InferProgram
  <2>2. /\ text \in Texts /\ Walked(text, Len(text) + 1, index, pending) /\ at \in 1 .. (Len(text) + 1)
        /\ TypedTo(text, types, at - 1)
    BY <2>1 DEF IInv
  <2>3. Len(text) \in Nat /\ at - 1 = Len(text)
    BY <2>1, <2>2, Forms
  <2>4. TypedTo(text, types, Len(text))'
    BY <2>1, <2>2, <2>3
  <2>5. Walked(text, Len(text) + 1, index, pending)'
    BY <2>1, <2>2
  <2>6. text' \in Texts /\ at' \in 1 .. (Len(text') + 1) /\ status' = "done"
    BY <2>1, <2>2
  <2>7. QED
    BY <2>4, <2>5, <2>6 DEF IInv
<1>15. CASE UNCHANGED vars
  <2>1. /\ text' = text /\ at' = at /\ index' = index /\ pending' = pending /\ types' = types /\ status' = status
    BY <1>15 DEF vars
  <2>2. /\ Walked(text, at, index, pending)' <=> Walked(text, at, index, pending)
        /\ Walked(text, Len(text) + 1, index, pending)' <=> Walked(text, Len(text) + 1, index, pending)
        /\ TypedTo(text, types, at - 1)' <=> TypedTo(text, types, at - 1)
        /\ TypedTo(text, types, Len(text))' <=> TypedTo(text, types, Len(text))
    BY <2>1
  <2>3. QED
    BY <2>1, <2>2 DEF IInv
<1>16. QED
  BY <1>1, <1>2, <1>3, <1>4, <1>5, <1>6, <1>7, <1>8, <1>9, <1>10, <1>11, <1>12, <1>13, <1>14, <1>15 DEF Next

-----------------------------------------------------------------------------
(***************************************************************************)
(* The types deserved.                                                     *)
(***************************************************************************)

(* The types of a text that is done, as far as they are deserved.           *)
Given(i) ==
  IF text[i].op \in {"lambda", "fn"} THEN Type("function", i)
  ELSE IF text[i].op = "class" THEN Type("class", i)
  ELSE IF text[i].op = "let" THEN types[i] ELSE Unknown

(* The alternatives, where the type of an item is known. *)
LEMMA DeservesIs ==
  ASSUME NEW f, NEW i
  PROVE  /\ text[i].op # "let" => Deserves(f, i) = Given(i)
         /\ text[i].op = "let" /\ text[i].other = Literal => Deserves(f, i) = Type("number", 0)
         /\ text[i].op = "let" /\ text[i].other # Literal =>
              Deserves(f, i) =
                IF Visible(text[i].other, i) = {} THEN types[i]
                ELSE IF InOwnElse([item |-> i], Read(i)) THEN Unknown
                ELSE IF Read(i).item = i
                  THEN IF Body(i) # 0 /\ text[Body(i)].op = "lambda" THEN Type("function", Body(i)) ELSE Unknown
                ELSE IF Read(i).place = OtherAt(Read(i).item) /\ text[Read(i).item].op = "fn"
                  THEN Type("argument", Read(i).item)
                ELSE f[Read(i).item]
<1> DEFINE op == text[i].op
           rest == IF Visible(text[i].other, i) = {} THEN types[i]
                   ELSE IF InOwnElse([item |-> i], Read(i)) THEN Unknown
                   ELSE IF Read(i).item = i
                     THEN IF Body(i) # 0 /\ text[Body(i)].op = "lambda" THEN Type("function", Body(i)) ELSE Unknown
                   ELSE IF Read(i).place = OtherAt(Read(i).item) /\ text[Read(i).item].op = "fn"
                     THEN Type("argument", Read(i).item)
                   ELSE f[Read(i).item]
<1>1. Deserves(f, i) = CASE op \in {"lambda", "fn"} -> Type("function", i)
                         [] op = "class" -> Type("class", i)
                         [] op = "let" /\ text[i].other = Literal -> Type("number", 0)
                         [] op = "let" /\ text[i].other # Literal -> rest
                         [] OTHER -> Unknown
  BY DEF Deserves
<1>2. Given(i) = IF op \in {"lambda", "fn"} THEN Type("function", i)
                 ELSE IF op = "class" THEN Type("class", i)
                 ELSE IF op = "let" THEN types[i] ELSE Unknown
  BY DEF Given
<1> HIDE DEF op, rest
<1>3. CASE op \in {"lambda", "fn"}
  <2>1. op # "class" /\ op # "let"
    BY <1>3
  <2>2. QED
    BY <1>1, <1>2, <1>3, <2>1 DEF op
<1>4. CASE op = "class"
  <2>1. op \notin {"lambda", "fn"} /\ op # "let"
    BY <1>4
  <2>2. QED
    BY <1>1, <1>2, <1>4, <2>1 DEF op
<1>5. CASE op = "let"
  <2>1. op \notin {"lambda", "fn"} /\ op # "class"
    BY <1>5
  <2>2. CASE text[i].other = Literal
    BY <1>1, <1>5, <2>1, <2>2 DEF op
  <2>3. CASE text[i].other # Literal
    BY <1>1, <1>5, <2>1, <2>3 DEF op, rest
  <2>4. QED
    BY <2>2, <2>3
<1>6. CASE op \notin {"lambda", "fn", "class", "let"}
  BY <1>1, <1>2, <1>6 DEF op
<1>7. QED
  BY <1>3, <1>4, <1>5, <1>6

(* The declaration that an item reads is one it has. *)
LEMMA ReadIs ==
  ASSUME NEW i, Visible(text[i].other, i) # {}
  PROVE  Read(i) \in Visible(text[i].other, i)
BY DEF Read

(* What was given is what is deserved where that holds of what it is from.  *)
LEMMA GivenDeserved ==
  ASSUME Formed(text), OnceIn(text), TypedTo(text, types, Len(text)), NEW i \in 1 .. Len(text), NEW f,
         \A j \in 1 .. Len(text) : j < i => f[j] = Given(j)
  PROVE  Deserves(f, i) = Given(i)
<1>1. Typed(text, types, i) /\ text \in Seq(Item) /\ i \in Int
  BY DEF TypedTo, Formed
<1>2. CASE text[i].op # "let"
  BY <1>2, DeservesIs
<1>3. CASE text[i].op = "let" /\ text[i].other = Literal
  <2>1. Given(i) = types[i]
    BY <1>3 DEF Given
  <2>2. types[i] = Type("number", 0)
    BY <1>1, <1>3 DEF Typed
  <2>3. QED
    BY <1>3, <2>1, <2>2, DeservesIs
<1>4. CASE text[i].op = "let" /\ text[i].other # Literal
  <2>1. Given(i) = types[i]
    BY <1>4 DEF Given
  <2>2. CASE Visible(text[i].other, i) = {}
    BY <1>4, <2>1, <2>2, DeservesIs
  <2>3. CASE Visible(text[i].other, i) # {}
    <3>1. PICK d : d = Read(i) /\ d \in VisibleIn(text, text[i].other, i)
      BY <2>3, ReadIs, VisiblesAre
    <3>2. d \in DeclaredIn(text) /\ d.item <= i
      BY <3>1 DEF VisibleIn
    <3>3. PICK k : k = d.item /\ k \in 1 .. Len(text) /\ k \in Int
      BY <3>2, KnownsAre
    <3>4. InOwnElse([item |-> i], d) <=> OwnElse(text, i, d)
      <4>1. PICK use : use = [item |-> i]
        OBVIOUS
      <4>2. use.item = i
        BY <4>1
      <4>3. QED
        BY <3>2, <4>1, <4>2, OwnElsesAre
    <3>5. types[i] = Due(text, types, i, d)
      BY <1>1, <1>4, <3>1 DEF Typed
    <3>6. Body(i) = BodyIn(text, i)
      BY BodiesAre
    <3>7. Deserves(f, i) =
            IF OwnElse(text, i, d) THEN Unknown
            ELSE IF k = i
              THEN IF BodyIn(text, i) # 0 /\ text[BodyIn(text, i)].op = "lambda" THEN Type("function", BodyIn(text, i)) ELSE Unknown
            ELSE IF d.place = Place(k, 3) /\ text[k].op = "fn" THEN Type("argument", k)
            ELSE f[k]
      BY <1>4, <2>3, <3>1, <3>3, <3>4, <3>6, DeservesIs DEF OtherAt
    <3>8. types[i] =
            IF OwnElse(text, i, d) THEN Unknown
            ELSE IF k = i
              THEN IF BodyIn(text, i) # 0 /\ text[BodyIn(text, i)].op = "lambda" THEN Type("function", BodyIn(text, i)) ELSE Unknown
            ELSE IF d.place = Place(k, 3) /\ text[k].op = "fn" THEN Type("argument", k)
            ELSE IF text[k].op \in {"let", "lambda"} THEN types[k]
            ELSE IF text[k].op = "fn" THEN Type("function", k)
            ELSE IF text[k].op = "class" THEN Type("class", k) ELSE Unknown
      BY <3>3, <3>5 DEF Due
    <3>9. k # i => f[k] = IF text[k].op \in {"let", "lambda"} THEN types[k]
                          ELSE IF text[k].op = "fn" THEN Type("function", k)
                          ELSE IF text[k].op = "class" THEN Type("class", k) ELSE Unknown
      <4>1. SUFFICES ASSUME k # i
                     PROVE  f[k] = IF text[k].op \in {"let", "lambda"} THEN types[k]
                                   ELSE IF text[k].op = "fn" THEN Type("function", k)
                                   ELSE IF text[k].op = "class" THEN Type("class", k) ELSE Unknown
        OBVIOUS
      <4>2. k < i
        BY <1>1, <3>2, <3>3, <4>1
      <4>3. f[k] = Given(k)
        BY <3>3, <4>2
      <4>4. text[k].op = "lambda" => types[k] = Type("function", k)
        BY <3>3 DEF TypedTo, Typed
      <4>5. QED
        BY <4>3, <4>4 DEF Given
    <3>10. QED
      BY <2>1, <3>7, <3>8, <3>9
  <2>4. QED
    BY <2>2, <2>3
<1>5. QED
  BY <1>2, <1>3, <1>4

(* Along chains of definitions: the first item to differ would have one     *)
(* before it.                                                               *)
LEMMA DeservedIs ==
  ASSUME Formed(text), OnceIn(text), TypedTo(text, types, Len(text))
  PROVE  \A i \in 1 .. Len(text) : Deserved[i] = Given(i)
<1> DEFINE deserved == CHOOSE f : f = [i \in DOMAIN text |-> Deserves(f, i)]
<1>1. Deserved = deserved
  BY DEF Deserved
<1>2. DOMAIN text = 1 .. Len(text) /\ Len(text) \in Nat
  BY TextParts DEF Formed
<1>3. PICK e : e = [i \in DOMAIN text |-> Given(i)]
  OBVIOUS
<1>4. \A i \in DOMAIN text : Deserves(e, i) = Given(i)
  <2>1. \A j \in 1 .. Len(text) : e[j] = Given(j)
    BY <1>2, <1>3
  <2>2. QED
    BY <1>2, <2>1, GivenDeserved
<1>5. e = [i \in DOMAIN text |-> Deserves(e, i)]
  BY <1>3, <1>4
<1>6. deserved = [i \in DOMAIN text |-> Deserves(deserved, i)]
  BY <1>5
<1> HIDE DEF deserved
<1>7. \A i \in 1 .. Len(text) : deserved[i] = Deserves(deserved, i)
  BY <1>2, <1>6
<1> DEFINE Off == {i \in 1 .. Len(text) : deserved[i] # Given(i)}
<1>8. SUFFICES ASSUME Off # {} PROVE FALSE
  BY <1>1
<1>9. PICK i \in Off : \A j \in Off : i <= j
  <2>1. Off \subseteq Nat
    OBVIOUS
  <2> HIDE DEF Off
  <2>2. QED
    BY <1>8, <2>1, LeastNatural
<1>10. i \in 1 .. Len(text) /\ deserved[i] # Given(i)
  OBVIOUS
<1>11. \A j \in 1 .. Len(text) : j < i => deserved[j] = Given(j)
  <2>1. TAKE j \in 1 .. Len(text)
  <2>2. j < i => ~(i <= j)
    BY <1>2, <1>10
  <2>3. QED
    BY <1>9, <2>2
<1>12. Deserves(deserved, i) = Given(i)
  BY <1>10, <1>11, GivenDeserved
<1>13. QED
  BY <1>7, <1>10, <1>12

(* What the invariant says of a text that is done. *)
LEMMA Holds ==
  ASSUME IInv
  PROVE  FindsDeclaration /\ FindsMore /\ TypesFollow
<1>1. CASE ~Settled
  BY <1>1 DEF FindsDeclaration, FindsMore, TypesFollow
<1>2. CASE Settled
  <2>1. text \in Texts /\ Walked(text, Len(text) + 1, index, pending) /\ TypedTo(text, types, Len(text))
    BY <1>2 DEF IInv, Settled
  <2>2. Formed(text) /\ DOMAIN text = 1 .. Len(text)
    BY <2>1, Forms
  <2>3. PICK of : Indexed(text, index, of)
    BY <2>1 DEF Walked, Indexed
  <2>4. FindsDeclaration
    BY <2>2, <2>3, FindsDeclarations
  <2>5. FindsMore
    BY <2>2, <2>3, FindsTheRest
  <2>6. TypesFollow
    <3>1. SUFFICES ASSUME DeclaredOnce, NEW i \in DOMAIN text, text[i].op = "let", text[i].other # Literal
                   PROVE  types[i] = Deserved[i]
      BY DEF TypesFollow
    <3>2. Deserved[i] = Given(i)
      BY <2>1, <2>2, <3>1, OnceIs, DeservedIs
    <3>3. QED
      BY <3>1, <3>2 DEF Given
  <2>7. QED
    BY <2>4, <2>5, <2>6
<1>3. QED
  BY <1>1, <1>2

(* The declaration the editor finds for a name is the one that the run has  *)
(* for it: of any text that declares no name twice, at any use in it,       *)
(* unless both stand in one else (find_definition and the scopes that       *)
(* TypedScopeBuilder enters, core/src/analysis.rs).                         *)
THEOREM FindsDeclared == Spec => []FindsDeclaration
<1>1. Init => IInv
  BY StartsIn
<1>2. IInv /\ [Next]_vars => IInv'
  BY StaysIn
<1>3. IInv => FindsDeclaration
  BY Holds
<1>4. QED
  BY <1>1, <1>2, <1>3, PTL DEF Spec

(* Where the run has no declaration of a name and the editor finds one, it  *)
(* comes later or is of a loop or a class that the use is not in            *)
(* (find_definition, which looks neither at the order of statements nor     *)
(* into loops, core/src/analysis.rs).                                       *)
THEOREM FindsNoMore == Spec => []FindsMore
<1>1. Init => IInv
  BY StartsIn
<1>2. IInv /\ [Next]_vars => IInv'
  BY StaysIn
<1>3. IInv => FindsMore
  BY Holds
<1>4. QED
  BY <1>1, <1>2, <1>3, PTL DEF Spec

(* The type inferred for a variable follows from the types of what the run  *)
(* reads, along chains of definitions of any length (find_variable_type     *)
(* and find_statement, core/src/type_checker.rs).                            *)
THEOREM TypesFollowed == Spec => []TypesFollow
<1>1. Init => IInv
  BY StartsIn
<1>2. IInv /\ [Next]_vars => IInv'
  BY StaysIn
<1>3. IInv => TypesFollow
  BY Holds
<1>4. QED
  BY <1>1, <1>2, <1>3, PTL DEF Spec

=============================================================================
