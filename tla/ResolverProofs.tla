--------------------------- MODULE ResolverProofs ---------------------------
(***************************************************************************)
(* Wherever a function is called from and whatever has been entered since, *)
(* the hops that the translator counted lead to the scope of the text that *)
(* declares the name, and the slot there has what was stored for that      *)
(* declaration: for any text, any names, any calls.                        *)
(*                                                                         *)
(* The hops first: what the translator leaves behind, item by item, then   *)
(* the scopes of the run (IInv).  The slots build on them, for texts that  *)
(* declare no name twice in a scope: every declaration of a scope has a    *)
(* slot of its own, and every scope that a function refers to is supplied  *)
(* with what is given to it (NInv).                                        *)
(***************************************************************************)
EXTENDS
  Resolver, SequenceTheorems, FiniteSetTheorems, WellFoundedInduction, TLAPS

-----------------------------------------------------------------------------
(***************************************************************************)
(* Facts about a sequence used as a stack, its innermost element last,     *)
(* and about numbers.                                                      *)
(***************************************************************************)

(* What is left of a stack when its innermost element is removed. *)
LEMMA FrontLast ==
  ASSUME NEW S, NEW s \in Seq(S), s # << >>
  PROVE  /\ Len(s) \in Nat /\ Len(s) >= 1
         /\ Last(s) \in S /\ Last(s) = s[Len(s)]
         /\ Front(s) \in Seq(S) /\ Len(Front(s)) = Len(s) - 1
         /\ \A i \in 1 .. Len(s) - 1 : Front(s)[i] = s[i]
<1>1. Len(s) \in Nat /\ Len(s) >= 1 /\ Len(s) \in 1 .. Len(s)
  BY LenProperties, EmptySeq
<1>2. Front(s) = SubSeq(s, 1, Len(s) - 1) /\ Last(s) = s[Len(s)]
  BY DEF Front, Last
<1>3. \A i \in 1 .. Len(s) : s[i] \in S
  BY ElementOfSeq
<1> DEFINE n == Len(s) - 1
           t == SubSeq(s, 1, n)
<1>4. n \in Nat /\ 1 \in Int /\ n \in Int /\ \A i \in 1 .. n : s[i] \in S
  BY <1>1, <1>3
<1> HIDE DEF n
<1>5. /\ t \in Seq(S)
      /\ Len(t) = IF 1 <= n THEN n - 1 + 1 ELSE 0
      /\ \A i \in 1 .. n - 1 + 1 : t[i] = s[1 + i - 1]
  BY <1>4, SubSeqProperties
<1>6. Len(t) = n
  BY <1>4, <1>5
<1>7. \A i \in 1 .. n : t[i] = s[i]
  <2> SUFFICES ASSUME NEW i \in 1 .. n
               PROVE  t[i] = s[i]
    OBVIOUS
  <2>1. i \in 1 .. n - 1 + 1 /\ 1 + i - 1 = i
    BY <1>4
  <2>2. QED
    BY <1>5, <2>1
<1>8. QED
  BY <1>1, <1>2, <1>3, <1>5, <1>6, <1>7 DEF n

(* What becomes of a stack when an element of it is replaced. *)
LEMMA ElementReplaced ==
  ASSUME NEW S, NEW s \in Seq(S), NEW k \in 1 .. Len(s), NEW e \in S,
         NEW t, t = [s EXCEPT ![k] = e]
  PROVE  /\ t \in Seq(S) /\ t # << >>
         /\ Len(t) = Len(s) /\ DOMAIN t = 1 .. Len(s)
         /\ Last(t) = t[Len(s)]
         /\ t[k] = e
         /\ \A i \in 1 .. Len(s) : i # k => t[i] = s[i]
<1>1. Len(s) \in Nat /\ Len(s) >= 1
  BY LenProperties
<1>2. /\ t \in Seq(S) /\ Len(t) = Len(s)
      /\ \A j \in 1 .. Len(s) : t[j] = IF j = k THEN e ELSE s[j]
  BY ExceptSeq
<1>3. t # << >>
  <2>1. Len(<< >>) = 0
    OBVIOUS
  <2>2. QED
    BY <1>1, <1>2, <2>1
<1>4. DOMAIN t = 1 .. Len(s) /\ Last(t) = t[Len(s)]
  BY <1>2, <1>3, LenProperties, FrontLast
<1>5. t[k] = e /\ \A i \in 1 .. Len(s) : i # k => t[i] = s[i]
  BY <1>2
<1>6. QED
  BY <1>2, <1>3, <1>4, <1>5

(* The least element of a set of naturals: what induction is done with.    *)
LEMMA LeastNatural ==
  ASSUME NEW T, T \subseteq Nat, T # {}
  PROVE  \E m \in T : \A n \in T : m <= n
<1> DEFINE R == {p \in Nat \X Nat : p[1] < p[2]}
<1>1. IsWellFoundedOn(R, Nat)
  BY NatLessThanWellFounded DEF OpToRel
<1> HIDE DEF R
<1>2. PICK m \in T : \A n \in T : <<n, m>> \notin R
  BY <1>1, WFMin
<1>3. \A n \in T : ~(n < m)
  BY <1>2 DEF R
<1>4. QED
  BY <1>3

-----------------------------------------------------------------------------
(***************************************************************************)
(* Applying a function again and again.                                    *)
(***************************************************************************)

(* A function can be applied over and over, as often as one likes.         *)
Iterating(S, g, x, n) == \E f \in [0 .. n -> S] : f[0] = x /\ \A d \in 1 .. n : f[d] = g[f[d - 1]]

LEMMA Iterates ==
  ASSUME NEW S, NEW g \in [S -> S], NEW x \in S, NEW n \in Nat
  PROVE  Iterating(S, g, x, n)
<1> DEFINE T == {m \in Nat : ~Iterating(S, g, x, m)}
<1>1. SUFFICES ASSUME T # {} PROVE FALSE
  OBVIOUS
<1>2. PICK m \in T : \A k \in T : m <= k
  BY <1>1, LeastNatural
<1>3. CASE m = 0
  <2>1. PICK f : f = [d \in 0 .. 0 |-> x]
    OBVIOUS
  <2>2. f \in [0 .. 0 -> S] /\ f[0] = x
    BY <2>1
  <2>3. \A d \in 1 .. 0 : FALSE
    OBVIOUS
  <2>4. QED
    BY <1>2, <1>3, <2>2, <2>3 DEF Iterating
<1>4. CASE m # 0
  <2>1. PICK k \in Nat : k + 1 = m /\ ~(m <= k)
    <3>1. m \in Nat /\ m # 0
      BY <1>2, <1>4
    <3>2. m - 1 \in Nat /\ (m - 1) + 1 = m /\ ~(m <= m - 1)
      BY <3>1
    <3>3. QED
      BY <3>2
  <2>2. Iterating(S, g, x, k)
    BY <1>2, <2>1
  <2>3. PICK f \in [0 .. k -> S] : f[0] = x /\ \A d \in 1 .. k : f[d] = g[f[d - 1]]
    BY <2>2 DEF Iterating
  <2>4. PICK e : e = [d \in 0 .. k + 1 |-> IF d = k + 1 THEN g[f[k]] ELSE f[d]]
    OBVIOUS
  <2>5. 0 \in 0 .. k /\ k \in 0 .. k /\ \A d \in 0 .. k + 1 : d = k + 1 \/ d \in 0 .. k
    OBVIOUS
  <2>6. e \in [0 .. k + 1 -> S] /\ e[0] = x /\ e[k + 1] = g[f[k]] /\ \A d \in 0 .. k : e[d] = f[d]
    BY <2>3, <2>4, <2>5
  <2>7. ASSUME NEW d \in 1 .. k + 1
        PROVE  e[d] = g[e[d - 1]]
    <3>1. CASE d = k + 1
      <4>1. d - 1 = k
        BY <3>1
      <4>2. QED
        BY <2>5, <2>6, <3>1, <4>1
    <3>2. CASE d # k + 1
      <4>1. d \in 1 .. k /\ d \in 0 .. k /\ d - 1 \in 0 .. k
        BY <3>2
      <4>2. QED
        BY <2>3, <2>6, <4>1
    <3>3. QED
      BY <3>1, <3>2
  <2>8. Iterating(S, g, x, k + 1)
    BY <2>6, <2>7 DEF Iterating
  <2>9. QED
    BY <1>2, <2>1, <2>8
<1>5. QED
  BY <1>3, <1>4

-----------------------------------------------------------------------------
(***************************************************************************)
(* What the translator has made, of texts in general.                      *)
(***************************************************************************)

Roles == {"own", "self", "param", "lambda", "none"}
Bound == [at : Nat, role : Roles]
Codes == [op : Op, inside : Nat, target : Refs, other : Refs, param : Refs]

(* DeclaredIn, of the items c.                                              *)
DeclIn(c, b) == IF b.role \in {"self", "param"} \/ c[b.at].op = "for" THEN b.at ELSE c[b.at].inside

(* Going out of as many bodies as the reference says leads from one to the  *)
(* body that declares what it refers to.                                    *)
Way(c, from, r) ==
  /\ r.binding.at \in 1 .. Len(c)
  /\ \E way \in [0 .. r.depth -> Nat] :
       /\ way[0] = from /\ way[r.depth] = DeclIn(c, r.binding)
       /\ \A d \in 1 .. r.depth : way[d - 1] \in 1 .. Len(c) /\ way[d] = c[way[d - 1]].inside

(* The body an item's expression is in, and the one that goes on behind it. *)
Base(c, p) == IF c[p].op = "while" THEN p ELSE c[p].inside
After(c, q) == IF c[q].op \in Opening THEN q ELSE IF c[q].op = "end" THEN c[c[q].inside].inside ELSE c[q].inside

Line(c, p) ==
  /\ c[p].inside \in 0 .. p - 1
  /\ c[p].inside # 0 => c[c[p].inside].op \in Opening
  /\ c[p].op = "end" => c[p].inside # 0
  /\ p > 1 => c[p].inside = After(c, p - 1)
  /\ c[p].other # NoRef => Way(c, Base(c, p), c[p].other)
  /\ c[p].op \in {"set", "call"} /\ c[p].target # NoRef => Way(c, c[p].inside, c[p].target)

Symbols(c) == [slot : Nat, binding : [at : 1 .. Len(c), role : Roles]]
Names == Name \cup {Literal} \cup Nat
Tabs(c) ==
  {tb \in [open : Nat, symbols : UNION {[D -> Symbols(c)] : D \in SUBSET Names}] :
     /\ IsFiniteSet(DOMAIN tb.symbols)
     /\ \A n \in DOMAIN tb.symbols : DeclIn(c, tb.symbols[n].binding) = tb.open}

(* The tables are of bodies in each other. *)
Nest(c, ts) ==
  /\ ts \in Seq(Tabs(c)) /\ ts # << >> /\ ts[1].open = 0
  /\ \A i \in 2 .. Len(ts) : /\ ts[i].open \in 1 .. Len(c) /\ c[ts[i].open].op \in Opening
                             /\ c[ts[i].open].inside = ts[i - 1].open

Closed(c, p) == \E e \in 1 .. Len(c) : c[e].op = "end" /\ c[e].inside = p

Made(t, c, ts) ==
  /\ c \in Seq(Codes) /\ Len(c) <= Len(t)
  /\ \A p \in 1 .. Len(c) : c[p].op = t[p].op /\ Line(c, p)
  /\ Nest(c, ts) /\ Len(ts) = Depth(t, Len(c)) + 1
  /\ Last(ts).open = IF Len(c) = 0 THEN 0 ELSE After(c, Len(c))
  /\ \A p \in 1 .. Len(c) :
       c[p].op \in Opening => Closed(c, p) \/ \E i \in 2 .. Len(ts) : ts[i].open = p

-----------------------------------------------------------------------------
(***************************************************************************)
(* Tables.                                                                 *)
(***************************************************************************)

LEMMA TabParts ==
  ASSUME NEW c, NEW tb \in Tabs(c)
  PROVE  /\ tb.open \in Nat /\ tb = [open |-> tb.open, symbols |-> tb.symbols]
         /\ IsFiniteSet(DOMAIN tb.symbols) /\ DOMAIN tb.symbols \subseteq Names
         /\ \A n \in DOMAIN tb.symbols :
              /\ tb.symbols[n] \in Symbols(c)
              /\ DeclIn(c, tb.symbols[n].binding) = tb.open
<1>1. /\ tb \in [open : Nat, symbols : UNION {[D -> Symbols(c)] : D \in SUBSET Names}]
      /\ IsFiniteSet(DOMAIN tb.symbols)
      /\ \A n \in DOMAIN tb.symbols : DeclIn(c, tb.symbols[n].binding) = tb.open
  BY DEF Tabs
<1>2. PICK D \in SUBSET Names : tb.symbols \in [D -> Symbols(c)]
  BY <1>1
<1>3. DOMAIN tb.symbols = D /\ \A n \in D : tb.symbols[n] \in Symbols(c)
  BY <1>2
<1>4. QED
  BY <1>1, <1>3

LEMMA TabMade ==
  ASSUME NEW c, NEW open \in Nat, NEW D, D \subseteq Names, IsFiniteSet(D), NEW f \in [D -> Symbols(c)],
         \A n \in D : DeclIn(c, f[n].binding) = open
  PROVE  [open |-> open, symbols |-> f] \in Tabs(c)
<1>1. f \in UNION {[E -> Symbols(c)] : E \in SUBSET Names}
  OBVIOUS
<1>2. DOMAIN f = D
  OBVIOUS
<1>3. QED
  BY <1>1, <1>2 DEF Tabs

(* A name more. *)
WithSymbol(tb, name, symbol) ==
  [tb EXCEPT !.symbols = [n \in DOMAIN @ \cup {name} |-> IF n = name THEN symbol ELSE @[n]]]

LEMMA TabDeclares ==
  ASSUME NEW c, NEW tb \in Tabs(c), NEW name \in Names, NEW b \in [at : 1 .. Len(c), role : Roles],
         DeclIn(c, b) = tb.open,
         NEW symbol, symbol = [slot |-> NextSlot(tb), binding |-> b]
  PROVE  WithSymbol(tb, name, symbol) \in Tabs(c) /\ WithSymbol(tb, name, symbol).open = tb.open
<1>1. /\ tb.open \in Nat /\ tb = [open |-> tb.open, symbols |-> tb.symbols]
      /\ IsFiniteSet(DOMAIN tb.symbols) /\ DOMAIN tb.symbols \subseteq Names
      /\ \A n \in DOMAIN tb.symbols :
           /\ tb.symbols[n] \in Symbols(c)
           /\ DeclIn(c, tb.symbols[n].binding) = tb.open
  BY TabParts
<1> DEFINE D == DOMAIN tb.symbols \cup {name}
           f == [n \in D |-> IF n = name THEN symbol ELSE tb.symbols[n]]
<1>2. Cardinality(DOMAIN tb.symbols) \in Nat
  BY <1>1, FS_CardinalityType
<1>3. symbol \in Symbols(c) /\ symbol.binding = b
  BY <1>2 DEF Symbols, NextSlot
<1>4. IsFiniteSet(D) /\ D \subseteq Names
  BY <1>1, FS_AddElement
<1>5. f \in [D -> Symbols(c)] /\ \A n \in D : DeclIn(c, f[n].binding) = tb.open
  BY <1>1, <1>3
<1>6. WithSymbol(tb, name, symbol) = [open |-> tb.open, symbols |-> f]
  BY <1>1 DEF WithSymbol
<1>7. [open |-> tb.open, symbols |-> f] \in Tabs(c)
  BY <1>1, <1>4, <1>5, TabMade
<1>8. QED
  BY <1>6, <1>7

LEMMA TabBegins ==
  ASSUME NEW c, NEW open \in Nat
  PROVE  Table(open) \in Tabs(c) /\ Table(open).open = open
<1> DEFINE f == [n \in {} |-> Nothing]
<1>1. IsFiniteSet({})
  BY FS_EmptySet
<1>2. f \in [{} -> Symbols(c)]
  OBVIOUS
<1>3. {} \subseteq Names
  OBVIOUS
<1> HIDE DEF f
<1>4. [open |-> open, symbols |-> f] \in Tabs(c)
  BY <1>1, <1>2, <1>3, TabMade
<1>5. QED
  BY <1>4 DEF Table, f

(* What has been said of items stays true when there are more of them.      *)
Longer(c, e) == /\ c \in Seq(Codes) /\ Len(c) \in Nat /\ Len(e) \in Nat /\ Len(c) <= Len(e)
                /\ \A p \in 1 .. Len(c) : p \in 1 .. Len(e) /\ e[p] = c[p]

LEMMA OneMore ==
  ASSUME NEW c \in Seq(Codes), NEW item
  PROVE  /\ Longer(c, Append(c, item)) /\ Len(Append(c, item)) = Len(c) + 1
         /\ Append(c, item)[Len(c) + 1] = item /\ Len(c) + 1 \in 1 .. Len(c) + 1
         /\ item \in Codes => Append(c, item) \in Seq(Codes)
<1>1. Len(c) \in Nat
  BY LenProperties
<1>2. c \in Seq(Codes \cup {item}) /\ item \in Codes \cup {item}
  BY SeqMonotonic
<1>3. /\ Len(Append(c, item)) = Len(c) + 1
      /\ \A i \in 1 .. Len(c) : Append(c, item)[i] = c[i]
      /\ Append(c, item)[Len(c) + 1] = item
  BY <1>2, AppendProperties
<1>4. item \in Codes => Append(c, item) \in Seq(Codes)
  BY AppendProperties
<1>5. \A n \in Nat : n <= n + 1 /\ n + 1 \in Nat /\ n + 1 \in 1 .. n + 1 /\ 1 .. n \subseteq 1 .. n + 1
  OBVIOUS
<1>6. QED
  BY <1>1, <1>3, <1>4, <1>5 DEF Longer

LEMMA DeclStays ==
  ASSUME NEW c, NEW e, Longer(c, e), NEW b, b.at \in 1 .. Len(c)
  PROVE  DeclIn(e, b) = DeclIn(c, b)
BY DEF DeclIn, Longer

LEMMA TabsStay ==
  ASSUME NEW c, NEW e, Longer(c, e)
  PROVE  Tabs(c) \subseteq Tabs(e)
<1>1. SUFFICES ASSUME NEW tb \in Tabs(c)
               PROVE  tb \in Tabs(e)
  OBVIOUS
<1>2. /\ tb.open \in Nat /\ tb = [open |-> tb.open, symbols |-> tb.symbols]
      /\ IsFiniteSet(DOMAIN tb.symbols) /\ DOMAIN tb.symbols \subseteq Names
      /\ \A n \in DOMAIN tb.symbols :
           /\ tb.symbols[n] \in Symbols(c)
           /\ DeclIn(c, tb.symbols[n].binding) = tb.open
  BY TabParts
<1>3. Symbols(c) \subseteq Symbols(e)
  BY DEF Symbols, Longer
<1>4. \A n \in DOMAIN tb.symbols : DeclIn(e, tb.symbols[n].binding) = tb.open
  <2>1. \A n \in DOMAIN tb.symbols : tb.symbols[n].binding.at \in 1 .. Len(c)
    BY <1>2 DEF Symbols
  <2>2. QED
    BY <1>2, <2>1, DeclStays
<1>5. tb.symbols \in [DOMAIN tb.symbols -> Symbols(e)]
  <2>1. \E D : \E f \in [D -> Symbols(c)] : tb.symbols = f
    BY DEF Tabs
  <2>2. QED
    BY <1>3, <2>1
<1>6. PICK D, f, o : D = DOMAIN tb.symbols /\ f = tb.symbols /\ o = tb.open
  OBVIOUS
<1>7. [open |-> o, symbols |-> f] \in Tabs(e)
  BY <1>2, <1>4, <1>5, <1>6, TabMade
<1>8. QED
  BY <1>2, <1>6, <1>7

LEMMA WayStays ==
  ASSUME NEW c, NEW e, Longer(c, e), NEW from, NEW r \in Refs, Way(c, from, r)
  PROVE  Way(e, from, r)
<1>1. r.binding.at \in 1 .. Len(c)
  BY DEF Way
<1>2. DeclIn(e, r.binding) = DeclIn(c, r.binding)
  BY <1>1, DeclStays
<1>3. PICK way \in [0 .. r.depth -> Nat] :
        /\ way[0] = from /\ way[r.depth] = DeclIn(c, r.binding)
        /\ \A d \in 1 .. r.depth : way[d - 1] \in 1 .. Len(c) /\ way[d] = c[way[d - 1]].inside
  BY DEF Way
<1>4. \A d \in 1 .. r.depth : way[d - 1] \in 1 .. Len(e) /\ way[d] = e[way[d - 1]].inside
  BY <1>3 DEF Longer
<1>5. r.binding.at \in 1 .. Len(e)
  BY <1>1 DEF Longer
<1>6. QED
  BY <1>2, <1>3, <1>4, <1>5 DEF Way

LEMMA CodeFields ==
  ASSUME NEW c \in Seq(Codes), NEW p \in 1 .. Len(c)
  PROVE  /\ c[p].op \in Op /\ c[p].inside \in Nat
         /\ c[p].target \in Refs /\ c[p].other \in Refs /\ c[p].param \in Refs
<1>1. c[p] \in Codes
  BY ElementOfSeq
<1>2. QED
  BY <1>1 DEF Codes

LEMMA LineStays ==
  ASSUME NEW c, NEW e, Longer(c, e), NEW p \in 1 .. Len(c), \A q \in 1 .. Len(c) : Line(c, q)
  PROVE  Line(e, p)
<1>1. /\ c \in Seq(Codes) /\ Len(c) \in Nat /\ p \in Nat /\ e[p] = c[p]
      /\ \A q \in 1 .. Len(c) : q \in 1 .. Len(e) /\ e[q] = c[q]
  BY DEF Longer
<1>2. PICK o \in 0 .. p - 1 : o = c[p].inside
  BY DEF Line
<1>3. o # 0 => o \in 1 .. Len(c)
  BY <1>1, <1>2
<1>4. p > 1 => c[p].inside = After(e, p - 1)
  <2>1. SUFFICES ASSUME p > 1
                 PROVE  c[p].inside = After(e, p - 1)
    OBVIOUS
  <2>2. PICK q : q = p - 1
    OBVIOUS
  <2>3. q \in 1 .. Len(c) /\ q \in Nat
    BY <1>1, <2>1, <2>2
  <2>4. PICK i : i = c[q].inside
    OBVIOUS
  <2>5. c[q].op = "end" => i \in 1 .. Len(c)
    <3>1. i \in 0 .. q - 1 /\ (c[q].op = "end" => i # 0)
      BY <2>3, <2>4 DEF Line
    <3>2. QED
      BY <1>1, <2>3, <3>1
  <2>6. After(e, q) = After(c, q)
    BY <1>1, <2>3, <2>4, <2>5 DEF After
  <2>7. QED
    BY <2>1, <2>2, <2>6 DEF Line
<1>5. c[p].other \in Refs /\ c[p].target \in Refs
  BY <1>1, CodeFields
<1>6. c[p].other # NoRef => Way(e, Base(c, p), c[p].other)
  BY <1>5, WayStays DEF Line
<1>7. c[p].op \in {"set", "call"} /\ c[p].target # NoRef => Way(e, c[p].inside, c[p].target)
  BY <1>5, WayStays DEF Line
<1>8. Base(e, p) = Base(c, p)
  BY <1>1 DEF Base
<1>9. /\ c[p].inside \in 0 .. p - 1 /\ (c[p].op = "end" => c[p].inside # 0)
      /\ c[p].inside # 0 => c[c[p].inside].op \in Opening
  BY DEF Line
<1>10. c[p].inside # 0 => e[c[p].inside].op \in Opening
  BY <1>1, <1>2, <1>3, <1>9
<1>11. QED
  BY <1>1, <1>4, <1>6, <1>7, <1>8, <1>9, <1>10 DEF Line

LEMMA NestStays ==
  ASSUME NEW c, NEW e, Longer(c, e), NEW ts, Nest(c, ts)
  PROVE  Nest(e, ts)
<1>1. ts \in Seq(Tabs(c)) /\ Tabs(c) \subseteq Tabs(e)
  BY TabsStay DEF Nest
<1>2. ts \in Seq(Tabs(e))
  BY <1>1, SeqMonotonic
<1>3. QED
  BY <1>2 DEF Nest, Longer

LEMMA ClosedStays ==
  ASSUME NEW c, NEW e, Longer(c, e), NEW p, Closed(c, p)
  PROVE  Closed(e, p)
BY DEF Closed, Longer

(* Tables that are of the same bodies. *)
Alike(ts, us) == Len(us) = Len(ts) /\ \A i \in 1 .. Len(ts) : us[i].open = ts[i].open

LEMMA NestTop ==
  ASSUME NEW c, NEW ts, Nest(c, ts)
  PROVE  /\ ts \in Seq(Tabs(c)) /\ Len(ts) \in Nat /\ Len(ts) >= 1 /\ Last(ts) = ts[Len(ts)] /\ Last(ts) \in Tabs(c)
         /\ Len(ts) \in 1 .. Len(ts) /\ 1 \in 1 .. Len(ts)
         /\ \A i \in 1 .. Len(ts) : ts[i] \in Tabs(c) /\ ts[i].open \in Nat
         /\ Last(ts).open \in Nat
<1>1. ts \in Seq(Tabs(c)) /\ ts # << >>
  BY DEF Nest
<1>2. Len(ts) \in Nat /\ Len(ts) >= 1 /\ Last(ts) = ts[Len(ts)] /\ Last(ts) \in Tabs(c)
  BY <1>1, FrontLast
<1>3. \A n \in Nat : n >= 1 => n \in 1 .. n /\ 1 \in 1 .. n
  OBVIOUS
<1>4. \A i \in 1 .. Len(ts) : ts[i] \in Tabs(c)
  BY <1>1, ElementOfSeq
<1>5. \A tb \in Tabs(c) : tb.open \in Nat
  BY TabParts
<1>6. QED
  BY <1>1, <1>2, <1>3, <1>4, <1>5

LEMMA AlikeNest ==
  ASSUME NEW c, NEW ts, Nest(c, ts), NEW us \in Seq(Tabs(c)), Alike(ts, us)
  PROVE  Nest(c, us) /\ Last(us).open = Last(ts).open
<1>1. /\ Len(ts) \in Nat /\ Len(ts) >= 1 /\ Last(ts) = ts[Len(ts)] /\ Len(ts) \in 1 .. Len(ts) /\ 1 \in 1 .. Len(ts)
  BY NestTop
<1>2. Len(us) = Len(ts) /\ us # << >>
  BY <1>1, EmptySeq DEF Alike
<1>3. Last(us) = us[Len(ts)]
  BY <1>2, FrontLast
<1>4. \A i \in 2 .. Len(ts) : i \in 1 .. Len(ts) /\ i - 1 \in 1 .. Len(ts)
  BY <1>1
<1>5. QED
  BY <1>1, <1>2, <1>3, <1>4 DEF Nest, Alike

LEMMA NestDeclares ==
  ASSUME NEW c, NEW ts, Nest(c, ts), NEW name \in Names, NEW b, b.at \in 1 .. Len(c), b \in Bound,
         DeclIn(c, b) = Last(ts).open
  PROVE  /\ Nest(c, Declare(ts, name, b)) /\ Alike(ts, Declare(ts, name, b))
         /\ Last(Declare(ts, name, b)).open = Last(ts).open
<1>1. /\ ts \in Seq(Tabs(c)) /\ Len(ts) \in Nat /\ Len(ts) >= 1 /\ Last(ts) = ts[Len(ts)] /\ Last(ts) \in Tabs(c)
      /\ ts # << >>
  BY NestTop DEF Nest
<1>2. b \in [at : 1 .. Len(c), role : Roles]
  BY DEF Bound
<1>3. PICK tb \in Tabs(c) : tb = Last(ts)
  BY <1>1
<1>4. PICK symbol : symbol = [slot |-> NextSlot(tb), binding |-> b]
  OBVIOUS
<1>5. PICK ub : ub = WithSymbol(tb, name, symbol)
  OBVIOUS
<1>6. ub \in Tabs(c) /\ ub.open = tb.open
  <2>1. DeclIn(c, b) = tb.open
    BY <1>3
  <2>2. QED
    BY <1>2, <1>4, <1>5, <2>1, TabDeclares
<1>7. PICK us : us = Append(Front(ts), ub)
  OBVIOUS
<1>8. us = Declare(ts, name, b)
  BY <1>3, <1>4, <1>5, <1>7 DEF Declare, WithSymbol
<1>9. PICK n \in Nat : n = Len(ts) /\ n >= 1
  BY <1>1
<1>10. Front(ts) \in Seq(Tabs(c)) /\ Len(Front(ts)) = n - 1 /\ \A i \in 1 .. n - 1 : Front(ts)[i] = ts[i]
  BY <1>1, <1>9, FrontLast
<1>11. us \in Seq(Tabs(c)) /\ Len(us) = n /\ us[n] = ub /\ \A i \in 1 .. n - 1 : us[i] = ts[i]
  <2>1. /\ us \in Seq(Tabs(c)) /\ Len(us) = Len(Front(ts)) + 1 /\ us[Len(Front(ts)) + 1] = ub
        /\ \A i \in 1 .. Len(Front(ts)) : us[i] = Front(ts)[i]
    BY <1>6, <1>7, <1>10, AppendProperties
  <2>2. n - 1 + 1 = n
    BY <1>9
  <2>3. QED
    BY <1>10, <2>1, <2>2
<1>12. \A i \in 1 .. n : i = n \/ i \in 1 .. n - 1
  BY <1>9
<1>13. Alike(ts, us)
  BY <1>1, <1>3, <1>6, <1>9, <1>11, <1>12 DEF Alike
<1>14. QED
  BY <1>8, <1>11, <1>13, AlikeNest

(* The table of a body more. *)
Stacked(ts, us, at) ==
  Len(us) = Len(ts) + 1 /\ us[Len(ts) + 1].open = at /\ \A i \in 1 .. Len(ts) : us[i].open = ts[i].open

LEMMA NestBegins ==
  ASSUME NEW c, NEW ts, Nest(c, ts), NEW at \in 1 .. Len(c), at \in Nat, c[at].op \in Opening, c[at].inside = Last(ts).open
  PROVE  Nest(c, Append(ts, Table(at))) /\ Stacked(ts, Append(ts, Table(at)), at) /\ Last(Append(ts, Table(at))).open = at
<1>1. /\ ts \in Seq(Tabs(c)) /\ Len(ts) >= 1 /\ Last(ts) = ts[Len(ts)] /\ ts # << >>
      /\ 1 \in 1 .. Len(ts)
  BY NestTop DEF Nest
<1>2. PICK n \in Nat : n = Len(ts) /\ n >= 1
  BY NestTop
<1>3. PICK tb : tb = Table(at) /\ tb \in Tabs(c) /\ tb.open = at
  BY TabBegins
<1>4. PICK us : us = Append(ts, tb)
  OBVIOUS
<1>5. us \in Seq(Tabs(c)) /\ Len(us) = n + 1 /\ us[n + 1] = tb /\ \A i \in 1 .. n : us[i] = ts[i]
  BY <1>1, <1>2, <1>3, <1>4, AppendProperties
<1>6. n + 1 \in Nat /\ n + 1 >= 1 /\ n + 1 # 0
  BY <1>2
<1>7. us # << >> /\ Last(us) = us[n + 1]
  BY <1>5, <1>6, EmptySeq, FrontLast
<1>8. \A i \in 2 .. n + 1 : i = n + 1 \/ (i \in 2 .. n /\ i \in 1 .. n /\ i - 1 \in 1 .. n)
  BY <1>2
<1>9. (n + 1) - 1 = n /\ n \in 1 .. n
  BY <1>2
<1>10. ASSUME NEW i \in 2 .. Len(us)
       PROVE  us[i].open \in 1 .. Len(c) /\ c[us[i].open].op \in Opening /\ c[us[i].open].inside = us[i - 1].open
  <2>1. CASE i = n + 1
    BY <1>1, <1>2, <1>3, <1>5, <1>9, <2>1
  <2>2. CASE i # n + 1
    BY <1>2, <1>5, <1>8, <1>10, <2>2 DEF Nest
  <2>3. QED
    BY <2>1, <2>2
<1>11. us[1].open = 0
  BY <1>1, <1>2, <1>5 DEF Nest
<1>12. Nest(c, us) /\ Stacked(ts, us, at)
  BY <1>2, <1>3, <1>5, <1>7, <1>10, <1>11 DEF Nest, Stacked
<1>13. QED
  BY <1>3, <1>4, <1>5, <1>7, <1>12

LEMMA NestEnds ==
  ASSUME NEW c, NEW ts, Nest(c, ts), Len(ts) >= 2
  PROVE  /\ Nest(c, Front(ts)) /\ Len(Front(ts)) = Len(ts) - 1
         /\ \A i \in 1 .. Len(ts) - 1 : Front(ts)[i] = ts[i]
         /\ Last(Front(ts)) = ts[Len(ts) - 1]
<1>1. ts \in Seq(Tabs(c)) /\ ts # << >>
  BY DEF Nest
<1>2. PICK n \in Nat : n = Len(ts) /\ n >= 2
  BY NestTop
<1>3. PICK us : us = Front(ts)
  OBVIOUS
<1>4. us \in Seq(Tabs(c)) /\ Len(us) = n - 1 /\ \A i \in 1 .. n - 1 : us[i] = ts[i]
  BY <1>1, <1>2, <1>3, FrontLast
<1>5. n - 1 \in Nat /\ n - 1 # 0 /\ 1 \in 1 .. n - 1
  BY <1>2
<1>6. us # << >> /\ Last(us) = us[n - 1]
  BY <1>4, <1>5, EmptySeq, FrontLast
<1>7. \A i \in 2 .. n - 1 : i \in 2 .. n /\ i \in 1 .. n - 1 /\ i - 1 \in 1 .. n - 1
  BY <1>2
<1>8. n - 1 \in 1 .. n - 1
  BY <1>5
<1>9. Nest(c, us)
  BY <1>2, <1>4, <1>5, <1>6, <1>7 DEF Nest
<1>10. QED
  BY <1>2, <1>3, <1>4, <1>6, <1>8, <1>9

(* The greatest of the numbers up to n that are in a set. *)
LEMMA GreatestOrNone ==
  ASSUME NEW n \in Nat, NEW S, S \subseteq 0 .. n, S # {}
  PROVE  Max(S) \in S /\ \A x \in S : Max(S) >= x
<1> DEFINE T == {n - x : x \in S}
<1>1. T \subseteq Nat /\ T # {}
  <2>1. \A x \in 0 .. n : n - x \in Nat
    OBVIOUS
  <2>2. PICK x : x \in S
    OBVIOUS
  <2>3. n - x \in T
    BY <2>2
  <2>4. QED
    BY <2>1, <2>3
<1>2. PICK m \in T : \A k \in T : m <= k
  BY <1>1, LeastNatural
<1>3. PICK x \in S : m = n - x
  BY <1>2
<1>4. \A y \in S : x >= y
  <2>1. SUFFICES ASSUME NEW y \in S
                 PROVE  x >= y
    OBVIOUS
  <2>2. n - x <= n - y
    BY <1>2, <1>3
  <2>3. x \in Int /\ y \in Int
    OBVIOUS
  <2>4. QED
    BY <2>2, <2>3
<1>5. QED
  BY <1>4 DEF Max

LEMMA Greatest ==
  ASSUME NEW n \in Nat, NEW S, S \subseteq 1 .. n, S # {}
  PROVE  Max(S) \in S /\ \A x \in S : Max(S) >= x
<1>1. S \subseteq 0 .. n
  OBVIOUS
<1>2. QED
  BY <1>1, GreatestOrNone

LEMMA ResolvesWell ==
  ASSUME NEW c, NEW ts, Nest(c, ts), NEW name
  PROVE  /\ Resolve(ts, name) \in Refs
         /\ Resolve(ts, name) # NoRef => Way(c, Last(ts).open, Resolve(ts, name))
<1>1. CASE Holders(ts, name) = {}
  <2>1. Resolve(ts, name) = NoRef
    BY <1>1 DEF Resolve
  <2>2. NoRef \in Refs
    BY DEF NoRef, Refs, Nothing, Binding
  <2>3. QED
    BY <2>1, <2>2
<1>2. CASE Holders(ts, name) # {}
  <2>1. PICK n \in Nat : n = Len(ts) /\ Last(ts) = ts[n] /\ DOMAIN ts = 1 .. n
    BY NestTop, LenProperties
  <2>2. PICK i : i = Max(Holders(ts, name))
    OBVIOUS
  <2>3. i \in 1 .. n /\ name \in DOMAIN ts[i].symbols
    <3>1. Holders(ts, name) \subseteq 1 .. n
      BY <2>1 DEF Holders
    <3>2. i \in Holders(ts, name)
      BY <1>2, <2>2, <3>1, Greatest
    <3>3. QED
      BY <3>1, <3>2 DEF Holders
  <2>4. PICK r : r = [slot |-> ts[i].symbols[name].slot, depth |-> n - i, binding |-> ts[i].symbols[name].binding]
    OBVIOUS
  <2>5. Resolve(ts, name) = r
    BY <1>2, <2>1, <2>2, <2>4 DEF Resolve
  <2>6. ts[i] \in Tabs(c) /\ \A j \in 1 .. n : ts[j].open \in Nat
    BY <2>1, <2>3, NestTop
  <2>7. ts[i].symbols[name] \in Symbols(c) /\ DeclIn(c, ts[i].symbols[name].binding) = ts[i].open
    BY <2>3, <2>6, TabParts
  <2>8. /\ r.slot \in Nat /\ r.depth = n - i /\ r.binding.at \in 1 .. Len(c) /\ r.binding \in Bound
        /\ DeclIn(c, r.binding) = ts[i].open
    BY <2>4, <2>7 DEF Symbols, Bound
  <2>9. n - i \in Nat
    BY <2>3
  <2>10. r \in Refs
    BY <2>4, <2>8, <2>9 DEF Refs, Bound, Roles
  <2> DEFINE way == [d \in 0 .. n - i |-> ts[n - d].open]
  <2>11. \A d \in 0 .. n - i : n - d \in 1 .. n
    BY <2>3
  <2>12. way \in [0 .. n - i -> Nat] /\ way[0] = ts[n].open /\ way[n - i] = ts[i].open
    <3>1. 0 \in 0 .. n - i /\ n - i \in 0 .. n - i /\ n - 0 = n /\ n - (n - i) = i
      BY <2>3
    <3>2. QED
      BY <2>6, <2>11, <3>1
  <2>13. ASSUME NEW d \in 1 .. n - i
         PROVE  way[d - 1] \in 1 .. Len(c) /\ way[d] = c[way[d - 1]].inside
    <3>1. PICK j : j = n - (d - 1)
      OBVIOUS
    <3>2. d - 1 \in 0 .. n - i /\ d \in 0 .. n - i /\ j \in 2 .. n /\ j - 1 = n - d
      BY <2>3, <3>1
    <3>3. way[d - 1] = ts[j].open /\ way[d] = ts[j - 1].open
      BY <3>1, <3>2
    <3>4. QED
      BY <2>1, <3>2, <3>3 DEF Nest
  <2> HIDE DEF way
  <2>14. Way(c, ts[n].open, r)
    BY <2>8, <2>12, <2>13 DEF Way
  <2>15. QED
    BY <2>1, <2>5, <2>10, <2>14
<1>3. QED
  BY <1>1, <1>2

LEMMA DeclaresWell ==
  ASSUME NEW c, NEW ts, Nest(c, ts), NEW name
  PROVE  Declared(ts, name) \in Refs
<1>1. PICK r \in Refs : r = Resolve(ts, name)
  BY ResolvesWell
<1>2. [r EXCEPT !.depth = 0] \in Refs
  BY DEF Refs
<1>3. QED
  BY <1>1, <1>2 DEF Declared

-----------------------------------------------------------------------------
(***************************************************************************)
(* An item more.                                                           *)
(***************************************************************************)

LEMMA Counted ==
  ASSUME NEW t, NEW O, NEW n \in Nat,
         NEW S, S = {q \in 1 .. n : t[q].op \in O}, NEW U, U = {q \in 1 .. n + 1 : t[q].op \in O}
  PROVE  /\ Cardinality(S) \in Nat
         /\ t[n + 1].op \in O => Cardinality(U) = Cardinality(S) + 1
         /\ t[n + 1].op \notin O => Cardinality(U) = Cardinality(S)
<1>1. IsFiniteSet(1 .. n) /\ S \subseteq 1 .. n
  BY FS_Interval
<1>2. IsFiniteSet(S) /\ n + 1 \notin S
  BY <1>1, FS_Subset
<1>3. Cardinality(S) \in Nat
  BY <1>2, FS_CardinalityType
<1>4. ASSUME t[n + 1].op \in O PROVE Cardinality(U) = Cardinality(S) + 1
  <2>1. U = S \cup {n + 1}
    BY <1>4
  <2>2. Cardinality(S \cup {n + 1}) = Cardinality(S) + 1
    BY <1>2, FS_AddElement
  <2>3. QED
    BY <2>1, <2>2
<1>5. ASSUME t[n + 1].op \notin O PROVE Cardinality(U) = Cardinality(S)
  <2>1. U = S
    BY <1>5
  <2>2. QED
    BY <2>1
<1>6. QED
  BY <1>3, <1>4, <1>5

LEMMA DepthStep ==
  ASSUME NEW t, NEW n \in Nat
  PROVE  /\ Depth(t, n) \in Int
         /\ t[n + 1].op \in Opening => Depth(t, n + 1) = Depth(t, n) + 1
         /\ t[n + 1].op = "end" => Depth(t, n + 1) = Depth(t, n) - 1
         /\ t[n + 1].op \notin Opening \cup {"end"} => Depth(t, n + 1) = Depth(t, n)
<1> DEFINE With(O, m) == {q \in 1 .. m : t[q].op \in O}
<1>1. PICK E : E = {"end"}
  OBVIOUS
<1>2. ASSUME NEW O
      PROVE  /\ Cardinality(With(O, n)) \in Nat
             /\ t[n + 1].op \in O => Cardinality(With(O, n + 1)) = Cardinality(With(O, n)) + 1
             /\ t[n + 1].op \notin O => Cardinality(With(O, n + 1)) = Cardinality(With(O, n))
  <2>1. PICK S, U : S = With(O, n) /\ U = With(O, n + 1)
    OBVIOUS
  <2>2. QED
    BY <2>1, Counted
<1>3. \A m : Depth(t, m) = Cardinality(With(Opening, m)) - Cardinality(With(E, m))
  <2>1. \A m : With(E, m) = {q \in 1 .. m : t[q].op = "end"}
    BY <1>1
  <2>2. QED
    BY <2>1 DEF Depth
<1> HIDE DEF With
<1>4. "end" \notin Opening
  BY DEF Opening
<1>5. PICK x \in Nat, y \in Nat : x = Cardinality(With(Opening, n)) /\ y = Cardinality(With(E, n))
  BY <1>2
<1>6. /\ t[n + 1].op \in Opening => Cardinality(With(Opening, n + 1)) = x + 1 /\ Cardinality(With(E, n + 1)) = y
      /\ t[n + 1].op = "end" => Cardinality(With(Opening, n + 1)) = x /\ Cardinality(With(E, n + 1)) = y + 1
      /\ t[n + 1].op \notin Opening \cup {"end"} =>
           Cardinality(With(Opening, n + 1)) = x /\ Cardinality(With(E, n + 1)) = y
  BY <1>1, <1>2, <1>4, <1>5
<1>7. Depth(t, n) = x - y
  BY <1>3, <1>5
<1>8. QED
  BY <1>3, <1>6, <1>7

LEMMA DepthNone ==
  ASSUME NEW t
  PROVE  Depth(t, 0) = 0
<1>1. {q \in 1 .. 0 : t[q].op \in Opening} = {} /\ {q \in 1 .. 0 : t[q].op = "end"} = {}
  OBVIOUS
<1>2. QED
  BY <1>1, FS_EmptySet DEF Depth

LEMMA AfterStays ==
  ASSUME NEW c, NEW e, Longer(c, e), NEW p \in 1 .. Len(c), Line(c, p)
  PROVE  After(e, p) = After(c, p)
<1>1. /\ Len(c) \in Nat /\ e[p] = c[p] /\ \A q \in 1 .. Len(c) : e[q] = c[q]
  BY DEF Longer
<1>2. PICK o \in 0 .. p - 1 : o = c[p].inside
  BY DEF Line
<1>3. c[p].op = "end" => o \in 1 .. Len(c)
  BY <1>1, <1>2 DEF Line
<1>4. QED
  BY <1>1, <1>2, <1>3 DEF After

(* What Made says of the tables alone. *)
LEMMA MadeParts ==
  ASSUME NEW t \in Texts, NEW c, NEW ts, Made(t, c, ts)
  PROVE  /\ t \in Seq(Item) /\ DOMAIN t = 1 .. Len(t) /\ Len(t) \in Nat
         /\ c \in Seq(Codes) /\ Len(c) \in Nat /\ DOMAIN c = 1 .. Len(c) /\ Len(c) <= Len(t)
         /\ Nest(c, ts) /\ Len(ts) \in Nat /\ Len(ts) >= 1 /\ Last(ts) = ts[Len(ts)]
         /\ Last(ts).open \in 0 .. Len(c)
         /\ Last(ts).open # 0 => c[Last(ts).open].op \in Opening
         /\ Len(ts) >= 2 => /\ Last(ts).open # 0
                            /\ c[Last(ts).open].inside = ts[Len(ts) - 1].open
<1>1. t \in Seq(Item) /\ c \in Seq(Codes) /\ Nest(c, ts) /\ Len(c) <= Len(t)
  BY TextsAssumption DEF Made
<1>2. PICK n \in Nat : n = Len(ts) /\ n >= 1 /\ Last(ts) = ts[n]
  BY <1>1, NestTop
<1>3. n = 1 \/ n \in 2 .. n
  BY <1>2
<1>4. ts[1].open = 0
  BY <1>1 DEF Nest
<1>5. n \in 2 .. n => /\ ts[n].open \in 1 .. Len(c) /\ c[ts[n].open].op \in Opening
                      /\ c[ts[n].open].inside = ts[n - 1].open
  BY <1>1, <1>2 DEF Nest
<1>6. /\ DOMAIN t = 1 .. Len(t) /\ Len(t) \in Nat /\ DOMAIN c = 1 .. Len(c) /\ Len(c) \in Nat
  BY <1>1, LenProperties
<1>7. PICK m \in Nat : m = Len(c)
  BY <1>6
<1>8. 0 \in 0 .. m /\ \A i \in 1 .. m : i \in 0 .. m /\ i # 0
  OBVIOUS
<1>9. QED
  BY <1>1, <1>2, <1>3, <1>4, <1>5, <1>6, <1>7, <1>8

(* The three ways an item changes the tables. *)
Moves(ts, us, op, at) ==
  \/ op \in Opening /\ Stacked(ts, us, at)
  \/ op = "end" /\ us = Front(ts)
  \/ op \notin Opening \cup {"end"} /\ Alike(ts, us)

(* An item that fits behind the items there are. *)
Fits(t, c, ts, item) ==
  /\ item \in Codes
  /\ Len(c) + 1 \in 1 .. Len(t)
  /\ item.op = t[Len(c) + 1].op
  /\ item.inside = Last(ts).open

(* One item and what it does to the tables. *)
Grows(t, c, ts, item, e, us) ==
  /\ t \in Texts /\ Made(t, c, ts) /\ Fits(t, c, ts, item)
  /\ e = Append(c, item) /\ Nest(e, us) /\ Moves(ts, us, item.op, Len(c) + 1)

LEMMA EndsIn ==
  ASSUME NEW t \in Texts, NEW c, NEW ts, Made(t, c, ts), NEW item, Fits(t, c, ts, item), item.op = "end"
  PROVE  Len(ts) >= 2
<1>1. PICK n \in Nat : n = Len(c)
  BY MadeParts
<1>2. n + 1 \in DOMAIN t /\ t[n + 1].op = "end"
  BY <1>1, MadeParts DEF Fits
<1>3. Depth(t, n + 1) >= 0
  BY <1>2, TextsAssumption
<1>4. Depth(t, n) \in Int /\ Depth(t, n + 1) = Depth(t, n) - 1
  BY <1>2, DepthStep
<1>5. Len(ts) = Depth(t, n) + 1
  BY <1>1 DEF Made
<1>6. QED
  BY <1>3, <1>4, <1>5

LEMMA LineMade ==
  ASSUME NEW t \in Texts, NEW c, NEW ts, Made(t, c, ts), NEW item, Fits(t, c, ts, item),
         NEW e, e = Append(c, item),
         item.other # NoRef => Way(e, Base(e, Len(c) + 1), item.other),
         item.op \in {"set", "call"} /\ item.target # NoRef => Way(e, item.inside, item.target)
  PROVE  Line(e, Len(c) + 1)
<1>1. PICK n \in Nat : n = Len(c)
  BY MadeParts
<1>2. c \in Seq(Codes) /\ item \in Codes
  BY MadeParts DEF Fits
<1>3. Longer(c, e) /\ e[n + 1] = item
  BY <1>1, <1>2, OneMore
<1>4. item.inside = Last(ts).open /\ item.inside \in 0 .. n
  BY <1>1, MadeParts DEF Fits
<1>5. ASSUME item.inside # 0 PROVE e[item.inside].op \in Opening
  <2>1. PICK i \in 1 .. n : i = item.inside
    BY <1>4, <1>5
  <2>2. c[i].op \in Opening
    BY <1>4, <1>5, <2>1, MadeParts
  <2>3. QED
    BY <1>1, <1>3, <2>1, <2>2 DEF Longer
<1>6. item.op = "end" => item.inside # 0
  BY <1>4, EndsIn, MadeParts
<1>7. ASSUME n + 1 > 1 PROVE item.inside = After(e, n)
  <2>1. n \in 1 .. Len(c) /\ Len(c) # 0
    BY <1>1, <1>7
  <2>2. Last(ts).open = After(c, n) /\ Line(c, n)
    BY <1>1, <2>1 DEF Made
  <2>3. After(e, n) = After(c, n)
    BY <1>3, <2>1, <2>2, AfterStays
  <2>4. QED
    BY <1>4, <2>2, <2>3
<1>8. n + 1 - 1 = n /\ item.inside \in 0 .. (n + 1) - 1
  BY <1>4
<1>9. QED
  BY <1>1, <1>3, <1>4, <1>5, <1>6, <1>7, <1>8 DEF Line

LEMMA TopMade ==
  ASSUME NEW t, NEW c, NEW ts, NEW item, NEW e, NEW us, Grows(t, c, ts, item, e, us)
  PROVE  /\ Len(us) = Depth(t, Len(c) + 1) + 1
         /\ Last(us).open = After(e, Len(c) + 1)
<1>1. /\ t \in Texts /\ Made(t, c, ts) /\ Fits(t, c, ts, item)
      /\ e = Append(c, item) /\ Nest(e, us) /\ Moves(ts, us, item.op, Len(c) + 1)
  BY DEF Grows
<1>2. PICK n \in Nat : n = Len(c)
  BY <1>1, MadeParts
<1>3. c \in Seq(Codes) /\ item \in Codes
  BY <1>1, MadeParts DEF Fits
<1>4. Longer(c, e) /\ e[n + 1] = item
  BY <1>1, <1>2, <1>3, OneMore
<1>5. PICK k \in Nat : k = Len(ts) /\ k >= 1 /\ Last(ts) = ts[k]
  BY <1>1, MadeParts
<1>6. item.op = t[n + 1].op /\ item.inside = ts[k].open /\ "end" \notin Opening
  BY <1>1, <1>2, <1>5 DEF Fits, Opening
<1>7. k = Depth(t, n) + 1 /\ Depth(t, n) \in Int
  BY <1>1, <1>2, <1>5, DepthStep DEF Made
<1>8. Last(us) = us[Len(us)]
  BY <1>1, NestTop
<1>9. CASE item.op \in Opening /\ Stacked(ts, us, n + 1)
  <2>1. Len(us) = k + 1 /\ us[k + 1].open = n + 1
    BY <1>1, <1>5, <1>9 DEF Stacked
  <2>2. After(e, n + 1) = n + 1
    BY <1>1, <1>4, <1>9 DEF After
  <2>3. Depth(t, n + 1) = Depth(t, n) + 1
    BY <1>1, <1>6, <1>9, DepthStep
  <2>4. QED
    BY <1>1, <1>2, <1>7, <1>8, <2>1, <2>2, <2>3
<1>10. CASE item.op = "end" /\ us = Front(ts)
  <2>1. k >= 2
    BY <1>1, <1>5, <1>10, EndsIn
  <2>2. Len(us) = k - 1 /\ Last(us) = ts[k - 1]
    BY <1>1, <1>5, <1>10, <2>1, MadeParts, NestEnds
  <2>3. PICK o \in 1 .. n : o = ts[k].open
    BY <1>1, <1>2, <1>5, <2>1, MadeParts
  <2>4. c[o].inside = ts[k - 1].open
    BY <1>1, <1>5, <2>1, <2>3, MadeParts
  <2>5. After(e, n + 1) = e[o].inside
    BY <1>1, <1>4, <1>6, <1>10, <2>3 DEF After
  <2>6. e[o] = c[o]
    BY <1>1, <1>2, <1>4, <2>3 DEF Longer
  <2>7. Depth(t, n + 1) = Depth(t, n) - 1
    BY <1>1, <1>6, <1>10, DepthStep
  <2>8. QED
    BY <1>1, <1>2, <1>7, <2>2, <2>4, <2>5, <2>6, <2>7
<1>11. CASE item.op \notin Opening \cup {"end"} /\ Alike(ts, us)
  <2>1. k \in 1 .. k
    BY <1>1, <1>5
  <2>2. Len(us) = k /\ us[k].open = ts[k].open
    BY <1>1, <1>5, <1>11, <2>1 DEF Alike
  <2>3. After(e, n + 1) = item.inside
    BY <1>1, <1>4, <1>11 DEF After
  <2>4. Depth(t, n + 1) = Depth(t, n)
    BY <1>1, <1>6, <1>11, DepthStep
  <2>5. QED
    BY <1>1, <1>2, <1>6, <1>7, <1>8, <2>2, <2>3, <2>4
<1>12. QED
  BY <1>1, <1>2, <1>9, <1>10, <1>11 DEF Moves

Opened(e, us, p) == Closed(e, p) \/ \E i \in 2 .. Len(us) : us[i].open = p

LEMMA OpenMade ==
  ASSUME NEW t, NEW c, NEW ts, NEW item, NEW e, NEW us, Grows(t, c, ts, item, e, us),
         NEW p, p \in 1 .. Len(e), e[p].op \in Opening
  PROVE  Opened(e, us, p)
<1>1. /\ t \in Texts /\ Made(t, c, ts) /\ Fits(t, c, ts, item)
      /\ e = Append(c, item) /\ Nest(e, us) /\ Moves(ts, us, item.op, Len(c) + 1)
  BY DEF Grows
<1>2. PICK n \in Nat : n = Len(c)
  BY <1>1, MadeParts
<1>3. c \in Seq(Codes) /\ item \in Codes
  BY <1>1, MadeParts DEF Fits
<1>4. Longer(c, e) /\ e[n + 1] = item /\ Len(e) = n + 1 /\ n + 1 \in 1 .. Len(e)
  BY <1>1, <1>2, <1>3, OneMore
<1>5. PICK k \in Nat : k = Len(ts) /\ k >= 1 /\ Last(ts) = ts[k]
  BY <1>1, MadeParts
<1>6. "end" \notin Opening
  BY DEF Opening
<1>7. CASE p = n + 1
  <2>1. Stacked(ts, us, n + 1)
    BY <1>1, <1>2, <1>4, <1>6, <1>7 DEF Moves
  <2>2. Len(us) = k + 1 /\ us[k + 1].open = n + 1 /\ k + 1 \in 2 .. k + 1
    BY <1>1, <1>5, <2>1 DEF Stacked
  <2>3. QED
    BY <1>1, <1>7, <2>2 DEF Opened
<1>8. CASE p # n + 1
  <2>1. p \in 1 .. n /\ c[p].op \in Opening
    BY <1>1, <1>2, <1>4, <1>8 DEF Longer
  <2>2. Closed(c, p) \/ \E i \in 2 .. k : ts[i].open = p
    BY <1>1, <1>2, <1>5, <2>1 DEF Made
  <2>3. CASE Closed(c, p)
    BY <1>1, <1>4, <2>3, ClosedStays DEF Opened
  <2>4. ASSUME NEW i \in 2 .. k, ts[i].open = p
        PROVE  Closed(e, p) \/ \E j \in 2 .. Len(us) : us[j].open = p
    <3>1. i \in 1 .. k /\ i \in 2 .. k + 1
      BY <1>1, <1>5
    <3>2. CASE item.op \in Opening /\ Stacked(ts, us, n + 1)
      BY <1>1, <1>5, <2>4, <3>1, <3>2 DEF Stacked
    <3>3. CASE item.op = "end" /\ us = Front(ts)
      <4>1. k >= 2
        BY <1>1, <2>4
      <4>2. Len(us) = k - 1 /\ \A j \in 1 .. k - 1 : us[j] = ts[j]
        BY <1>1, <1>5, <3>3, <4>1, MadeParts, NestEnds
      <4>3. CASE i = k
        <5>1. item.inside = p
          BY <1>1, <1>5, <2>4, <4>3 DEF Fits
        <5>2. QED
          BY <1>1, <1>4, <3>3, <5>1 DEF Closed
      <4>4. CASE i # k
        <5>1. i \in 1 .. k - 1 /\ i \in 2 .. k - 1
          BY <1>1, <2>4, <4>4
        <5>2. QED
          BY <1>1, <2>4, <4>2, <5>1
      <4>5. QED
        BY <1>1, <4>3, <4>4
    <3>4. CASE item.op \notin Opening \cup {"end"} /\ Alike(ts, us)
      BY <1>1, <1>5, <2>4, <3>1, <3>4 DEF Alike
    <3>5. QED
      BY <1>1, <1>2, <3>2, <3>3, <3>4 DEF Moves
  <2>5. QED
    BY <1>1, <2>2, <2>3, <2>4 DEF Opened
<1>9. QED
  BY <1>1, <1>7, <1>8 DEF Opened

(* What is made stays made, with an item more. *)
LEMMA MadeMore ==
  ASSUME NEW t, NEW c, NEW ts, NEW item, NEW e, NEW us, Grows(t, c, ts, item, e, us),
         item.other # NoRef => Way(e, Base(e, Len(c) + 1), item.other),
         item.op \in {"set", "call"} /\ item.target # NoRef => Way(e, item.inside, item.target)
  PROVE  Made(t, e, us)
<1>1. /\ t \in Texts /\ Made(t, c, ts) /\ Fits(t, c, ts, item)
      /\ e = Append(c, item) /\ Nest(e, us) /\ Moves(ts, us, item.op, Len(c) + 1)
  BY DEF Grows
<1>2. PICK n \in Nat : n = Len(c)
  BY <1>1, MadeParts
<1>3. c \in Seq(Codes) /\ item \in Codes
  BY <1>1, MadeParts DEF Fits
<1>4. Longer(c, e) /\ e[n + 1] = item /\ Len(e) = n + 1 /\ e \in Seq(Codes)
  BY <1>1, <1>2, <1>3, OneMore
<1>5. e \in Seq(Codes) /\ n + 1 <= Len(t) /\ n + 1 # 0
  BY <1>1, <1>2, <1>4 DEF Fits, Longer
<1>6. ASSUME NEW p \in 1 .. n + 1
      PROVE  e[p].op = t[p].op /\ Line(e, p)
  <2>1. CASE p = n + 1
    BY <1>1, <1>2, <1>4, <2>1, LineMade DEF Fits
  <2>2. CASE p # n + 1
    <3>1. p \in 1 .. n
      BY <1>1, <2>2
    <3>2. \A q \in 1 .. n : c[q].op = t[q].op /\ Line(c, q)
      BY <1>1, <1>2 DEF Made
    <3>3. QED
      BY <1>1, <1>2, <1>4, <3>1, <3>2, LineStays DEF Longer
  <2>3. QED
    BY <1>1, <2>1, <2>2
<1>7. Len(us) = Depth(t, Len(c) + 1) + 1 /\ Last(us).open = After(e, Len(c) + 1)
  BY <1>1, TopMade
<1>8. \A p \in 1 .. Len(e) : e[p].op \in Opening => Opened(e, us, p)
  BY OpenMade
<1>9. QED
  BY <1>1, <1>2, <1>4, <1>5, <1>6, <1>7, <1>8 DEF Made, Opened

-----------------------------------------------------------------------------
(***************************************************************************)
(* The items of the translator, one kind at a time.                        *)
(***************************************************************************)

ItemOf(op, inside, target, other, param) ==
  [op |-> op, inside |-> inside, target |-> target, other |-> other, param |-> param]

(* The item in work. *)
Works(t, c, ts, item, e) ==
  /\ t \in Texts /\ Made(t, c, ts) /\ Len(c) + 1 \in 1 .. Len(t)
  /\ item = ItemOf(t[Len(c) + 1].op, Last(ts).open, item.target, item.other, item.param)
  /\ e = Append(c, item)

LEMMA Working ==
  ASSUME NEW t, NEW c, NEW ts, NEW item, NEW e, Works(t, c, ts, item, e)
  PROVE  /\ Len(e) = Len(c) + 1 /\ e[Len(c) + 1] = item /\ Len(c) + 1 \in 1 .. Len(e)
         /\ Len(c) + 1 \in Nat /\ Len(c) + 1 \in Names
         /\ Nest(e, ts)
         /\ item.op = t[Len(c) + 1].op /\ item.inside = Last(ts).open
         /\ t[Len(c) + 1].name \in Names /\ t[Len(c) + 1].other \in Names
         /\ \A b : b.at = Len(c) + 1 /\ b.role \in {"own", "lambda"} /\ item.op # "for"
                   => DeclIn(e, b) = Last(ts).open
         /\ \A b : b.at = Len(c) + 1 /\ (b.role \in {"self", "param"} \/ item.op = "for")
                   => DeclIn(e, b) = Len(c) + 1
<1>1. t \in Texts /\ Made(t, c, ts) /\ Len(c) + 1 \in 1 .. Len(t) /\ e = Append(c, item)
  BY DEF Works
<1>2. c \in Seq(Codes) /\ Nest(c, ts) /\ Len(c) \in Nat
  BY <1>1, MadeParts
<1>3. /\ Longer(c, e) /\ Len(e) = Len(c) + 1 /\ e[Len(c) + 1] = item /\ Len(c) + 1 \in 1 .. Len(e)
  BY <1>1, <1>2, OneMore
<1>4. Nest(e, ts)
  BY <1>2, <1>3, NestStays
<1>5. item.op = t[Len(c) + 1].op /\ item.inside = Last(ts).open
  BY DEF Works, ItemOf
<1>6. t[Len(c) + 1] \in Item
  BY <1>1, TextsAssumption, ElementOfSeq
<1>7. t[Len(c) + 1].name \in Names /\ t[Len(c) + 1].other \in Names
  BY <1>6 DEF Item, Names
<1>8. Len(c) + 1 \in Nat /\ Len(c) + 1 \in Names
  BY <1>2 DEF Names
<1>9. QED
  BY <1>3, <1>4, <1>5, <1>7, <1>8 DEF DeclIn

LEMMA WorkFits ==
  ASSUME NEW t, NEW c, NEW ts, NEW item, NEW e, Works(t, c, ts, item, e),
         item.target \in Refs, item.other \in Refs, item.param \in Refs
  PROVE  Fits(t, c, ts, item)
<1>1. t \in Texts /\ Made(t, c, ts) /\ Len(c) + 1 \in 1 .. Len(t) /\ e = Append(c, item)
  BY DEF Works
<1>2. e[Len(c) + 1] = item /\ item.op = t[Len(c) + 1].op /\ item.inside = Last(ts).open
  BY Working
<1>3. t[Len(c) + 1] \in Item /\ Last(ts).open \in Nat
  BY <1>1, TextsAssumption, ElementOfSeq, MadeParts
<1>4. item.op \in Op /\ item.inside \in Nat
  BY <1>2, <1>3 DEF Item
<1>5. item = ItemOf(item.op, item.inside, item.target, item.other, item.param)
  BY <1>2 DEF Works
<1>6. item \in Codes
  BY <1>4, <1>5 DEF Codes, ItemOf
<1>7. QED
  BY <1>1, <1>2, <1>6 DEF Fits

LEMMA Worked ==
  ASSUME NEW t, NEW c, NEW ts, NEW item, NEW e, Works(t, c, ts, item, e),
         item.target \in Refs, item.other \in Refs, item.param \in Refs,
         NEW us, Nest(e, us), Moves(ts, us, item.op, Len(c) + 1),
         item.other # NoRef => Way(e, IF item.op = "while" THEN Len(c) + 1 ELSE Last(ts).open, item.other),
         item.op \in {"set", "call"} /\ item.target # NoRef => Way(e, Last(ts).open, item.target)
  PROVE  Made(t, e, us)
<1>1. t \in Texts /\ Made(t, c, ts) /\ e = Append(c, item)
  BY DEF Works
<1>2. e[Len(c) + 1] = item /\ item.inside = Last(ts).open
  BY Working
<1>3. Fits(t, c, ts, item)
  BY WorkFits
<1>4. Grows(t, c, ts, item, e, us)
  BY <1>1, <1>3 DEF Grows
<1>5. Base(e, Len(c) + 1) = IF item.op = "while" THEN Len(c) + 1 ELSE Last(ts).open
  BY <1>2 DEF Base
<1>6. QED
  BY <1>2, <1>4, <1>5, MadeMore

LEMMA MovesJoin ==
  ASSUME NEW ts, NEW us, NEW vs, Len(ts) \in Nat
  PROVE  /\ Alike(ts, us) /\ Alike(us, vs) => Alike(ts, vs)
         /\ \A at : Alike(ts, us) /\ Stacked(us, vs, at) => Stacked(ts, vs, at)
         /\ \A at : Stacked(ts, us, at) /\ Alike(us, vs) => Stacked(ts, vs, at)
<1>1. Alike(ts, us) /\ Alike(us, vs) => Alike(ts, vs)
  BY DEF Alike
<1>2. \A at : Alike(ts, us) /\ Stacked(us, vs, at) => Stacked(ts, vs, at)
  BY DEF Alike, Stacked
<1>3. PICK n \in Nat : n = Len(ts)
  OBVIOUS
<1>4. n + 1 \in 1 .. n + 1 /\ 1 .. n \subseteq 1 .. n + 1
  OBVIOUS
<1>5. \A at : Stacked(ts, us, at) /\ Alike(us, vs) => Stacked(ts, vs, at)
  BY <1>3, <1>4 DEF Alike, Stacked
<1>6. QED
  BY <1>1, <1>2, <1>5

(* A name declared by the item in work. *)
LEMMA DeclaresHere ==
  ASSUME NEW t, NEW c, NEW ts, NEW item, NEW e, Works(t, c, ts, item, e),
         NEW us, Nest(e, us), NEW name \in Names, NEW role \in Roles,
         DeclIn(e, Binding(Len(c) + 1, role)) = Last(us).open,
         NEW vs, vs = Declare(us, name, Binding(Len(c) + 1, role))
  PROVE  /\ Nest(e, vs) /\ Alike(us, vs) /\ Last(vs).open = Last(us).open
         /\ Declared(vs, name) \in Refs
<1>1. PICK b : b = Binding(Len(c) + 1, role)
  OBVIOUS
<1>2. b \in Bound /\ b.at \in 1 .. Len(e)
  BY <1>1, Working DEF Bound, Binding
<1>3. Nest(e, vs) /\ Alike(us, vs) /\ Last(vs).open = Last(us).open
  BY <1>1, <1>2, NestDeclares
<1>4. QED
  BY <1>3, DeclaresWell

LEMMA MadeLet ==
  ASSUME NEW t, NEW c, NEW ts, NEW item, NEW e, Works(t, c, ts, item, e), item.op = "let",
         NEW us, us = Declare(ts, t[Len(c) + 1].name, Binding(Len(c) + 1, "own")),
         item.target = Declared(us, t[Len(c) + 1].name),
         item.other = Resolve(us, t[Len(c) + 1].other), item.param = NoRef
  PROVE  Made(t, e, us)
<1>1. DeclIn(e, Binding(Len(c) + 1, "own")) = Last(ts).open
  BY Working DEF Binding
<1>2. Nest(e, us) /\ Alike(ts, us) /\ Last(us).open = Last(ts).open /\ item.target \in Refs
  BY <1>1, Working, DeclaresHere DEF Roles
<1>3. item.other \in Refs /\ (item.other # NoRef => Way(e, Last(ts).open, item.other))
  BY <1>2, ResolvesWell
<1>4. NoRef \in Refs
  BY DEF NoRef, Refs, Nothing, Binding
<1>5. Moves(ts, us, item.op, Len(c) + 1)
  BY <1>2 DEF Moves, Opening
<1>6. QED
  BY <1>2, <1>3, <1>4, <1>5, Worked

LEMMA MadeSame ==
  ASSUME NEW t, NEW c, NEW ts, NEW item, NEW e, Works(t, c, ts, item, e), item.op \in {"set", "call"},
         item.target = Resolve(ts, t[Len(c) + 1].name),
         item.other = Resolve(ts, t[Len(c) + 1].other), item.param = NoRef
  PROVE  Made(t, e, ts)
<1>1. Nest(e, ts)
  BY Working
<1>2. /\ item.other \in Refs /\ (item.other # NoRef => Way(e, Last(ts).open, item.other))
      /\ item.target \in Refs /\ (item.target # NoRef => Way(e, Last(ts).open, item.target))
  BY <1>1, ResolvesWell
<1>3. NoRef \in Refs
  BY DEF NoRef, Refs, Nothing, Binding
<1>4. Moves(ts, ts, item.op, Len(c) + 1)
  BY DEF Moves, Opening, Alike
<1>5. QED
  BY <1>1, <1>2, <1>3, <1>4, Worked

LEMMA MadeFn ==
  ASSUME NEW t, NEW c, NEW ts, NEW item, NEW e, Works(t, c, ts, item, e), item.op \in {"fn", "lambda"},
         NEW around, Nest(e, around), Alike(ts, around), Last(around).open = Last(ts).open,
         NEW name \in Names, NEW body, NEW us,
         body = Declare(Append(around, Table(Len(c) + 1)), name, Binding(Len(c) + 1, "self")),
         us = Declare(body, t[Len(c) + 1].other, Binding(Len(c) + 1, "param")),
         item.target \in Refs, item.other = NoRef,
         item.param = Declared(us, t[Len(c) + 1].other)
  PROVE  Made(t, e, us)
<1>1. PICK at \in 1 .. Len(e) : at = Len(c) + 1 /\ at \in Nat
  BY Working
<1>2. e[at].op \in Opening /\ e[at].inside = Last(around).open
  BY <1>1, Working DEF Opening
<1>3. PICK vs : vs = Append(around, Table(at))
  OBVIOUS
<1>4. Nest(e, vs) /\ Stacked(around, vs, at) /\ Last(vs).open = at
  BY <1>1, <1>2, <1>3, NestBegins
<1>5. DeclIn(e, Binding(at, "self")) = at /\ DeclIn(e, Binding(at, "param")) = at
  BY <1>1, Working DEF Binding
<1>6. Nest(e, body) /\ Alike(vs, body) /\ Last(body).open = at
  BY <1>1, <1>3, <1>4, <1>5, DeclaresHere DEF Roles
<1>7. Nest(e, us) /\ Alike(body, us) /\ item.param \in Refs
  BY <1>1, <1>5, <1>6, Working, DeclaresHere DEF Roles
<1>8. Len(ts) \in Nat /\ Len(vs) \in Nat
  BY <1>4, Working, NestTop
<1>9. Alike(vs, us)
  BY <1>6, <1>7, <1>8, MovesJoin
<1>10. Stacked(ts, vs, at)
  BY <1>4, <1>8, MovesJoin
<1>11. Stacked(ts, us, at)
  BY <1>8, <1>9, <1>10, MovesJoin
<1>12. Moves(ts, us, item.op, Len(c) + 1)
  BY <1>1, <1>11 DEF Moves, Opening
<1>13. NoRef \in Refs
  BY DEF NoRef, Refs, Nothing, Binding
<1>14. QED
  BY <1>7, <1>12, <1>13, Worked

LEMMA MadeIf ==
  ASSUME NEW t, NEW c, NEW ts, NEW item, NEW e, Works(t, c, ts, item, e), item.op \in {"if", "while", "for"},
         NEW vs, vs = Append(ts, Table(Len(c) + 1)), NEW us,
         \/ item.op \in {"if", "while"} /\ us = vs
         \/ item.op = "for" /\ us = Declare(vs, t[Len(c) + 1].name, Binding(Len(c) + 1, "own")),
         item.target = NoRef \/ item.target = Declared(us, t[Len(c) + 1].name),
         item.other = Resolve(IF item.op = "while" THEN vs ELSE ts, t[Len(c) + 1].other), item.param = NoRef
  PROVE  Made(t, e, us)
<1>1. PICK at \in 1 .. Len(e) : at = Len(c) + 1 /\ at \in Nat
  BY Working
<1>2. Nest(e, ts) /\ e[at].op \in Opening /\ e[at].inside = Last(ts).open
  BY <1>1, Working DEF Opening
<1>3. Nest(e, vs) /\ Stacked(ts, vs, at) /\ Last(vs).open = at
  BY <1>1, <1>2, NestBegins
<1>4. Len(ts) \in Nat /\ Len(vs) \in Nat
  BY <1>2, <1>3, NestTop
<1>5. Nest(e, us) /\ Stacked(ts, us, at)
  <2>1. CASE us = vs
    BY <1>3, <2>1
  <2>2. CASE item.op = "for" /\ us = Declare(vs, t[Len(c) + 1].name, Binding(Len(c) + 1, "own"))
    <3>1. DeclIn(e, Binding(at, "own")) = at
      BY <1>1, <2>2, Working DEF Binding
    <3>2. Nest(e, us) /\ Alike(vs, us)
      BY <1>1, <1>3, <2>2, <3>1, Working, DeclaresHere DEF Roles
    <3>3. QED
      BY <1>3, <1>4, <3>2, MovesJoin
  <2>3. QED
    BY <2>1, <2>2
<1>6. NoRef \in Refs
  BY DEF NoRef, Refs, Nothing, Binding
<1>7. item.target \in Refs
  BY <1>5, <1>6, DeclaresWell
<1>8. CASE item.op = "while"
  <2>1. item.other \in Refs /\ (item.other # NoRef => Way(e, at, item.other))
    BY <1>3, <1>8, ResolvesWell
  <2>2. Moves(ts, us, item.op, Len(c) + 1)
    BY <1>1, <1>5 DEF Moves, Opening
  <2>3. QED
    BY <1>1, <1>5, <1>6, <1>7, <1>8, <2>1, <2>2, Worked
<1>9. CASE item.op # "while"
  <2>1. item.other \in Refs /\ (item.other # NoRef => Way(e, Last(ts).open, item.other))
    BY <1>2, <1>9, ResolvesWell
  <2>2. Moves(ts, us, item.op, Len(c) + 1)
    BY <1>1, <1>5 DEF Moves, Opening
  <2>3. QED
    BY <1>5, <1>6, <1>7, <1>9, <2>1, <2>2, Worked
<1>10. QED
  BY <1>8, <1>9

LEMMA MadeEnd ==
  ASSUME NEW t, NEW c, NEW ts, NEW item, NEW e, Works(t, c, ts, item, e), item.op = "end",
         NEW us, us = Front(ts), item.target = NoRef, item.other = NoRef, item.param = NoRef
  PROVE  Made(t, e, us)
<1>1. t \in Texts /\ Made(t, c, ts) /\ Nest(e, ts)
  BY Working DEF Works
<1>2. NoRef \in Refs
  BY DEF NoRef, Refs, Nothing, Binding
<1>3. Fits(t, c, ts, item)
  BY <1>2, WorkFits
<1>4. Len(ts) >= 2
  BY <1>1, <1>3, EndsIn
<1>5. Nest(e, us)
  BY <1>1, <1>4, NestEnds
<1>6. Moves(ts, us, item.op, Len(c) + 1)
  BY DEF Moves
<1>7. QED
  BY <1>2, <1>5, <1>6, Worked

(* An item that is emitted is in work. *)
LEMMA EmitWorks ==
  ASSUME text \in Texts, Made(text, code, tables), NEW op, Translating(op),
         NEW us, NEW target, NEW other, NEW param, Emit(us, target, other, param)
  PROVE  \E t, c, ts, item, e :
           /\ t = text /\ c = code /\ ts = tables /\ e = code'
           /\ tables' = us /\ text' = text /\ status' = "translating"
           /\ UNCHANGED <<heap, active, pc>>
           /\ Works(t, c, ts, item, e) /\ At = Len(c) + 1 /\ Now = t[Len(c) + 1]
           /\ item.op = op /\ item.target = target /\ item.other = other /\ item.param = param
<1>1. PICK t, c, ts : t = text /\ c = code /\ ts = tables
  OBVIOUS
<1>2. PICK item : item = ItemOf(t[Len(c) + 1].op, Last(ts).open, target, other, param)
  OBVIOUS
<1>3. /\ item.op = t[Len(c) + 1].op
      /\ item.target = target /\ item.other = other /\ item.param = param
      /\ item = ItemOf(t[Len(c) + 1].op, Last(ts).open, item.target, item.other, item.param)
  BY <1>2 DEF ItemOf
<1>4. DOMAIN t = 1 .. Len(t)
  BY <1>1, MadeParts
<1>5. PICK e : e = Append(c, item)
  OBVIOUS
<1>6. Works(t, c, ts, item, e)
  BY <1>1, <1>3, <1>4, <1>5 DEF Works, Translating, At
<1>7. /\ e = code' /\ tables' = us /\ text' = text /\ status' = "translating"
      /\ UNCHANGED <<heap, active, pc>>
      /\ At = Len(c) + 1 /\ Now = t[Len(c) + 1] /\ item.op = op
  BY <1>1, <1>2, <1>3, <1>5 DEF Emit, Translating, At, Now, ItemOf
<1>8. QED
  BY <1>1, <1>3, <1>6, <1>7

TranslatedNext ==
  /\ UNCHANGED <<text, heap, active, pc>>
  /\ status' \in {"translating", "unresolved"}
  /\ \E e, us : e = code' /\ us = tables' /\ Made(text, e, us)

LEMMA UnknownTranslated ==
  ASSUME text \in Texts, Made(text, code, tables), NEW ts, NEW name, Unknown(ts, name)
  PROVE  TranslatedNext
BY DEF Unknown, TranslatedNext

LEMMA TranslateStep ==
  ASSUME text \in Texts, Made(text, code, tables), Translate
  PROVE  TranslatedNext
<1>1. CASE TranslateLet
  <2>1. PICK ds : ds = Declare(tables, Now.name, Binding(At, "own"))
    OBVIOUS
  <2>2. CASE Unknown(ds, Now.other)
    BY <2>2, UnknownTranslated
  <2>3. CASE Emit(ds, Declared(ds, Now.name), Resolve(ds, Now.other), NoRef)
    <3>1. Translating("let")
      BY <1>1 DEF TranslateLet
    <3>2. PICK t, c, ts, item, e :
            /\ t = text /\ c = code /\ ts = tables /\ e = code'
            /\ tables' = ds /\ text' = text /\ status' = "translating"
            /\ UNCHANGED <<heap, active, pc>>
            /\ Works(t, c, ts, item, e) /\ At = Len(c) + 1 /\ Now = t[Len(c) + 1]
            /\ item.op = "let" /\ item.target = Declared(ds, Now.name) /\ item.other = Resolve(ds, Now.other)
            /\ item.param = NoRef
      BY <2>3, <3>1, EmitWorks
    <3>3. Made(t, e, ds)
      BY <2>1, <3>2, MadeLet
    <3>4. QED
      BY <3>2, <3>3 DEF TranslatedNext
  <2>4. QED
    BY <1>1, <2>1, <2>2, <2>3 DEF TranslateLet
<1>2. CASE TranslateSet \/ TranslateCall
  <2>1. CASE \/ Unknown(tables, Now.name) \/ Unknown(tables, Now.other)
    BY <2>1, UnknownTranslated
  <2>2. CASE Emit(tables, Resolve(tables, Now.name), Resolve(tables, Now.other), NoRef)
    <3>1. PICK op \in {"set", "call"} : Translating(op)
      BY <1>2 DEF TranslateSet, TranslateCall
    <3>2. PICK t, c, ts, item, e :
            /\ t = text /\ c = code /\ ts = tables /\ e = code'
            /\ tables' = tables /\ text' = text /\ status' = "translating"
            /\ UNCHANGED <<heap, active, pc>>
            /\ Works(t, c, ts, item, e) /\ At = Len(c) + 1 /\ Now = t[Len(c) + 1]
            /\ item.op = op /\ item.target = Resolve(tables, Now.name) /\ item.other = Resolve(tables, Now.other)
            /\ item.param = NoRef
      BY <2>2, <3>1, EmitWorks
    <3>3. Made(t, e, ts)
      BY <3>1, <3>2, MadeSame
    <3>4. QED
      BY <3>2, <3>3 DEF TranslatedNext
  <2>3. QED
    BY <1>2, <2>1, <2>2 DEF TranslateSet, TranslateCall
<1>3. CASE TranslateFn
  <2>1. PICK around, body, ds :
          /\ around = Declare(tables, Now.name, Binding(At, "own"))
          /\ body = Declare(Append(around, Table(At)), Now.name, Binding(At, "self"))
          /\ ds = Declare(body, Now.other, Binding(At, "param"))
    OBVIOUS
  <2>2. Translating("fn") /\ Emit(ds, Declared(around, Now.name), NoRef, Declared(ds, Now.other))
    BY <1>3, <2>1 DEF TranslateFn, Function
  <2>3. PICK t, c, ts, item, e :
          /\ t = text /\ c = code /\ ts = tables /\ e = code'
          /\ tables' = ds /\ text' = text /\ status' = "translating"
          /\ UNCHANGED <<heap, active, pc>>
          /\ Works(t, c, ts, item, e) /\ At = Len(c) + 1 /\ Now = t[Len(c) + 1]
          /\ item.op = "fn" /\ item.target = Declared(around, Now.name) /\ item.other = NoRef
          /\ item.param = Declared(ds, Now.other)
    BY <2>2, EmitWorks
  <2>4. PICK name \in Names : name = Now.name
    BY <2>3, Working
  <2>5. DeclIn(e, Binding(Len(c) + 1, "own")) = Last(ts).open
    BY <2>3, Working DEF Binding
  <2>6. /\ Nest(e, around) /\ Alike(ts, around) /\ Last(around).open = Last(ts).open /\ item.target \in Refs
    BY <2>1, <2>3, <2>4, <2>5, Working, DeclaresHere DEF Roles
  <2>7. Made(t, e, ds)
    BY <2>1, <2>3, <2>4, <2>6, MadeFn
  <2>8. QED
    BY <2>3, <2>7 DEF TranslatedNext
<1>4. CASE TranslateLambda
  <2>1. PICK named, around, body, ds :
          /\ named = Declare(tables, Now.name, Binding(At, "own"))
          /\ around = Declare(named, At, Binding(At, "lambda"))
          /\ body = Declare(Append(around, Table(At)), At, Binding(At, "self"))
          /\ ds = Declare(body, Now.other, Binding(At, "param"))
    OBVIOUS
  <2>2. Translating("lambda") /\ Emit(ds, Declared(named, Now.name), NoRef, Declared(ds, Now.other))
    BY <1>4, <2>1 DEF TranslateLambda, Function
  <2>3. PICK t, c, ts, item, e :
          /\ t = text /\ c = code /\ ts = tables /\ e = code'
          /\ tables' = ds /\ text' = text /\ status' = "translating"
          /\ UNCHANGED <<heap, active, pc>>
          /\ Works(t, c, ts, item, e) /\ At = Len(c) + 1 /\ Now = t[Len(c) + 1]
          /\ item.op = "lambda" /\ item.target = Declared(named, Now.name) /\ item.other = NoRef
          /\ item.param = Declared(ds, Now.other)
    BY <2>2, EmitWorks
  <2>4. /\ DeclIn(e, Binding(Len(c) + 1, "own")) = Last(ts).open
        /\ DeclIn(e, Binding(Len(c) + 1, "lambda")) = Last(ts).open
    BY <2>3, Working DEF Binding
  <2>5. PICK name \in Names : name = Now.name
    BY <2>3, Working
  <2>6. /\ Nest(e, named) /\ Alike(ts, named) /\ Last(named).open = Last(ts).open /\ item.target \in Refs
    <3>1. named = Declare(ts, name, Binding(Len(c) + 1, "own")) /\ item.target = Declared(named, name)
      BY <2>1, <2>3, <2>5
    <3>2. Nest(e, ts) /\ "own" \in Roles
      BY <2>3, Working DEF Roles
    <3>3. QED
      BY <2>3, <2>4, <3>1, <3>2, DeclaresHere
  <2>7. PICK at \in Names : at = Len(c) + 1
    BY <2>3, Working
  <2>8. /\ Nest(e, around) /\ Alike(named, around) /\ Last(around).open = Last(ts).open
    BY <2>1, <2>3, <2>4, <2>6, <2>7, DeclaresHere DEF Roles
  <2>9. Alike(ts, around)
    <3>1. Len(ts) \in Nat
      BY <2>3, Working, NestTop
    <3>2. QED
      BY <2>6, <2>8, <3>1, MovesJoin
  <2>10. Made(t, e, ds)
    BY <2>1, <2>3, <2>6, <2>7, <2>8, <2>9, MadeFn
  <2>11. QED
    BY <2>3, <2>10 DEF TranslatedNext
<1>5. CASE TranslateIf \/ TranslateWhile \/ TranslateFor
  <2>1. PICK op \in {"if", "while", "for"} : Translating(op)
    BY <1>5 DEF TranslateIf, TranslateWhile, TranslateFor
  <2>2. PICK vs : vs = Append(tables, Table(At))
    OBVIOUS
  <2>3. CASE \E ds, name : Unknown(ds, name)
    BY <2>3, UnknownTranslated
  <2>4. ASSUME NEW ds, NEW target, NEW other, Emit(ds, target, other, NoRef),
               \/ op \in {"if", "while"} /\ ds = vs
               \/ op = "for" /\ ds = Declare(vs, Now.name, Binding(At, "own")),
               target = NoRef \/ target = Declared(ds, Now.name),
               other = Resolve(IF op = "while" THEN vs ELSE tables, Now.other)
        PROVE  TranslatedNext
    <3>1. PICK t, c, ts, item, e :
            /\ t = text /\ c = code /\ ts = tables /\ e = code'
            /\ tables' = ds /\ text' = text /\ status' = "translating"
            /\ UNCHANGED <<heap, active, pc>>
            /\ Works(t, c, ts, item, e) /\ At = Len(c) + 1 /\ Now = t[Len(c) + 1]
            /\ item.op = op /\ item.target = target /\ item.other = other
            /\ item.param = NoRef
      BY <2>1, <2>4, EmitWorks
    <3>2. Made(t, e, ds)
      BY <2>1, <2>2, <2>4, <3>1, MadeIf
    <3>3. QED
      BY <3>1, <3>2 DEF TranslatedNext
  <2>5. op = Now.op
    BY <2>1 DEF Translating
  <2>6. CASE TranslateIf
    <3>1. op = "if"
      BY <2>5, <2>6 DEF TranslateIf, Translating
    <3>2. \/ Emit(vs, NoRef, Resolve(tables, Now.other), NoRef)
          \/ Unknown(tables, Now.other)
      BY <2>2, <2>6 DEF TranslateIf
    <3>3. QED
      BY <2>3, <2>4, <3>1, <3>2
  <2>7. CASE TranslateWhile
    <3>1. op = "while"
      BY <2>5, <2>7 DEF TranslateWhile, Translating
    <3>2. \/ Emit(vs, NoRef, Resolve(vs, Now.other), NoRef)
          \/ Unknown(vs, Now.other)
      BY <2>2, <2>7 DEF TranslateWhile
    <3>3. QED
      BY <2>3, <2>4, <3>1, <3>2
  <2>8. CASE TranslateFor
    <3>1. op = "for"
      BY <2>5, <2>8 DEF TranslateFor, Translating
    <3>2. PICK ds : ds = Declare(vs, Now.name, Binding(At, "own"))
      OBVIOUS
    <3>3. \/ Emit(ds, Declared(ds, Now.name), Resolve(tables, Now.other), NoRef)
          \/ Unknown(tables, Now.other)
      BY <2>2, <2>8, <3>2 DEF TranslateFor
    <3>4. QED
      BY <2>3, <2>4, <3>1, <3>2, <3>3
  <2>9. QED
    BY <1>5, <2>6, <2>7, <2>8
<1>6. CASE TranslateEnd
  <2>1. Translating("end") /\ Emit(Front(tables), NoRef, NoRef, NoRef)
    BY <1>6 DEF TranslateEnd
  <2>2. PICK ds : ds = Front(tables)
    OBVIOUS
  <2>3. PICK t, c, ts, item, e :
          /\ t = text /\ c = code /\ ts = tables /\ e = code'
          /\ tables' = ds /\ text' = text /\ status' = "translating"
          /\ UNCHANGED <<heap, active, pc>>
          /\ Works(t, c, ts, item, e) /\ At = Len(c) + 1 /\ Now = t[Len(c) + 1]
          /\ item.op = "end" /\ item.target = NoRef /\ item.other = NoRef
          /\ item.param = NoRef
    BY <2>1, <2>2, EmitWorks
  <2>4. Made(t, e, ds)
    BY <2>2, <2>3, MadeEnd
  <2>5. QED
    BY <2>3, <2>4 DEF TranslatedNext
<1>7. QED
  BY <1>1, <1>2, <1>3, <1>4, <1>5, <1>6 DEF Translate

-----------------------------------------------------------------------------
(***************************************************************************)
(* The text is translated.                                                 *)
(***************************************************************************)

Whole(t, c) ==
  /\ c \in Seq(Codes) /\ Len(c) <= Len(t)
  /\ \A p \in 1 .. Len(c) : Line(c, p)
  /\ \A p \in 1 .. Len(c) : c[p].op \in Opening => Closed(c, p)

LEMMA WholeMade ==
  ASSUME NEW t \in Texts, NEW c, NEW ts, Made(t, c, ts), Len(c) + 1 \notin DOMAIN t
  PROVE  Whole(t, c)
<1>1. PICK n \in Nat : n = Len(c) /\ n <= Len(t)
  BY MadeParts
<1>2. PICK m \in Nat : m = Len(t) /\ DOMAIN t = 1 .. m
  BY MadeParts
<1>3. n = m
  BY <1>1, <1>2
<1>4. Depth(t, n) = 0
  BY <1>2, <1>3, TextsAssumption
<1>5. Len(ts) = 1
  BY <1>1, <1>4 DEF Made
<1>6. ~ \E i \in 2 .. Len(ts) : TRUE
  BY <1>5
<1>7. QED
  BY <1>6 DEF Made, Whole

LEMMA WholeParts ==
  ASSUME NEW t, NEW c, Whole(t, c), NEW p \in 1 .. Len(c)
  PROVE  /\ c \in Seq(Codes) /\ Len(c) \in Nat /\ DOMAIN c = 1 .. Len(c) /\ p \in Nat
         /\ c[p].op \in Op /\ c[p].inside \in Nat
         /\ c[p].target \in Refs /\ c[p].other \in Refs /\ c[p].param \in Refs
         /\ c[p].inside < p
         /\ c[p].inside # 0 => c[p].inside \in 1 .. Len(c) /\ c[c[p].inside].op \in Opening
         /\ c[p].op = "end" => c[p].inside # 0
<1>1. c \in Seq(Codes) /\ Line(c, p)
  BY DEF Whole
<1>2. PICK n \in Nat : n = Len(c) /\ DOMAIN c = 1 .. n
  BY <1>1, LenProperties
<1>3. PICK o \in 0 .. p - 1 : o = c[p].inside
  BY <1>1 DEF Line
<1>4. o < p /\ (o # 0 => o \in 1 .. n)
  BY <1>2, <1>3
<1>5. QED
  BY <1>1, <1>2, <1>3, <1>4, CodeFields DEF Line

(* What goes on behind an item is in the body that the item leaves behind.  *)
LEMMA Following ==
  ASSUME NEW t, NEW c, Whole(t, c), NEW p \in 1 .. Len(c), NEW q, q = p + 1, q \in 1 .. Len(c)
  PROVE  c[q].inside = After(c, p)
<1>1. p \in Nat /\ q > 1 /\ q - 1 = p
  OBVIOUS
<1>2. Line(c, q)
  BY DEF Whole
<1>3. QED
  BY <1>1, <1>2 DEF Line

LEMMA Ending ==
  ASSUME NEW t, Whole(t, code), NEW p \in 1 .. Len(code), code[p].op \in Opening
  PROVE  /\ EndOf(p) \in 1 .. Len(code) /\ EndOf(p) \in Nat /\ EndOf(p) + 1 \in Nat
         /\ EndOf(p) + 1 \in 1 .. Len(code) => code[EndOf(p) + 1].inside = code[p].inside
<1>1. DOMAIN code = 1 .. Len(code) /\ Len(code) \in Nat
  BY WholeParts
<1>2. Closed(code, p)
  BY DEF Whole
<1>3. PICK e : e = EndOf(p)
  OBVIOUS
<1>4. e \in 1 .. Len(code) /\ code[e].op = "end" /\ code[e].inside = p
  BY <1>1, <1>2, <1>3 DEF Closed, EndOf
<1>5. After(code, e) = code[p].inside
  BY <1>4 DEF After, Opening
<1>6. QED
  BY <1>3, <1>4, <1>5, Following

-----------------------------------------------------------------------------
(***************************************************************************)
(* The scopes of the run.                                                  *)
(***************************************************************************)

Vals == [binding : Bound, fn : Nat, scope : Nat]

(* A function was created in a scope of the body that the text has it in.   *)
Holds(c, h, v) ==
  /\ v \in Vals
  /\ v.fn # 0 => /\ v.fn \in 1 .. Len(c) /\ c[v.fn].op \in {"fn", "lambda"}
                 /\ v.scope \in 1 .. Len(h) /\ h[v.scope].open = c[v.fn].inside

Filled(c, h, slots) == \A s \in DOMAIN slots : Holds(c, h, slots[s])

(* One scope up, Up of any heap.                                            *)
Upper(h, i) == IF h[i].captured # 0 THEN h[i].captured ELSE h[i].parent

(* One scope up is the scope that the text has the body in.                 *)
Sound(c, h, i) ==
  /\ h[i].open # 0 => /\ h[i].open \in 1 .. Len(c) /\ c[h[i].open].op \in Opening
                      /\ Upper(h, i) \in 1 .. Len(h)
                      /\ h[Upper(h, i)].open = c[h[i].open].inside
  /\ h[i].parent \in 0 .. i - 1 /\ h[i].captured \in 0 .. i - 1
  /\ Filled(c, h, h[i].slots)

Scopes(X) == Seq([open : Nat, parent : Nat, captured : Nat, back : Nat, slots : X])

Heaped(h) == \E X : h \in Scopes(X)

Good(c, h) == (\E X : h \in Scopes(X)) /\ \A i \in 1 .. Len(h) : Sound(c, h, i)

(* Scopes come to the heap, and the slots of those there change.            *)
Grown(h, g) ==
  /\ Len(h) \in Nat /\ Len(g) \in Nat /\ Len(h) <= Len(g)
  /\ \A i \in 1 .. Len(h) : /\ i \in 1 .. Len(g)
                            /\ g[i].open = h[i].open /\ g[i].back = h[i].back
                            /\ g[i].parent = h[i].parent /\ g[i].captured = h[i].captured

LEMMA HoldsStays ==
  ASSUME NEW c, NEW h, NEW g, Grown(h, g)
  PROVE  /\ \A v : Holds(c, h, v) => Holds(c, g, v)
         /\ \A slots : Filled(c, h, slots) => Filled(c, g, slots)
<1>1. \A v : Holds(c, h, v) => Holds(c, g, v)
  BY DEF Holds, Grown
<1>2. QED
  BY <1>1 DEF Filled

LEMMA SoundStays ==
  ASSUME NEW c, NEW h, NEW g, Grown(h, g), NEW i \in 1 .. Len(h), Sound(c, h, i), Filled(c, g, g[i].slots)
  PROVE  Sound(c, g, i)
<1>1. /\ g[i].open = h[i].open /\ g[i].parent = h[i].parent /\ g[i].captured = h[i].captured
  BY DEF Grown
<1>2. Upper(g, i) = Upper(h, i)
  BY <1>1 DEF Upper
<1>3. h[i].open # 0 => Upper(g, i) \in 1 .. Len(g) /\ g[Upper(g, i)].open = c[g[i].open].inside
  BY <1>1, <1>2 DEF Sound, Grown
<1>4. QED
  BY <1>1, <1>3 DEF Sound

(* The slots of a scope change. *)
LEMMA SlotsSet ==
  ASSUME NEW c, NEW h, Good(c, h), NEW i \in 1 .. Len(h), NEW slots, Filled(c, h, slots),
         NEW g, g = [h EXCEPT ![i].slots = slots]
  PROVE  Good(c, g) /\ Grown(h, g) /\ Len(g) = Len(h)
<1>1. PICK X : h \in Scopes(X)
  BY DEF Good
<1>2. PICK Y : Y = X \cup {slots}
  OBVIOUS
<1>3. h \in Scopes(Y)
  <2>1. [open : Nat, parent : Nat, captured : Nat, back : Nat, slots : X]
          \subseteq [open : Nat, parent : Nat, captured : Nat, back : Nat, slots : Y]
    BY <1>2
  <2>2. QED
    BY <1>1, <2>1, SeqMonotonic DEF Scopes
<1>4. PICK f : f = [h[i] EXCEPT !.slots = slots]
  OBVIOUS
<1>5. \A j \in 1 .. Len(h) : h[j] \in [open : Nat, parent : Nat, captured : Nat, back : Nat, slots : Y]
  BY <1>3, ElementOfSeq DEF Scopes
<1>6. /\ f \in [open : Nat, parent : Nat, captured : Nat, back : Nat, slots : Y]
      /\ f.open = h[i].open /\ f.parent = h[i].parent /\ f.captured = h[i].captured /\ f.back = h[i].back
      /\ f.slots = slots
  BY <1>2, <1>4, <1>5
<1>7. g = [h EXCEPT ![i] = f]
  BY <1>4
<1>8. g \in Scopes(Y) /\ Len(g) = Len(h) /\ g[i] = f /\ \A j \in 1 .. Len(h) : j # i => g[j] = h[j]
  <2>1. PICK S : S = [open : Nat, parent : Nat, captured : Nat, back : Nat, slots : Y]
    OBVIOUS
  <2>2. h \in Seq(S) /\ f \in S
    BY <1>3, <1>6, <2>1 DEF Scopes
  <2>3. g \in Seq(S) /\ Len(g) = Len(h) /\ g[i] = f /\ \A j \in 1 .. Len(h) : j # i => g[j] = h[j]
    BY <1>7, <2>2, ElementReplaced
  <2>4. QED
    BY <2>1, <2>3 DEF Scopes
<1>9. Len(h) \in Nat
  BY <1>3, LenProperties DEF Scopes
<1>10. Grown(h, g)
  BY <1>6, <1>8, <1>9 DEF Grown
<1>11. ASSUME NEW j \in 1 .. Len(g)
       PROVE  Sound(c, g, j)
  <2>1. j \in 1 .. Len(h) /\ Sound(c, h, j)
    BY <1>8 DEF Good
  <2>2. Filled(c, g, g[j].slots)
    <3>1. g[j].slots = slots \/ g[j].slots = h[j].slots
      BY <1>6, <1>8, <2>1
    <3>2. Filled(c, h, g[j].slots)
      BY <2>1, <3>1 DEF Sound
    <3>3. QED
      BY <1>10, <3>2, HoldsStays
  <2>3. QED
    BY <1>10, <2>1, <2>2, SoundStays
<1>12. QED
  BY <1>8, <1>10, <1>11 DEF Good

(* A scope comes to the heap. *)
JoinsHeap(h, frame, g) ==
  /\ Heaped(g) /\ Grown(h, g)
  /\ Len(h) \in Nat /\ Len(g) = Len(h) + 1 /\ g[Len(h) + 1] = frame
  /\ \A j \in 1 .. Len(h) : g[j] = h[j]

LEMMA Joined ==
  ASSUME NEW c, NEW h, Good(c, h),
         NEW frame, NEW slots, NEW open \in Nat, NEW parent \in 0 .. Len(h), NEW captured \in 0 .. Len(h), NEW back \in Nat,
         frame = [open |-> open, parent |-> parent, captured |-> captured, back |-> back, slots |-> slots],
         NEW g, g = Append(h, frame)
  PROVE  JoinsHeap(h, frame, g)
<1>1. PICK X : h \in Scopes(X)
  BY DEF Good
<1>2. PICK Y : Y = X \cup {slots}
  OBVIOUS
<1>3. h \in Scopes(Y)
  <2>1. [open : Nat, parent : Nat, captured : Nat, back : Nat, slots : X]
          \subseteq [open : Nat, parent : Nat, captured : Nat, back : Nat, slots : Y]
    BY <1>2
  <2>2. QED
    BY <1>1, <2>1, SeqMonotonic DEF Scopes
<1>4. PICK n \in Nat : n = Len(h)
  BY <1>3, LenProperties DEF Scopes
<1>5. frame \in [open : Nat, parent : Nat, captured : Nat, back : Nat, slots : Y]
  BY <1>2, <1>4
<1>6. g \in Scopes(Y) /\ Len(g) = n + 1 /\ g[n + 1] = frame /\ \A j \in 1 .. n : g[j] = h[j]
  BY <1>3, <1>4, <1>5, AppendProperties DEF Scopes
<1>7. Grown(h, g)
  BY <1>4, <1>6 DEF Grown
<1>8. QED
  BY <1>4, <1>6, <1>7 DEF Heaped, JoinsHeap

(* A scope is entered. *)
LEMMA Entered ==
  ASSUME NEW c, NEW h, Good(c, h),
         NEW frame, NEW slots, NEW open \in Nat, NEW parent \in 0 .. Len(h), NEW captured \in 0 .. Len(h), NEW back \in Nat,
         frame = [open |-> open, parent |-> parent, captured |-> captured, back |-> back, slots |-> slots],
         NEW up, up = (IF captured # 0 THEN captured ELSE parent),
         open # 0 => /\ open \in 1 .. Len(c) /\ c[open].op \in Opening
                     /\ up \in 1 .. Len(h) /\ h[up].open = c[open].inside,
         NEW g, JoinsHeap(h, frame, g), Filled(c, g, slots)
  PROVE  /\ Good(c, g) /\ Grown(h, g) /\ Len(g) = Len(h) + 1
         /\ g[Len(h) + 1].open = open /\ g[Len(h) + 1].back = back
<1>1. PICK n \in Nat : n = Len(h)
  BY DEF JoinsHeap
<1>2. Heaped(g) /\ Len(g) = n + 1 /\ g[n + 1] = frame /\ \A j \in 1 .. n : g[j] = h[j]
  BY <1>1 DEF JoinsHeap
<1>3. Grown(h, g)
  BY DEF JoinsHeap
<1>4. ASSUME NEW j \in 1 .. n + 1
      PROVE  Sound(c, g, j)
  <2>1. CASE j = n + 1
    <3>1. /\ g[j].open = open /\ g[j].parent = parent /\ g[j].captured = captured /\ g[j].slots = slots
      BY <1>2, <2>1
    <3>2. Upper(g, j) = up
      BY <3>1 DEF Upper
    <3>3. open # 0 => up \in 1 .. n + 1 /\ g[up].open = c[open].inside
      BY <1>1, <1>2
    <3>4. parent \in 0 .. j - 1 /\ captured \in 0 .. j - 1
      BY <1>1, <2>1
    <3>5. QED
      BY <1>2, <3>1, <3>2, <3>3, <3>4 DEF Sound
  <2>2. CASE j # n + 1
    <3>1. j \in 1 .. n
      BY <2>2
    <3>2. Sound(c, h, j) /\ g[j] = h[j]
      BY <1>1, <1>2, <3>1 DEF Good
    <3>3. Filled(c, g, g[j].slots)
      BY <1>3, <3>2, HoldsStays DEF Sound
    <3>4. QED
      BY <1>1, <1>3, <3>1, <3>2, <3>3, SoundStays
  <2>3. QED
    BY <2>1, <2>2
<1>5. QED
  BY <1>1, <1>2, <1>3, <1>4 DEF Good, Heaped

-----------------------------------------------------------------------------
(***************************************************************************)
(* Up through the scopes.                                                  *)
(***************************************************************************)

LEMMA GoodParts ==
  ASSUME NEW c, NEW h, Good(c, h)
  PROVE  /\ Len(h) \in Nat /\ DOMAIN h = 1 .. Len(h)
         /\ \A i \in 1 .. Len(h) :
              /\ h[i].open \in Nat /\ h[i].back \in Nat /\ Sound(c, h, i)
              /\ Upper(h, i) \in 0 .. Len(h)
<1>1. PICK X : h \in Seq([open : Nat, parent : Nat, captured : Nat, back : Nat, slots : X])
  BY DEF Good, Scopes
<1>2. Len(h) \in Nat /\ DOMAIN h = 1 .. Len(h)
  BY <1>1, LenProperties
<1>3. \A i \in 1 .. Len(h) : h[i] \in [open : Nat, parent : Nat, captured : Nat, back : Nat, slots : X]
  BY <1>1, ElementOfSeq
<1>4. ASSUME NEW i \in 1 .. Len(h)
      PROVE  Upper(h, i) \in 0 .. Len(h)
  <2>1. h[i].parent \in 0 .. i - 1 /\ h[i].captured \in 0 .. i - 1
    BY DEF Good, Sound
  <2>2. \A k \in 0 .. i - 1 : k \in 0 .. Len(h)
    BY <1>2
  <2>3. QED
    BY <2>1, <2>2 DEF Upper
<1>5. QED
  BY <1>2, <1>3, <1>4 DEF Good

(* Target follows Up, as often as it is asked to.                           *)
Climbed(h, top, n, i) ==
  \E f \in [0 .. n -> 0 .. Len(h)] :
    /\ f[0] = top /\ f[n] = i
    /\ \A d \in 1 .. n : f[d] = IF f[d - 1] = 0 THEN 0 ELSE Upper(h, f[d - 1])

LEMMA TargetClimbs ==
  ASSUME Good(code, heap), NEW top, top = Last(active), top \in 0 .. Len(heap), NEW n \in Nat
  PROVE  Climbed(heap, top, n, Target(n))
<1> DEFINE S == 0 .. Len(heap)
           g == [i \in S |-> IF i = 0 THEN 0 ELSE Upper(heap, i)]
           climb == CHOOSE climb : climb = [d \in 0 .. n |-> IF d = 0 THEN Last(active)
                                                ELSE IF climb[d - 1] = 0 THEN 0 ELSE Up(climb[d - 1])]
<1>1. g \in [S -> S]
  <2>1. ASSUME NEW i \in S
        PROVE  (IF i = 0 THEN 0 ELSE Upper(heap, i)) \in S
    <3>1. Len(heap) \in Nat /\ (i # 0 => i \in 1 .. Len(heap)) /\ 0 \in S
      BY GoodParts
    <3>2. QED
      BY <3>1, GoodParts
  <2>2. QED
    BY <2>1
<1>2. \A i \in S : g[i] = IF i = 0 THEN 0 ELSE Upper(heap, i)
  OBVIOUS
<1>3. top \in S
  OBVIOUS
<1>4. \A i : Up(i) = Upper(heap, i)
  BY DEF Up, Upper
<1> HIDE DEF S, g
<1>5. PICK f \in [0 .. n -> S] : f[0] = top /\ \A d \in 1 .. n : f[d] = g[f[d - 1]]
  <2>1. PICK R, r : R = S /\ r = g
    OBVIOUS
  <2>2. r \in [R -> R] /\ top \in R /\ n \in Nat
    BY <1>1, <1>3, <2>1
  <2>3. Iterating(R, r, top, n)
    BY <2>2, Iterates
  <2>4. QED
    BY <2>1, <2>3 DEF Iterating
<1>6. \A d \in 0 .. n : d = 0 \/ (d \in 1 .. n /\ d - 1 \in 0 .. n)
  OBVIOUS
<1>7. \A d \in 1 .. n : f[d] = IF f[d - 1] = 0 THEN 0 ELSE Upper(heap, f[d - 1])
  BY <1>2, <1>5, <1>6
<1>8. f = [d \in 0 .. n |-> IF d = 0 THEN Last(active) ELSE IF f[d - 1] = 0 THEN 0 ELSE Up(f[d - 1])]
  BY <1>4, <1>5, <1>6, <1>7
<1>9. climb = [d \in 0 .. n |-> IF d = 0 THEN Last(active) ELSE IF climb[d - 1] = 0 THEN 0 ELSE Up(climb[d - 1])]
  BY <1>8
<1>10. Target(n) = climb[n]
  BY DEF Target
<1> HIDE DEF climb
<1>11. climb[0] = top /\ \A d \in 1 .. n : climb[d] = IF climb[d - 1] = 0 THEN 0 ELSE Upper(heap, climb[d - 1])
  BY <1>4, <1>6, <1>9
<1>12. \A d \in 0 .. n : climb[d] = f[d]
  <2> DEFINE T == {d \in 0 .. n : climb[d] # f[d]}
  <2>1. SUFFICES ASSUME T # {} PROVE FALSE
    OBVIOUS
  <2>2. PICK d \in T : \A k \in T : d <= k
    <3>1. T \subseteq Nat
      OBVIOUS
    <3>2. QED
      BY <2>1, <3>1, LeastNatural
  <2>3. d # 0
    BY <1>5, <1>11, <2>2
  <2>4. d \in 1 .. n /\ d - 1 \in 0 .. n /\ ~(d <= d - 1)
    BY <2>2, <2>3
  <2>5. climb[d - 1] = f[d - 1]
    BY <2>2, <2>4
  <2>6. QED
    BY <1>7, <1>11, <2>2, <2>4, <2>5
<1>13. n \in 0 .. n
  OBVIOUS
<1>14. QED
  BY <1>5, <1>7, <1>10, <1>12, <1>13 DEF S, Climbed

(* Where the text has a way, the scopes have it too. *)
LEMMA Lands ==
  ASSUME Good(code, heap), NEW top, top = Last(active), top \in 1 .. Len(heap),
         NEW r \in Refs, Way(code, heap[top].open, r)
  PROVE  Target(r.depth) \in 1 .. Len(heap) /\ heap[Target(r.depth)].open = DeclIn(code, r.binding)
<1>1. PICK n \in Nat : n = r.depth
  BY DEF Refs
<1>2. top \in 0 .. Len(heap) /\ Len(heap) \in Nat
  BY GoodParts
<1>3. PICK f \in [0 .. n -> 0 .. Len(heap)] :
        /\ f[0] = top /\ f[n] = Target(n)
        /\ \A d \in 1 .. n : f[d] = IF f[d - 1] = 0 THEN 0 ELSE Upper(heap, f[d - 1])
  <2>1. Climbed(heap, top, n, Target(n))
    BY <1>2, TargetClimbs
  <2>2. QED
    BY <2>1 DEF Climbed
<1>4. PICK way \in [0 .. n -> Nat] :
        /\ way[0] = heap[top].open /\ way[n] = DeclIn(code, r.binding)
        /\ \A d \in 1 .. n : way[d - 1] \in 1 .. Len(code) /\ way[d] = code[way[d - 1]].inside
  BY <1>1 DEF Way
<1> DEFINE Lost(d) == ~(f[d] \in 1 .. Len(heap) /\ heap[f[d]].open = way[d])
           T == {d \in 0 .. n : Lost(d)}
<1>5. T = {}
  <2>1. SUFFICES ASSUME T # {} PROVE FALSE
    OBVIOUS
  <2>2. T \subseteq Nat
    OBVIOUS
  <2>3. PICK d \in T : \A k \in T : d <= k
    BY <2>1, <2>2, LeastNatural
  <2>4. d # 0
    BY <1>3, <1>4, <2>3
  <2>5. d \in 1 .. n /\ d - 1 \in 0 .. n /\ ~(d <= d - 1)
    BY <2>3, <2>4
  <2>6. f[d - 1] \in 1 .. Len(heap) /\ heap[f[d - 1]].open = way[d - 1]
    BY <2>3, <2>5
  <2>7. way[d - 1] \in 1 .. Len(code) /\ way[d] = code[way[d - 1]].inside
    BY <1>4, <2>5
  <2>8. way[d - 1] # 0 /\ f[d - 1] # 0
    BY <2>6, <2>7
  <2>9. Sound(code, heap, f[d - 1])
    BY <2>6, GoodParts
  <2>10. f[d] = Upper(heap, f[d - 1])
    BY <1>3, <2>5, <2>8
  <2>11. ~Lost(d)
    BY <2>6, <2>7, <2>8, <2>9, <2>10 DEF Sound
  <2>12. QED
    BY <2>3, <2>11
<1>6. n \in 0 .. n
  OBVIOUS
<1>7. QED
  BY <1>1, <1>3, <1>4, <1>5, <1>6

-----------------------------------------------------------------------------
(***************************************************************************)
(* What is in the slots.                                                   *)
(***************************************************************************)

LEMMA VoidHolds ==
  ASSUME NEW c, NEW h
  PROVE  Holds(c, h, Void)
BY DEF Holds, Void, Value, Vals, Bound, Roles, Nothing, Binding

LEMMA GetHolds ==
  ASSUME Good(code, heap), NEW top, top = Last(active), top \in 1 .. Len(heap), NEW ref \in Refs
  PROVE  /\ Get(ref) = Missing \/ Holds(code, heap, Get(ref))
         /\ Get(ref) # Missing => Target(ref.depth) \in 1 .. Len(heap)
<1>1. PICK n \in Nat : n = ref.depth
  BY DEF Refs
<1>2. top \in 0 .. Len(heap) /\ Len(heap) \in Nat
  BY GoodParts
<1>3. \E f \in [0 .. n -> 0 .. Len(heap)] : f[n] = Target(n)
  <2>1. Climbed(heap, top, n, Target(n))
    BY <1>2, TargetClimbs
  <2>2. QED
    BY <2>1 DEF Climbed
<1>4. n \in 0 .. n
  OBVIOUS
<1>5. PICK i \in 0 .. Len(heap) : i = Target(n)
  BY <1>3, <1>4
<1>6. CASE i = 0 \/ ref.slot + 1 \notin DOMAIN heap[i].slots
  BY <1>1, <1>5, <1>6 DEF Get
<1>7. CASE i # 0 /\ ref.slot + 1 \in DOMAIN heap[i].slots
  <2>1. i \in 1 .. Len(heap)
    BY <1>2, <1>7
  <2>2. Filled(code, heap, heap[i].slots)
    BY <2>1, GoodParts DEF Sound
  <2>3. Get(ref) = heap[i].slots[ref.slot + 1]
    BY <1>1, <1>5, <1>7 DEF Get
  <2>4. QED
    BY <1>1, <1>5, <1>7, <2>1, <2>2, <2>3 DEF Filled
<1>8. QED
  BY <1>6, <1>7

LEMMA EvalHolds ==
  ASSUME Good(code, heap), NEW top, top = Last(active), top \in 1 .. Len(heap), NEW ref \in Refs, NEW name
  PROVE  Eval(name, ref) = Missing \/ Holds(code, heap, Eval(name, ref))
BY GetHolds, VoidHolds DEF Eval

LEMMA PutFilled ==
  ASSUME NEW c, NEW h, NEW slots, Filled(c, h, slots), NEW ref \in Refs, NEW v, Holds(c, h, v)
  PROVE  Filled(c, h, Put(slots, ref, v))
<1>1. PICK u : u = [v EXCEPT !.binding = ref.binding]
  OBVIOUS
<1>2. v \in Vals /\ ref.binding \in Bound
  BY DEF Holds, Refs, Bound, Roles
<1>3. u \in Vals /\ u.fn = v.fn /\ u.scope = v.scope
  BY <1>1, <1>2 DEF Vals
<1>4. Holds(c, h, u)
  BY <1>3 DEF Holds
<1>5. PICK D : D = 1 .. Max({Len(slots), ref.slot + 1})
  OBVIOUS
<1>6. Put(slots, ref, v) = [s \in D |-> IF s = ref.slot + 1 THEN u ELSE IF s \in DOMAIN slots THEN slots[s] ELSE Void]
  BY <1>1, <1>5 DEF Put
<1>7. ASSUME NEW s \in D
      PROVE  Holds(c, h, IF s = ref.slot + 1 THEN u ELSE IF s \in DOMAIN slots THEN slots[s] ELSE Void)
  BY <1>4, VoidHolds DEF Filled
<1>8. QED
  BY <1>6, <1>7 DEF Filled

LEMMA NoneFilled ==
  ASSUME NEW c, NEW h
  PROVE  Filled(c, h, << >>)
BY DEF Filled

LEMMA EmptiedFilled ==
  ASSUME NEW c, NEW h, NEW D
  PROVE  Filled(c, h, [s \in D |-> Void])
BY VoidHolds DEF Filled

LEMMA HoistFilled ==
  ASSUME NEW t, Whole(t, code), NEW h, NEW i \in 1 .. Len(h), Len(h) \in Nat, NEW open, h[i].open = open,
         NEW slots, Filled(code, h, slots)
  PROVE  Filled(code, h, Hoist(slots, open, i))
<1>1. PICK fns : fns = FnsIn(open)
  OBVIOUS
<1>2. PICK n \in Nat : n = Len(code) /\ DOMAIN code = 1 .. n
  <2>1. code \in Seq(Codes)
    BY DEF Whole
  <2>2. QED
    BY <2>1, LenProperties
<1>3. fns \subseteq 1 .. n /\ \A p \in fns : code[p].op = "fn" /\ code[p].inside = open
  BY <1>1, <1>2 DEF FnsIn
<1> DEFINE Takes(p, s) == code[p].target.slot + 1 = s
           Latest(s) == Max({p \in fns : Takes(p, s)})
           New(s) == Value(code[Latest(s)].target.binding, Latest(s), i)
           D == 1 .. Max({Len(slots)} \cup {code[p].target.slot + 1 : p \in fns})
<1>4. ASSUME NEW s, \E p \in fns : Takes(p, s)
      PROVE  Holds(code, h, New(s))
  <2>1. PICK S : S = {p \in fns : Takes(p, s)}
    OBVIOUS
  <2>2. S \subseteq 1 .. n /\ S # {} /\ S \subseteq fns
    BY <1>3, <1>4, <2>1
  <2>3. PICK m \in fns : m = Max(S)
    BY <2>2, Greatest
  <2>4. New(s) = Value(code[m].target.binding, m, i)
    BY <2>1, <2>3
  <2>5. m \in 1 .. Len(code) /\ m \in Nat /\ code[m].op = "fn" /\ code[m].inside = open
    BY <1>2, <1>3, <2>3
  <2>6. code[m].target.binding \in Bound
    BY <2>5, WholeParts DEF Refs, Bound, Roles
  <2>7. i \in Nat
    OBVIOUS
  <2>8. QED
    BY <2>4, <2>5, <2>6, <2>7 DEF Holds, Value, Vals
<1>5. Hoist(slots, open, i) = [s \in D |-> IF \E p \in fns : Takes(p, s) THEN New(s)
                                            ELSE IF s \in DOMAIN slots THEN slots[s] ELSE Void]
  BY <1>1 DEF Hoist, Stored
<1> HIDE DEF New, D, Takes
<1>6. ASSUME NEW s \in D
      PROVE  Holds(code, h, IF \E p \in fns : Takes(p, s) THEN New(s)
                            ELSE IF s \in DOMAIN slots THEN slots[s] ELSE Void)
  BY <1>4, VoidHolds DEF Filled
<1>7. QED
  BY <1>5, <1>6 DEF Filled

-----------------------------------------------------------------------------
(***************************************************************************)
(* The scopes that are entered, and where the run is.                      *)
(***************************************************************************)

(* Behind scope i, entered from scope j, the run goes on in the body of j.  *)
Returns(c, h, j, i) ==
  /\ h[i].open # 0
  /\ h[i].back \in 1 .. Len(c) => c[h[i].back].inside = h[j].open
  /\ c[h[i].open].op \notin {"fn", "lambda"} => h[j].open = c[h[i].open].inside

Stack(c, h, a) ==
  /\ a \in Seq(1 .. Len(h)) /\ a # << >> /\ h[a[1]].open = 0
  /\ \A k \in 2 .. Len(a) : Returns(c, h, a[k - 1], a[k])

Place(c, h, a, q) ==
  /\ q \in Nat
  /\ q \in 1 .. Len(c) => \/ h[Last(a)].open = c[q].inside
                          \/ h[Last(a)].open = q /\ c[q].op \in {"for", "while"}

Runs(t, c, h, a, q) == Whole(t, c) /\ Good(c, h) /\ Stack(c, h, a) /\ Place(c, h, a, q)

LEMMA StackTop ==
  ASSUME NEW c, NEW h, NEW a, Stack(c, h, a)
  PROVE  /\ Last(a) \in 1 .. Len(h) /\ Last(a) = a[Len(a)] /\ Len(a) \in Nat /\ Len(a) >= 1
         /\ \A k \in 1 .. Len(a) : a[k] \in 1 .. Len(h)
<1>1. a \in Seq(1 .. Len(h)) /\ a # << >>
  BY DEF Stack
<1>2. \A k \in 1 .. Len(a) : a[k] \in 1 .. Len(h)
  BY <1>1, ElementOfSeq
<1>3. QED
  BY <1>1, <1>2, FrontLast

LEMMA StackStays ==
  ASSUME NEW c, NEW h, NEW g, Grown(h, g), NEW a, Stack(c, h, a)
  PROVE  Stack(c, g, a) /\ g[Last(a)].open = h[Last(a)].open
<1>1. a \in Seq(1 .. Len(h)) /\ a # << >> /\ h[a[1]].open = 0
  BY DEF Stack
<1>2. PICK n \in Nat : n = Len(a) /\ n >= 1 /\ Last(a) \in 1 .. Len(h) /\ \A k \in 1 .. n : a[k] \in 1 .. Len(h)
  BY StackTop
<1>3. a \in Seq(1 .. Len(g))
  <2>1. 1 .. Len(h) \subseteq 1 .. Len(g)
    BY DEF Grown
  <2>2. QED
    BY <1>1, <2>1, SeqMonotonic
<1>4. \A k \in 2 .. n : k \in 1 .. n /\ k - 1 \in 1 .. n
  BY <1>2
<1>5. 1 \in 1 .. n
  BY <1>2
<1>6. \A i, j \in 1 .. Len(h) : Returns(c, h, j, i) => Returns(c, g, j, i)
  BY DEF Grown, Returns
<1>7. \A k \in 2 .. n : Returns(c, g, a[k - 1], a[k])
  <2>1. \A k \in 2 .. n : Returns(c, h, a[k - 1], a[k])
    BY <1>2 DEF Stack
  <2>2. QED
    BY <1>2, <1>4, <1>6, <2>1
<1>8. g[a[1]].open = 0 /\ g[Last(a)].open = h[Last(a)].open
  BY <1>1, <1>2, <1>5 DEF Grown
<1>9. QED
  BY <1>1, <1>2, <1>3, <1>7, <1>8 DEF Stack

LEMMA StackEntered ==
  ASSUME NEW c, NEW h, NEW g, Grown(h, g), NEW a, Stack(c, h, a),
         NEW i \in 1 .. Len(g), Returns(c, g, Last(a), i)
  PROVE  Stack(c, g, Append(a, i)) /\ Last(Append(a, i)) = i
<1>1. PICK b : b = Append(a, i)
  OBVIOUS
<1>2. Stack(c, g, a)
  BY StackStays
<1>3. a \in Seq(1 .. Len(g)) /\ a # << >> /\ g[a[1]].open = 0
  BY <1>2 DEF Stack
<1>4. PICK n \in Nat : n = Len(a) /\ n >= 1 /\ Last(a) = a[n]
  BY <1>2, StackTop
<1>5. b \in Seq(1 .. Len(g)) /\ Len(b) = n + 1 /\ b[n + 1] = i /\ \A k \in 1 .. n : b[k] = a[k]
  BY <1>1, <1>3, <1>4, AppendProperties
<1>6. b # << >> /\ Last(b) = i
  <2>1. n + 1 # 0
    BY <1>4
  <2>2. b # << >>
    BY <1>5, <2>1, EmptySeq
  <2>3. QED
    BY <1>5, <2>2, FrontLast
<1>7. 1 \in 1 .. n /\ n \in 1 .. n
  BY <1>4
<1>8. ASSUME NEW k \in 2 .. n + 1
      PROVE  Returns(c, g, b[k - 1], b[k])
  <2>1. CASE k = n + 1
    <3>1. k - 1 = n
      BY <2>1
    <3>2. QED
      BY <1>4, <1>5, <1>7, <2>1, <3>1
  <2>2. CASE k # n + 1
    <3>1. k \in 2 .. n /\ k \in 1 .. n /\ k - 1 \in 1 .. n
      BY <2>2
    <3>2. Returns(c, g, a[k - 1], a[k])
      BY <1>2, <1>4, <3>1 DEF Stack
    <3>3. QED
      BY <1>5, <3>1, <3>2
  <2>3. QED
    BY <2>1, <2>2
<1>9. QED
  BY <1>1, <1>3, <1>5, <1>6, <1>7, <1>8 DEF Stack

LEMMA StackLeft ==
  ASSUME NEW c, NEW h, NEW a, Stack(c, h, a), h[Last(a)].open # 0, NEW b, b = Front(a)
  PROVE  Stack(c, h, b) /\ Returns(c, h, Last(b), Last(a))
<1>1. a \in Seq(1 .. Len(h)) /\ a # << >> /\ h[a[1]].open = 0
  BY DEF Stack
<1>2. PICK n \in Nat : n = Len(a) /\ n >= 1 /\ Last(a) = a[n]
  BY StackTop
<1>3. n # 1
  BY <1>1, <1>2
<1>4. n - 1 \in Nat /\ n - 1 # 0 /\ 1 \in 1 .. n - 1 /\ n \in 2 .. n /\ n - 1 \in 1 .. n - 1
  BY <1>2, <1>3
<1>5. b \in Seq(1 .. Len(h)) /\ Len(b) = n - 1 /\ \A k \in 1 .. n - 1 : b[k] = a[k]
  BY <1>1, <1>2, FrontLast
<1>6. b # << >> /\ Last(b) = b[n - 1] /\ n - 1 \in 1 .. n - 1
  <2>1. b # << >>
    BY <1>4, <1>5, EmptySeq
  <2>2. QED
    BY <1>4, <1>5, <2>1, FrontLast
<1>7. \A k \in 2 .. n - 1 : k \in 2 .. n /\ k \in 1 .. n - 1 /\ k - 1 \in 1 .. n - 1
  BY <1>2
<1>8. \A k \in 2 .. n : Returns(c, h, a[k - 1], a[k])
  BY <1>2 DEF Stack
<1>9. Returns(c, h, Last(b), Last(a))
  BY <1>2, <1>4, <1>5, <1>6, <1>8
<1>10. \A k \in 2 .. n - 1 : Returns(c, h, b[k - 1], b[k])
  BY <1>5, <1>7, <1>8
<1>11. QED
  BY <1>1, <1>4, <1>5, <1>6, <1>9, <1>10 DEF Stack

-----------------------------------------------------------------------------
(***************************************************************************)
(* A step of the run.                                                      *)
(***************************************************************************)

RunsNext ==
  /\ UNCHANGED <<text, tables, code>>
  /\ status' \in {"running", "done", "failed"}
  /\ \E h, a, q : h = heap' /\ a = active' /\ q = pc' /\ Runs(text, code, h, a, q)

LEMMA EndsRuns ==
  ASSUME Runs(text, code, heap, active, pc), NEW how \in {"done", "failed"}, Ends(how)
  PROVE  RunsNext
BY DEF RunsNext, Ends

(* What the run knows at an item. *)
LEMMA RunParts ==
  ASSUME Runs(text, code, heap, active, pc), status = "running", NEW op, Running(op)
  PROVE  /\ pc \in 1 .. Len(code) /\ Here = code[pc] /\ Here.op = op /\ pc \in Nat /\ pc + 1 \in Nat
         /\ Here.target \in Refs /\ Here.other \in Refs /\ Here.param \in Refs /\ Here.inside \in Nat
         /\ Good(code, heap) /\ Stack(code, heap, active) /\ Whole(text, code)
         /\ Last(active) \in 1 .. Len(heap) /\ Len(heap) \in Nat
         /\ heap[Last(active)].open = Here.inside \/ (heap[Last(active)].open = pc /\ op \in {"for", "while"})
<1>1. Good(code, heap) /\ Stack(code, heap, active) /\ Whole(text, code) /\ Place(code, heap, active, pc)
  BY DEF Runs
<1>2. code \in Seq(Codes)
  BY <1>1 DEF Whole
<1>3. pc \in 1 .. Len(code) /\ Here = code[pc] /\ Here.op = op
  BY <1>2, LenProperties DEF Running, Here
<1>4. QED
  BY <1>1, <1>3, WholeParts, StackTop, GoodParts DEF Place

(* An item that changes slots at most, and what comes behind it. *)
LEMMA SlotsRuns ==
  ASSUME Runs(text, code, heap, active, pc), status = "running",
         NEW i \in 1 .. Len(heap), NEW slots, Filled(code, heap, slots),
         InScope(i, slots) \/ heap' = heap,
         NEW item \in Nat, Goto(item), UNCHANGED active,
         item \in 1 .. Len(code) => \/ heap[Last(active)].open = code[item].inside
                                    \/ heap[Last(active)].open = item /\ code[item].op \in {"for", "while"}
  PROVE  RunsNext
<1>1. Good(code, heap) /\ Stack(code, heap, active) /\ Whole(text, code)
  BY DEF Runs
<1>2. PICK h, a, q : h = heap' /\ a = active' /\ q = pc'
  OBVIOUS
<1>3. a = active /\ q = item /\ UNCHANGED <<text, tables, code>> /\ status' = "running"
  BY <1>2 DEF Goto
<1>4. Good(code, h) /\ Grown(heap, h)
  <2>1. CASE InScope(i, slots)
    <3>1. h = [heap EXCEPT ![i].slots = slots]
      BY <1>2, <2>1 DEF InScope
    <3>2. QED
      BY <1>1, <3>1, SlotsSet
  <2>2. CASE heap' = heap
    <3>1. h = heap /\ Len(heap) \in Nat
      BY <1>1, <1>2, <2>2, GoodParts
    <3>2. QED
      BY <1>1, <3>1 DEF Grown
  <2>3. QED
    BY <2>1, <2>2
<1>5. Stack(code, h, a) /\ h[Last(a)].open = heap[Last(active)].open
  BY <1>1, <1>3, <1>4, StackStays
<1>6. Place(code, h, a, q)
  BY <1>3, <1>5 DEF Place
<1>7. Runs(text, code, h, a, q)
  BY <1>1, <1>4, <1>5, <1>6 DEF Runs
<1>8. QED
  BY <1>2, <1>3, <1>7 DEF RunsNext

(* The scope of a body is entered, from where the text has the body or, of  *)
(* a function, from anywhere.                                               *)
LEMMA EnterRuns ==
  ASSUME Runs(text, code, heap, active, pc), status = "running",
         NEW open \in 1 .. Len(code), open \in Nat, code[open].op \in Opening,
         NEW captured \in 0 .. Len(heap), NEW up, up = (IF captured # 0 THEN captured ELSE Last(active)),
         heap[up].open = code[open].inside, up \in 1 .. Len(heap),
         NEW back \in Nat, back \in 1 .. Len(code) => code[back].inside = heap[Last(active)].open,
         code[open].op \notin {"fn", "lambda"} => heap[Last(active)].open = code[open].inside,
         NEW slots, Filled(code, heap, slots), NEW hoisted \in BOOLEAN,
         Enter(open, captured, back, slots, hoisted),
         NEW item \in Nat, Goto(item),
         item \in 1 .. Len(code) => \/ code[item].inside = open
                                    \/ item = open /\ code[item].op \in {"for", "while"}
  PROVE  RunsNext
<1>1. Good(code, heap) /\ Stack(code, heap, active) /\ Whole(text, code)
  BY DEF Runs
<1>2. PICK g, a, q : g = heap' /\ a = active' /\ q = pc'
  OBVIOUS
<1>3. q = item /\ UNCHANGED <<text, tables, code>> /\ status' = "running"
  BY <1>2 DEF Goto
<1>4. PICK top \in 1 .. Len(heap) : top = Last(active) /\ active # << >>
  BY <1>1, StackTop DEF Stack
<1>5. PICK n \in Nat : n = Len(heap)
  BY <1>1, GoodParts
<1>6. PICK filling : filling = IF hoisted THEN Hoist(slots, open, n + 1) ELSE slots
  OBVIOUS
<1>7. PICK frame : frame = [open |-> open, parent |-> top, captured |-> captured, back |-> back, slots |-> filling]
  OBVIOUS
<1>8. g = Append(heap, frame) /\ a = Append(active, n + 1)
  BY <1>2, <1>4, <1>5, <1>6, <1>7 DEF Enter, Scope
<1>9. top \in 0 .. Len(heap)
  BY <1>4, <1>5
<1>10. JoinsHeap(heap, frame, g)
  BY <1>1, <1>7, <1>8, <1>9, Joined
<1>11. Grown(heap, g) /\ Len(g) = n + 1 /\ g[n + 1] = frame
  BY <1>5, <1>10 DEF JoinsHeap
<1>12. n + 1 \in 1 .. Len(g) /\ Len(g) \in Nat /\ g[n + 1].open = open /\ g[n + 1].back = back
  BY <1>5, <1>7, <1>11
<1>13. Filled(code, g, filling)
  <2>1. Filled(code, g, slots)
    BY <1>11, HoldsStays
  <2>2. Filled(code, g, Hoist(slots, open, n + 1))
    BY <1>1, <1>12, <2>1, HoistFilled
  <2>3. QED
    BY <1>6, <2>1, <2>2
<1>14. Good(code, g)
  BY <1>1, <1>4, <1>7, <1>9, <1>10, <1>13, Entered
<1>15. Returns(code, g, top, n + 1)
  <2>1. g[top].open = heap[top].open /\ open # 0
    BY <1>4, <1>11 DEF Grown
  <2>2. QED
    BY <1>4, <1>12, <2>1 DEF Returns
<1>16. Stack(code, g, a) /\ Last(a) = n + 1
  <2>1. PICK i \in 1 .. Len(g) : i = n + 1
    BY <1>12
  <2>2. a = Append(active, i) /\ Returns(code, g, Last(active), i)
    BY <1>4, <1>8, <1>15, <2>1
  <2>3. QED
    BY <1>1, <1>11, <2>1, <2>2, StackEntered
<1>17. Place(code, g, a, q)
  BY <1>3, <1>12, <1>16 DEF Place
<1>18. Runs(text, code, g, a, q)
  BY <1>1, <1>14, <1>16, <1>17 DEF Runs
<1>19. QED
  BY <1>2, <1>3, <1>18 DEF RunsNext

LEMMA LeaveRuns ==
  ASSUME Runs(text, code, heap, active, pc), status = "running",
         heap[Last(active)].open # 0, NEW item \in Nat, Leave(item),
         \A j : /\ Returns(code, heap, j, Last(active)) /\ item \in 1 .. Len(code)
                => heap[j].open = code[item].inside
  PROVE  RunsNext
<1>1. Good(code, heap) /\ Stack(code, heap, active) /\ Whole(text, code)
  BY DEF Runs
<1>2. PICK h, a, q : h = heap' /\ a = active' /\ q = pc'
  OBVIOUS
<1>3. h = heap /\ a = Front(active) /\ q = item /\ UNCHANGED <<text, tables, code>> /\ status' = "running"
  BY <1>2 DEF Leave, Goto
<1>4. Stack(code, h, a) /\ Returns(code, h, Last(a), Last(active))
  BY <1>1, <1>3, StackLeft
<1>5. Place(code, h, a, q)
  BY <1>3, <1>4 DEF Place
<1>6. Runs(text, code, h, a, q)
  BY <1>1, <1>3, <1>4, <1>5 DEF Runs
<1>7. QED
  BY <1>2, <1>3, <1>6 DEF RunsNext

-----------------------------------------------------------------------------
(***************************************************************************)
(* The actions of the run.                                                 *)
(***************************************************************************)

LEMMA LetRuns ==
  ASSUME Runs(text, code, heap, active, pc), status = "running", RunLet
  PROVE  RunsNext
<1>1. /\ pc \in 1 .. Len(code) /\ Here = code[pc] /\ Here.op = "let" /\ pc \in Nat /\ pc + 1 \in Nat
      /\ Here.target \in Refs /\ Here.other \in Refs
      /\ Good(code, heap) /\ Whole(text, code)
      /\ Last(active) \in 1 .. Len(heap) /\ heap[Last(active)].open = Here.inside
  BY RunParts DEF RunLet
<1>2. PICK value : value = Eval(Source, Here.other)
  OBVIOUS
<1>3. CASE value = Missing
  <2>1. Ends("failed")
    BY <1>2, <1>3 DEF RunLet
  <2>2. QED
    BY <2>1, EndsRuns
<1>4. CASE value # Missing
  <2>1. PICK top \in 1 .. Len(heap) : top = Last(active)
    BY <1>1
  <2>2. Holds(code, heap, value)
    BY <1>1, <1>2, <1>4, <2>1, EvalHolds
  <2>3. Filled(code, heap, heap[top].slots)
    BY <1>1, <2>1, GoodParts DEF Sound
  <2>4. PICK slots : slots = Put(heap[top].slots, Here.target, value)
    OBVIOUS
  <2>5. Filled(code, heap, slots)
    BY <1>1, <2>2, <2>3, <2>4, PutFilled
  <2>6. InScope(top, slots) /\ Goto(pc + 1) /\ UNCHANGED active
    BY <1>2, <1>4, <2>1, <2>4 DEF RunLet
  <2>7. pc + 1 \in 1 .. Len(code) => heap[Last(active)].open = code[pc + 1].inside
    BY <1>1, Following DEF After, Opening
  <2>8. QED
    BY <1>1, <2>5, <2>6, <2>7, SlotsRuns
<1>5. QED
  BY <1>3, <1>4

LEMMA SetRuns ==
  ASSUME Runs(text, code, heap, active, pc), status = "running", RunSet
  PROVE  RunsNext
<1>1. /\ pc \in 1 .. Len(code) /\ Here = code[pc] /\ Here.op = "set" /\ pc \in Nat /\ pc + 1 \in Nat
      /\ Here.target \in Refs /\ Here.other \in Refs
      /\ Good(code, heap) /\ Whole(text, code)
      /\ Last(active) \in 1 .. Len(heap) /\ heap[Last(active)].open = Here.inside
  BY RunParts DEF RunSet
<1>2. PICK value : value = Eval(Source, Here.other)
  OBVIOUS
<1>3. CASE value = Missing \/ Get(Here.target) = Missing
  <2>1. Ends("failed")
    BY <1>2, <1>3 DEF RunSet
  <2>2. QED
    BY <2>1, EndsRuns
<1>4. CASE ~(value = Missing \/ Get(Here.target) = Missing)
  <2>1. PICK top \in 1 .. Len(heap) : top = Last(active)
    BY <1>1
  <2>2. Holds(code, heap, value)
    BY <1>1, <1>2, <1>4, <2>1, EvalHolds
  <2>3. PICK i \in 1 .. Len(heap) : i = Target(Here.target.depth)
    BY <1>1, <1>4, <2>1, GetHolds
  <2>4. Filled(code, heap, heap[i].slots)
    BY <1>1, <2>3, GoodParts DEF Sound
  <2>5. PICK slots : slots = Put(heap[i].slots, Here.target, value)
    OBVIOUS
  <2>6. Filled(code, heap, slots)
    BY <1>1, <2>2, <2>4, <2>5, PutFilled
  <2>7. InScope(i, slots) /\ Goto(pc + 1) /\ UNCHANGED active
    BY <1>2, <1>4, <2>3, <2>5 DEF RunSet
  <2>8. pc + 1 \in 1 .. Len(code) => heap[Last(active)].open = code[pc + 1].inside
    BY <1>1, Following DEF After, Opening
  <2>9. QED
    BY <1>1, <2>6, <2>7, <2>8, SlotsRuns
<1>5. QED
  BY <1>3, <1>4

LEMMA FnRuns ==
  ASSUME Runs(text, code, heap, active, pc), status = "running", RunFn \/ RunLambda
  PROVE  RunsNext
<1>1. PICK op \in {"fn", "lambda"} : Running(op)
  BY DEF RunFn, RunLambda
<1>2. /\ pc \in 1 .. Len(code) /\ Here = code[pc] /\ Here.op = op /\ pc \in Nat
      /\ Here.target \in Refs /\ Here.inside \in Nat
      /\ Good(code, heap) /\ Whole(text, code)
      /\ Last(active) \in 1 .. Len(heap) /\ Len(heap) \in Nat /\ heap[Last(active)].open = Here.inside
  BY <1>1, RunParts
<1>3. PICK item \in Nat : item = EndOf(pc) + 1 /\ (item \in 1 .. Len(code) => code[item].inside = Here.inside)
  BY <1>1, <1>2, Ending DEF Opening
<1>4. PICK top \in 1 .. Len(heap) : top = Last(active) /\ top \in Nat
  BY <1>2
<1>5. Filled(code, heap, heap[top].slots)
  BY <1>2, <1>4, GoodParts DEF Sound
<1>6. CASE RunFn
  <2>1. heap' = heap /\ Goto(item) /\ UNCHANGED active
    BY <1>3, <1>6 DEF RunFn
  <2>2. QED
    BY <1>2, <1>3, <1>4, <1>5, <2>1, SlotsRuns
<1>7. CASE RunLambda
  <2>1. PICK value : value = Value(Nothing, pc, top)
    OBVIOUS
  <2>2. Holds(code, heap, value)
    BY <1>1, <1>2, <1>4, <2>1 DEF Holds, Value, Vals, Nothing, Binding, Bound, Roles
  <2>3. PICK slots : slots = Put(heap[top].slots, Here.target, value)
    OBVIOUS
  <2>4. Filled(code, heap, slots)
    BY <1>2, <1>5, <2>2, <2>3, PutFilled
  <2>5. InScope(top, slots) /\ Goto(item) /\ UNCHANGED active
    BY <1>3, <1>4, <1>7, <2>1, <2>3 DEF RunLambda
  <2>6. QED
    BY <1>2, <1>3, <2>4, <2>5, SlotsRuns
<1>8. QED
  BY <1>6, <1>7

LEMMA CallRuns ==
  ASSUME Runs(text, code, heap, active, pc), status = "running", RunCall
  PROVE  RunsNext
<1>1. /\ pc \in 1 .. Len(code) /\ Here = code[pc] /\ Here.op = "call" /\ pc \in Nat /\ pc + 1 \in Nat
      /\ Here.target \in Refs /\ Here.other \in Refs
      /\ Good(code, heap) /\ Whole(text, code)
      /\ Last(active) \in 1 .. Len(heap) /\ Len(heap) \in Nat /\ heap[Last(active)].open = Here.inside
  BY RunParts DEF RunCall
<1>2. PICK argument, callee :
        /\ argument = Eval(Source, Here.other)
        /\ callee = IF Here.target = NoRef THEN Missing ELSE Get(Here.target)
  OBVIOUS
<1>3. CASE argument = Missing \/ callee.fn <= 0
  <2>1. Ends("failed")
    BY <1>2, <1>3 DEF RunCall
  <2>2. QED
    BY <2>1, EndsRuns
<1>4. CASE ~(argument = Missing \/ callee.fn <= 0)
  <2>1. PICK top \in 1 .. Len(heap) : top = Last(active)
    BY <1>1
  <2>2. Holds(code, heap, argument)
    BY <1>1, <1>2, <1>4, <2>1, EvalHolds
  <2>3. Holds(code, heap, callee) /\ callee.fn # 0
    <3>1. Missing.fn <= 0
      BY DEF Missing, Value
    <3>2. callee # Missing
      BY <1>4, <3>1
    <3>3. Holds(code, heap, callee)
      BY <1>1, <1>2, <2>1, <3>2, GetHolds
    <3>4. callee.fn \in Nat
      BY <3>3 DEF Holds, Vals
    <3>5. QED
      BY <1>4, <3>3, <3>4
  <2>4. PICK item \in 1 .. Len(code) :
          /\ item = callee.fn /\ item \in Nat /\ code[item].op \in {"fn", "lambda"}
          /\ callee.scope \in 1 .. Len(heap) /\ heap[callee.scope].open = code[item].inside
    BY <2>3 DEF Holds, Vals
  <2>5. PICK self : self = [slot |-> 0, depth |-> 0, binding |-> Binding(item, "self")]
    OBVIOUS
  <2>6. PICK slots : slots = Put(Put(<< >>, self, callee), code[item].param, argument)
    OBVIOUS
  <2>7. /\ Enter(item, callee.scope, pc + 1, slots, TRUE) /\ Goto(item + 1)
    BY <1>2, <1>4, <2>4, <2>5, <2>6 DEF RunCall
  <2>8. Filled(code, heap, slots)
    <3>1. self \in Refs
      BY <2>4, <2>5 DEF Refs, Binding
    <3>2. code[item].param \in Refs
      BY <1>1, <2>4, WholeParts
    <3>3. Filled(code, heap, Put(<< >>, self, callee))
      BY <2>3, <3>1, NoneFilled, PutFilled
    <3>4. QED
      BY <2>2, <2>6, <3>2, <3>3, PutFilled
  <2>9. pc + 1 \in 1 .. Len(code) => code[pc + 1].inside = heap[Last(active)].open
    BY <1>1, Following DEF After, Opening
  <2>10. item + 1 \in 1 .. Len(code) => code[item + 1].inside = item
    BY <1>1, <2>4, Following DEF After, Opening
  <2>11. PICK captured \in 0 .. Len(heap) : captured = callee.scope /\ captured # 0 /\ captured \in 1 .. Len(heap)
    BY <1>1, <2>4
  <2>12. item + 1 \in Nat /\ code[item].op \in Opening
    BY <2>4 DEF Opening
  <2>13. QED
    BY <1>1, <2>4, <2>7, <2>8, <2>9, <2>10, <2>11, <2>12, EnterRuns
<1>5. QED
  BY <1>3, <1>4

LEMMA IfRuns ==
  ASSUME Runs(text, code, heap, active, pc), status = "running", RunIf
  PROVE  RunsNext
<1>1. /\ pc \in 1 .. Len(code) /\ Here = code[pc] /\ Here.op = "if" /\ pc \in Nat /\ pc + 1 \in Nat
      /\ Here.target \in Refs /\ Here.other \in Refs
      /\ Good(code, heap) /\ Whole(text, code)
      /\ Last(active) \in 1 .. Len(heap) /\ Len(heap) \in Nat /\ heap[Last(active)].open = Here.inside
  BY RunParts DEF RunIf
<1>2. PICK item \in Nat : item = EndOf(pc) + 1 /\ (item \in 1 .. Len(code) => code[item].inside = Here.inside)
  BY <1>1, Ending DEF Opening
<1>3. PICK top \in 1 .. Len(heap) : top = Last(active)
  BY <1>1
<1>4. CASE Ends("failed")
  BY <1>4, EndsRuns
<1>5. CASE Enter(pc, 0, EndOf(pc) + 1, << >>, TRUE) /\ Goto(pc + 1)
  <2>1. pc + 1 \in 1 .. Len(code) => code[pc + 1].inside = pc
    BY <1>1, Following DEF After, Opening
  <2>2. Enter(pc, 0, item, << >>, TRUE) /\ Goto(pc + 1) /\ code[pc].op \in Opening
    BY <1>1, <1>2, <1>5 DEF Opening
  <2>3. 0 \in 0 .. Len(heap)
    BY <1>1
  <2>4. QED
    BY <1>1, <1>2, <1>3, <2>1, <2>2, <2>3, NoneFilled, EnterRuns
<1>6. CASE Goto(EndOf(pc) + 1) /\ UNCHANGED <<heap, active>>
  <2>1. Filled(code, heap, heap[top].slots)
    BY <1>1, <1>3, GoodParts DEF Sound
  <2>2. QED
    BY <1>1, <1>2, <1>3, <1>6, <2>1, SlotsRuns
<1>7. QED
  BY <1>4, <1>5, <1>6 DEF RunIf

(* What the run knows at a loop. *)
LEMMA LoopParts ==
  ASSUME Runs(text, code, heap, active, pc), status = "running", Running("for") \/ Running("while")
  PROVE  /\ pc \in 1 .. Len(code) /\ Here = code[pc] /\ Here.op \in {"for", "while"} /\ pc \in Nat /\ pc + 1 \in Nat
         /\ Here.op \in Opening
         /\ Here.target \in Refs /\ Here.other \in Refs
         /\ Good(code, heap) /\ Whole(text, code)
         /\ Last(active) \in 1 .. Len(heap) /\ Len(heap) \in Nat
         /\ ~AtHead => heap[Last(active)].open = Here.inside
         /\ EndOf(pc) + 1 \in Nat
         /\ EndOf(pc) + 1 \in 1 .. Len(code) => code[EndOf(pc) + 1].inside = Here.inside
         /\ pc + 1 \in 1 .. Len(code) => code[pc + 1].inside = pc
<1>1. PICK op \in {"for", "while"} : Running(op)
  OBVIOUS
<1>2. /\ pc \in 1 .. Len(code) /\ Here = code[pc] /\ Here.op = op /\ pc \in Nat /\ pc + 1 \in Nat
      /\ Here.target \in Refs /\ Here.other \in Refs
      /\ Good(code, heap) /\ Whole(text, code)
      /\ Last(active) \in 1 .. Len(heap) /\ Len(heap) \in Nat
      /\ heap[Last(active)].open = Here.inside \/ heap[Last(active)].open = pc
  BY <1>1, RunParts
<1>3. Here.op \in Opening
  BY <1>2 DEF Opening
<1>4. EndOf(pc) + 1 \in Nat /\ (EndOf(pc) + 1 \in 1 .. Len(code) => code[EndOf(pc) + 1].inside = Here.inside)
  BY <1>2, <1>3, Ending
<1>5. pc + 1 \in 1 .. Len(code) => code[pc + 1].inside = pc
  BY <1>2, <1>3, Following DEF After
<1>6. QED
  BY <1>2, <1>3, <1>4, <1>5 DEF AtHead

LEMMA BeginRuns ==
  ASSUME Runs(text, code, heap, active, pc), status = "running", BeginLoop
  PROVE  RunsNext
<1>1. Running("for") \/ Running("while")
  BY DEF BeginLoop
<1>2. /\ pc \in 1 .. Len(code) /\ Here = code[pc] /\ Here.op \in {"for", "while"} /\ pc \in Nat
      /\ Here.op \in Opening /\ Here.target \in Refs
      /\ Good(code, heap) /\ Last(active) \in 1 .. Len(heap) /\ Len(heap) \in Nat
  BY <1>1, LoopParts
<1>3. heap[Last(active)].open = Here.inside
  BY <1>1, LoopParts DEF BeginLoop
<1>4. PICK back \in Nat : back = EndOf(pc) + 1 /\ (back \in 1 .. Len(code) => code[back].inside = Here.inside)
  BY <1>1, LoopParts
<1>5. CASE Ends("failed")
  BY <1>5, EndsRuns
<1>6. PICK slots : slots = IF Here.op = "for" THEN Put(<< >>, Here.target, Void) ELSE << >>
  OBVIOUS
<1>7. CASE Enter(pc, 0, back, slots, FALSE) /\ Goto(pc)
  <2>1. Filled(code, heap, slots)
    BY <1>2, <1>6, NoneFilled, VoidHolds, PutFilled
  <2>2. 0 \in 0 .. Len(heap)
    BY <1>2
  <2>3. QED
    BY <1>2, <1>3, <1>4, <1>7, <2>1, <2>2, EnterRuns
<1>8. QED
  BY <1>4, <1>5, <1>6, <1>7 DEF BeginLoop

LEMMA IterateRuns ==
  ASSUME Runs(text, code, heap, active, pc), status = "running", Iterate
  PROVE  RunsNext
<1>1. Running("for") \/ Running("while")
  BY DEF Iterate
<1>2. /\ pc \in 1 .. Len(code) /\ Here = code[pc] /\ pc \in Nat /\ pc + 1 \in Nat
      /\ Here.target \in Refs /\ Whole(text, code)
      /\ Good(code, heap) /\ Last(active) \in 1 .. Len(heap) /\ Len(heap) \in Nat
      /\ pc + 1 \in 1 .. Len(code) => code[pc + 1].inside = pc
  BY <1>1, LoopParts
<1>3. PICK i \in 1 .. Len(heap) : i = Last(active) /\ heap[i].open = pc
  BY <1>2 DEF Iterate, AtHead
<1>4. CASE Ends("failed")
  BY <1>4, EndsRuns
<1>5. PICK empty : empty = [s \in DOMAIN heap[i].slots |-> Void]
  OBVIOUS
<1>6. PICK slots : slots = IF Here.op = "for" THEN Put(empty, Here.target, Void) ELSE empty
  OBVIOUS
<1>7. CASE InScope(i, Hoist(slots, pc, i)) /\ Goto(pc + 1) /\ UNCHANGED active
  <2>1. Filled(code, heap, slots)
    BY <1>2, <1>5, <1>6, EmptiedFilled, VoidHolds, PutFilled
  <2>2. Filled(code, heap, Hoist(slots, pc, i))
    BY <1>2, <1>3, <2>1, HoistFilled
  <2>3. pc + 1 \in 1 .. Len(code) => heap[Last(active)].open = code[pc + 1].inside
    BY <1>2, <1>3
  <2>4. QED
    BY <1>2, <1>7, <2>2, <2>3, SlotsRuns
<1>8. QED
  BY <1>3, <1>4, <1>5, <1>6, <1>7 DEF Iterate

LEMMA LeaveLoopRuns ==
  ASSUME Runs(text, code, heap, active, pc), status = "running", LeaveLoop
  PROVE  RunsNext
<1>1. (Running("for") \/ Running("while")) /\ AtHead /\ Leave(EndOf(pc) + 1)
  BY DEF LeaveLoop
<1>2. /\ pc \in 1 .. Len(code) /\ Here = code[pc] /\ Here.op \in {"for", "while"} /\ pc \in Nat
      /\ EndOf(pc) + 1 \in Nat
      /\ EndOf(pc) + 1 \in 1 .. Len(code) => code[EndOf(pc) + 1].inside = Here.inside
  BY <1>1, LoopParts
<1>3. heap[Last(active)].open = pc /\ pc # 0
  BY <1>1, <1>2 DEF AtHead
<1>4. \A j : Returns(code, heap, j, Last(active)) => heap[j].open = Here.inside
  BY <1>2, <1>3 DEF Returns
<1>5. QED
  BY <1>1, <1>2, <1>3, <1>4, LeaveRuns

LEMMA EndRuns ==
  ASSUME Runs(text, code, heap, active, pc), status = "running", RunEnd
  PROVE  RunsNext
<1>1. /\ pc \in 1 .. Len(code) /\ Here = code[pc] /\ Here.op = "end" /\ pc \in Nat
      /\ Here.inside \in Nat /\ Good(code, heap) /\ Whole(text, code)
      /\ Last(active) \in 1 .. Len(heap) /\ heap[Last(active)].open = Here.inside
  BY RunParts DEF RunEnd
<1>2. Here.inside # 0
  BY <1>1, WholeParts
<1>3. PICK top \in 1 .. Len(heap) : top = Last(active)
  BY <1>1
<1>4. heap[top].back \in Nat /\ Filled(code, heap, heap[top].slots)
  BY <1>1, <1>3, GoodParts DEF Sound
<1>5. CASE code[Here.inside].op \in {"for", "while"}
  <2>1. Goto(Here.inside) /\ UNCHANGED <<heap, active>>
    BY <1>5 DEF RunEnd
  <2>2. QED
    BY <1>1, <1>3, <1>4, <1>5, <2>1, SlotsRuns
<1>6. CASE code[Here.inside].op \notin {"for", "while"}
  <2>1. PICK back \in Nat : back = heap[Last(active)].back
    BY <1>3, <1>4
  <2>2. Leave(back)
    BY <1>6, <2>1 DEF RunEnd
  <2>3. ASSUME NEW j, Returns(code, heap, j, Last(active)), back \in 1 .. Len(code)
        PROVE  heap[j].open = code[back].inside
    BY <2>1, <2>3 DEF Returns
  <2>4. QED
    BY <1>1, <1>2, <2>2, <2>3, LeaveRuns
<1>7. QED
  BY <1>5, <1>6

LEMMA RunStep ==
  ASSUME Runs(text, code, heap, active, pc), Run
  PROVE  RunsNext
<1>1. status = "running"
  BY DEF Run, RunLet, RunSet, RunFn, RunLambda, RunCall, RunIf, BeginLoop, Iterate, LeaveLoop, RunEnd, EndProgram,
         Fail, Running
<1>2. CASE EndProgram \/ Fail
  BY <1>2, EndsRuns DEF EndProgram, Fail
<1>3. QED
  BY <1>1, <1>2, LetRuns, SetRuns, FnRuns, CallRuns, IfRuns, BeginRuns, IterateRuns, LeaveLoopRuns, EndRuns DEF Run

LEMMA StartRuns ==
  ASSUME text \in Texts, Made(text, code, tables), heap = << >>, active = << >>, StartProgram
  PROVE  RunsNext
<1>1. Whole(text, code)
  <2>1. Len(code) + 1 \notin DOMAIN text
    BY DEF StartProgram, At
  <2>2. QED
    BY <2>1, WholeMade
<1>2. PICK h, a : h = heap /\ a = << >> /\ h = << >>
  OBVIOUS
<1>3. Len(h) = 0 /\ Len(heap) = 0
  BY <1>2, EmptySeq
<1>4. Good(code, h)
  <2>1. h \in Seq([open : Nat, parent : Nat, captured : Nat, back : Nat, slots : {}])
    BY <1>2, EmptySeq
  <2>2. \E X : h \in Scopes(X)
    BY <2>1 DEF Scopes
  <2>3. \A i \in 1 .. Len(h) : FALSE
    BY <1>3
  <2>4. QED
    BY <2>2, <2>3 DEF Good
<1>5. PICK g, b, q : g = heap' /\ b = active' /\ q = pc'
  OBVIOUS
<1>6. PICK filling : filling = Hoist(<< >>, 0, 1)
  OBVIOUS
<1>7. PICK frame : frame = [open |-> 0, parent |-> 0, captured |-> 0, back |-> 0, slots |-> filling]
  OBVIOUS
<1>8. /\ g = Append(h, frame) /\ b = Append(a, 1) /\ q = 1 /\ status' = "running"
      /\ UNCHANGED <<text, tables, code>>
  BY <1>2, <1>3, <1>5, <1>6, <1>7 DEF StartProgram, Enter, Scope
<1>9. 0 \in 0 .. Len(h)
  BY <1>3
<1>10. JoinsHeap(h, frame, g)
  BY <1>4, <1>7, <1>8, <1>9, Joined
<1>11. Len(g) = 1 /\ g[1] = frame /\ 1 \in 1 .. Len(g) /\ Grown(h, g)
  BY <1>3, <1>10 DEF JoinsHeap
<1>12. Filled(code, g, filling)
  <2>1. g[1].open = 0 /\ Len(g) \in Nat
    BY <1>7, <1>11
  <2>2. QED
    BY <1>1, <1>6, <1>11, <2>1, NoneFilled, HoistFilled
<1>13. Good(code, g)
  BY <1>4, <1>7, <1>9, <1>10, <1>12, Entered
<1>14. b \in Seq(1 .. Len(g)) /\ Len(b) = 1 /\ b[1] = 1
  <2>1. a \in Seq(1 .. Len(g)) /\ Len(a) = 0
    BY <1>2, EmptySeq
  <2>2. QED
    BY <1>8, <1>11, <2>1, AppendProperties
<1>15. b # << >> /\ Last(b) = 1
  <2>1. Len(<< >>) = 0 /\ 1 # 0
    BY EmptySeq
  <2>2. b # << >>
    BY <1>14, <2>1
  <2>3. QED
    BY <1>14, <2>2, FrontLast
<1>16. g[1].open = 0
  BY <1>7, <1>11
<1>17. Stack(code, g, b)
  <2>1. \A k \in 2 .. Len(b) : FALSE
    BY <1>14
  <2>2. QED
    BY <1>14, <1>15, <1>16, <2>1 DEF Stack
<1>18. Place(code, g, b, q)
  <2>1. 1 \in 1 .. Len(code) => code[1].inside = 0
    BY <1>1, WholeParts
  <2>2. QED
    BY <1>8, <1>15, <1>16, <2>1 DEF Place
<1>19. Runs(text, code, g, b, q)
  BY <1>1, <1>13, <1>17, <1>18 DEF Runs
<1>20. QED
  BY <1>5, <1>8, <1>19 DEF RunsNext

-----------------------------------------------------------------------------
(***************************************************************************)
(* The whole.                                                              *)
(***************************************************************************)

IInv ==
  \E t, c, ts, h, a, q :
    /\ t = text /\ c = code /\ ts = tables /\ h = heap /\ a = active /\ q = pc
    /\ t \in Texts
    /\ \/ /\ status \in {"translating", "unresolved"}
          /\ Made(t, c, ts) /\ h = << >> /\ a = << >>
       \/ status \in {"running", "done", "failed"} /\ Runs(t, c, h, a, q)

LEMMA Initially ==
  ASSUME Init
  PROVE  IInv
<1>1. PICK t, c, ts, h, a, q : t = text /\ c = code /\ ts = tables /\ h = heap /\ a = active /\ q = pc
  OBVIOUS
<1>2. /\ t \in Texts /\ c = << >> /\ ts = <<Table(0)>> /\ h = << >> /\ a = << >> /\ status = "translating"
  BY <1>1 DEF Init
<1>3. c \in Seq(Codes) /\ Len(c) = 0
  BY <1>2, EmptySeq
<1>4. Len(t) \in Nat
  BY <1>2, TextsAssumption, LenProperties
<1>5. PICK tb : tb = Table(0) /\ tb \in Tabs(c) /\ tb.open = 0
  BY TabBegins
<1>6. ts \in Seq(Tabs(c)) /\ Len(ts) = 1 /\ ts[1] = tb /\ ts # << >>
  BY <1>2, <1>5
<1>7. Last(ts) = tb
  BY <1>6, FrontLast
<1>8. Nest(c, ts)
  BY <1>5, <1>6 DEF Nest
<1>9. Depth(t, 0) = 0
  BY DepthNone
<1>10. \A p \in 1 .. 0 : FALSE
  OBVIOUS
<1>11. Made(t, c, ts)
  BY <1>3, <1>4, <1>5, <1>6, <1>7, <1>8, <1>9, <1>10 DEF Made
<1>12. QED
  BY <1>1, <1>2, <1>11 DEF IInv

LEMMA Inductive ==
  ASSUME IInv, [Next]_vars
  PROVE  IInv'
<1>1. CASE UNCHANGED vars
  BY <1>1 DEF vars, IInv
<1>2. text \in Texts
  BY DEF IInv
<1>3. CASE Translate
  <2>1. status = "translating"
    BY <1>3 DEF Translate, TranslateLet, TranslateSet, TranslateFn, TranslateLambda, TranslateCall, TranslateIf,
                TranslateWhile, TranslateFor, TranslateEnd, Translating
  <2>2. Made(text, code, tables) /\ heap = << >> /\ active = << >>
    BY <2>1 DEF IInv
  <2>3. TranslatedNext
    BY <1>2, <1>3, <2>2, TranslateStep
  <2>4. QED
    BY <1>2, <2>2, <2>3 DEF TranslatedNext, IInv
<1>4. CASE StartProgram
  <2>1. status = "translating"
    BY <1>4 DEF StartProgram
  <2>2. Made(text, code, tables) /\ heap = << >> /\ active = << >>
    BY <2>1 DEF IInv
  <2>3. RunsNext
    BY <1>2, <1>4, <2>2, StartRuns
  <2>4. QED
    BY <1>2, <2>3 DEF RunsNext, IInv
<1>5. CASE Run
  <2>1. status = "running"
    BY <1>5 DEF Run, RunLet, RunSet, RunFn, RunLambda, RunCall, RunIf, BeginLoop, Iterate, LeaveLoop, RunEnd, EndProgram,
         Fail, Running
  <2>2. Runs(text, code, heap, active, pc)
    BY <2>1 DEF IInv
  <2>3. RunsNext
    BY <1>5, <2>2, RunStep
  <2>4. QED
    BY <1>2, <2>3 DEF RunsNext, IInv
<1>6. CASE Exited
  BY <1>1, <1>6 DEF Exited
<1>7. QED
  BY <1>1, <1>3, <1>4, <1>5, <1>6 DEF Next

LEMMA Holding == Spec => []IInv
BY Initially, Inductive, PTL DEF Spec

(* What every state has its types from: the scopes nest as the text does,   *)
(* and the one on top is of the body that the run is in (translator.rs,     *)
(* Environment in interpreter.rs).                                          *)
THEOREM TypeCorrect == Spec => []TypeOK
<1>1. ASSUME IInv
      PROVE  TypeOK
  <2>1. PICK t, c, ts, h, a, q :
          /\ t = text /\ c = code /\ ts = tables /\ h = heap /\ a = active /\ q = pc
          /\ t \in Texts
          /\ \/ /\ status \in {"translating", "unresolved"}
                /\ Made(t, c, ts) /\ h = << >> /\ a = << >>
             \/ status \in {"running", "done", "failed"} /\ Runs(t, c, h, a, q)
    BY <1>1 DEF IInv
  <2>2. t \in Seq(Item) /\ Len(t) \in Nat
    BY <2>1, TextsAssumption, LenProperties
  <2>3. c \in Seq(Codes)
    BY <2>1 DEF Made, Runs, Whole
  <2>4. DOMAIN c = 1 .. Len(c) /\ Len(c) \in Nat
    BY <2>3, LenProperties
  <2>5. \A p \in DOMAIN c : {c[p].target, c[p].other, c[p].param} \subseteq Refs
    BY <2>3, <2>4, CodeFields
  <2>6. CASE status \in {"translating", "unresolved"}
    <3>1. h = << >> /\ a = << >> /\ DOMAIN h = {} /\ a \in Seq(DOMAIN h)
      <4>1. h = << >> /\ a = << >>
        BY <2>1, <2>6
      <4>2. \A S : h \in Seq(S) /\ a \in Seq(S)
        BY <4>1, EmptySeq
      <4>3. Len(h) = 0 /\ DOMAIN h = 1 .. Len(h)
        BY <4>1, <4>2, EmptySeq, LenProperties
      <4>4. QED
        BY <4>1, <4>2, <4>3
    <3>2. QED
      BY <2>1, <2>2, <2>5, <2>6, <3>1 DEF TypeOK
  <2>7. CASE status \in {"running", "done", "failed"}
    <3>1. Good(c, h) /\ Stack(c, h, a) /\ Place(c, h, a, q) /\ Len(c) <= Len(t)
      BY <2>1, <2>7 DEF Runs, Whole
    <3>2. DOMAIN h = 1 .. Len(h) /\ Len(h) \in Nat
      BY <3>1, GoodParts
    <3>3. ASSUME NEW i \in 1 .. Len(h)
          PROVE  h[i].open \in 0 .. Len(t) /\ {h[i].parent, h[i].captured} \subseteq 0 .. i
      <4>1. Sound(c, h, i) /\ h[i].open \in Nat
        BY <3>1, GoodParts
      <4>2. h[i].open \in 0 .. Len(t)
        BY <2>2, <2>4, <3>1, <4>1 DEF Sound
      <4>3. i \in Nat /\ \A k \in 0 .. i - 1 : k \in 0 .. i
        OBVIOUS
      <4>4. QED
        BY <4>1, <4>2, <4>3 DEF Sound
    <3>4. a \in Seq(DOMAIN h)
      BY <3>1, <3>2 DEF Stack
    <3>5. q \in DOMAIN c => h[Last(a)].open = c[q].inside \/ h[Last(a)].open = q
      BY <2>4, <3>1 DEF Place
    <3>6. QED
      BY <2>1, <2>2, <2>5, <3>2, <3>3, <3>4, <3>5 DEF TypeOK, Here
  <2>8. QED
    BY <2>1, <2>6, <2>7
<1>2. QED
  BY <1>1, Holding, PTL

(* What is known of a reference that the run follows. *)
LEMMA Follows ==
  ASSUME IInv, NEW r \in Followed
  PROVE  /\ status = "running" /\ pc \in 1 .. Len(code) /\ Running(Here.op) /\ Here = code[pc]
         /\ Runs(text, code, heap, active, pc) /\ Last(active) \in 1 .. Len(heap)
         /\ r \in Refs /\ r # NoRef
         /\ Target(r.depth) \in 1 .. Len(heap) /\ heap[Target(r.depth)].open = DeclIn(code, r.binding)
<1>1. status = "running" /\ pc \in DOMAIN code /\ r # NoRef
  BY DEF Followed
<1>2. Runs(text, code, heap, active, pc)
  BY <1>1 DEF IInv
<1>3. Running(Here.op)
  BY <1>1 DEF Running
<1>4. /\ pc \in 1 .. Len(code) /\ Here = code[pc]
      /\ Here.target \in Refs /\ Here.other \in Refs
      /\ Good(code, heap) /\ Whole(text, code)
      /\ Last(active) \in 1 .. Len(heap)
      /\ heap[Last(active)].open = Here.inside \/ (heap[Last(active)].open = pc /\ Here.op \in {"for", "while"})
  BY <1>1, <1>2, <1>3, RunParts
<1>5. Line(code, pc)
  BY <1>4 DEF Whole
<1>6. PICK top \in 1 .. Len(heap) : top = Last(active)
  BY <1>4
<1>7. r \in Refs /\ Way(code, heap[top].open, r)
  <2>1. CASE r = Here.target /\ Here.op \in {"set", "call"}
    BY <1>1, <1>4, <1>5, <1>6, <2>1 DEF Line
  <2>2. CASE r = Here.other /\ Reads
    <3>1. Way(code, Base(code, pc), r)
      BY <1>1, <1>4, <1>5, <2>2 DEF Line
    <3>2. Base(code, pc) = heap[top].open
      BY <1>4, <1>6, <2>2 DEF Base, Reads, AtHead
    <3>3. QED
      BY <1>4, <2>2, <3>1, <3>2
  <2>3. QED
    BY <1>1, <2>1, <2>2 DEF Followed
<1>8. Target(r.depth) \in 1 .. Len(heap) /\ heap[Target(r.depth)].open = DeclIn(code, r.binding)
  BY <1>4, <1>6, <1>7, Lands
<1>9. QED
  BY <1>1, <1>2, <1>3, <1>4, <1>7, <1>8

(* Up as many scopes as the translator counted is a scope of the body that  *)
(* declares the name, wherever a function is called from (translator.rs,    *)
(* Environment::get and set in interpreter.rs).                             *)
THEOREM Landing == Spec => []HopsLand
<1>1. ASSUME IInv
      PROVE  HopsLand
  <2>1. SUFFICES ASSUME NEW r \in Followed
                 PROVE  Target(r.depth) # 0 /\ heap[Target(r.depth)].open = DeclaredIn(r.binding)
    BY DEF HopsLand
  <2>2. Target(r.depth) \in 1 .. Len(heap) /\ heap[Target(r.depth)].open = DeclIn(code, r.binding)
    BY <1>1, Follows
  <2>3. DeclaredIn(r.binding) = DeclIn(code, r.binding)
    BY DEF DeclaredIn, DeclIn
  <2>4. QED
    BY <2>2, <2>3
<1>2. QED
  BY <1>1, Holding, PTL

-----------------------------------------------------------------------------
(***************************************************************************)
(* Every name of a scope has a slot of its own.  The declarations, and how *)
(* the tables list them, of texts that declare no name twice in a scope.   *)
(***************************************************************************)

(* What references are to, and its slot.                                    *)
Decls(c) ==
  {b \in [at : 1 .. Len(c), role : {"own", "self", "param"}] :
     c[b.at].op \in IF b.role = "own" THEN {"let", "fn", "lambda", "for"} ELSE {"fn", "lambda"}}

SlotOf(c, b) ==
  IF b.role = "self" THEN 0 ELSE IF b.role = "param" THEN c[b.at].param.slot ELSE c[b.at].target.slot

ToDecl(c, r) == r.binding \in Decls(c) /\ r.slot = SlotOf(c, r.binding)

(* A table gives each name a slot of its own, and lists the declarations    *)
(* of B that are in its body.                                               *)
Tidy(c, tb, B) ==
  /\ \A n \in DOMAIN tb.symbols :
       /\ tb.symbols[n].slot < Cardinality(DOMAIN tb.symbols)
       /\ n \in Nat => tb.symbols[n].binding.at = n
       /\ ToDecl(c, tb.symbols[n]) \/ (tb.symbols[n].binding.role = "lambda" /\ n \in Nat)
  /\ \A m, n \in DOMAIN tb.symbols : tb.symbols[m].slot = tb.symbols[n].slot => m = n
  /\ \A b \in B : DeclIn(c, b) = tb.open => \E n \in DOMAIN tb.symbols : tb.symbols[n].binding = b

Neatly(c, ts, B) ==
  \A i \in 1 .. Len(ts) : Tidy(c, ts[i], B) /\ \A j \in 1 .. i - 1 : ts[j].open < ts[i].open

LEMMA DeclParts ==
  ASSUME NEW c
  PROVE  /\ \A b \in Decls(c) :
              /\ b.at \in 1 .. Len(c) /\ b.role \in {"own", "self", "param"} /\ b = Binding(b.at, b.role)
              /\ b.role = "own" => c[b.at].op \in {"let", "fn", "lambda", "for"}
              /\ b.role # "own" => c[b.at].op \in {"fn", "lambda"}
         /\ \A at \in 1 .. Len(c) :
              /\ c[at].op \in {"let", "fn", "lambda", "for"} => Binding(at, "own") \in Decls(c)
              /\ c[at].op \in {"fn", "lambda"} =>
                   Binding(at, "self") \in Decls(c) /\ Binding(at, "param") \in Decls(c)
BY DEF Decls, Binding

LEMMA DeclsStay ==
  ASSUME NEW c, NEW e, Longer(c, e)
  PROVE  /\ \A b \in Decls(c) : /\ b \in Decls(e)
                                /\ DeclIn(e, b) = DeclIn(c, b) /\ SlotOf(e, b) = SlotOf(c, b)
         /\ \A b \in Decls(e) : b.at \in 1 .. Len(c) => b \in Decls(c)
         /\ \A r : ToDecl(c, r) => ToDecl(e, r)
<1>1. ASSUME NEW b \in Decls(c)
      PROVE  b \in Decls(e) /\ DeclIn(e, b) = DeclIn(c, b) /\ SlotOf(e, b) = SlotOf(c, b)
  <2>1. b.at \in 1 .. Len(c) /\ b.at \in 1 .. Len(e) /\ e[b.at] = c[b.at]
    BY DeclParts DEF Longer
  <2>2. b \in Decls(e)
    BY <2>1 DEF Decls
  <2>3. QED
    BY <2>1, <2>2, DeclStays DEF SlotOf
<1>2. ASSUME NEW b \in Decls(e), b.at \in 1 .. Len(c)
      PROVE  b \in Decls(c)
  BY <1>2 DEF Decls, Longer
<1>3. QED
  BY <1>1, <1>2 DEF ToDecl

LEMMA TidyStays ==
  ASSUME NEW c, NEW e, Longer(c, e), NEW tb, NEW B, B \subseteq Decls(c), Tidy(c, tb, B)
  PROVE  Tidy(e, tb, B)
<1>1. \A b \in B : DeclIn(e, b) = DeclIn(c, b)
  BY DeclsStay
<1>2. \A r : ToDecl(c, r) => ToDecl(e, r)
  BY DeclsStay
<1>3. QED
  BY <1>1, <1>2 DEF Tidy

(* A name that the table has not: its slot is the next.                     *)
LEMMA TidyDeclares ==
  ASSUME NEW c, NEW tb \in Tabs(c), NEW B, Tidy(c, tb, B),
         NEW name, name \notin DOMAIN tb.symbols, NEW b, name \in Nat => b.at = name,
         NEW symbol, symbol = [slot |-> NextSlot(tb), binding |-> b],
         ToDecl(c, symbol) \/ (b.role = "lambda" /\ name \in Nat)
  PROVE  Tidy(c, WithSymbol(tb, name, symbol), B \cup {b})
<1>1. PICK old, D : old = tb.symbols /\ D = DOMAIN old
  OBVIOUS
<1>2. tb = [open |-> tb.open, symbols |-> old] /\ IsFiniteSet(D) /\ \A n \in D : old[n] \in Symbols(c)
  BY <1>1, TabParts
<1>3. PICK ub, new : ub = WithSymbol(tb, name, symbol) /\ new = ub.symbols
  OBVIOUS
<1>4. ub.open = tb.open /\ new = [n \in D \cup {name} |-> IF n = name THEN symbol ELSE old[n]]
  BY <1>1, <1>2, <1>3 DEF WithSymbol
<1>5. PICK k \in Nat : k = Cardinality(D) /\ NextSlot(tb) = k /\ Cardinality(D \cup {name}) = k + 1
  BY <1>1, <1>2, FS_CardinalityType, FS_AddElement DEF NextSlot
<1>6. /\ DOMAIN new = D \cup {name} /\ new[name] = symbol /\ \A n \in D : n # name /\ new[n] = old[n]
  BY <1>1, <1>4
<1>7. symbol.slot = k /\ symbol.binding = b
  BY <1>5
<1>8. \A n \in D : old[n].slot \in Nat /\ old[n].slot < k
  BY <1>1, <1>2, <1>5 DEF Tidy, Symbols
<1>9. ASSUME NEW n \in DOMAIN new
      PROVE  /\ new[n].slot < k + 1
             /\ n \in Nat => new[n].binding.at = n
             /\ ToDecl(c, new[n]) \/ (new[n].binding.role = "lambda" /\ n \in Nat)
  <2>1. CASE n = name
    BY <1>6, <1>7, <2>1
  <2>2. CASE n # name
    <3>1. n \in D /\ new[n] = old[n] /\ old[n].slot < k /\ old[n].slot \in Nat
      BY <1>6, <1>8, <2>2
    <3>2. /\ n \in Nat => old[n].binding.at = n
          /\ ToDecl(c, old[n]) \/ (old[n].binding.role = "lambda" /\ n \in Nat)
      BY <1>1, <3>1 DEF Tidy
    <3>3. QED
      BY <3>1, <3>2
  <2>3. QED
    BY <2>1, <2>2
<1>10. ASSUME NEW m \in DOMAIN new, NEW n \in DOMAIN new, new[m].slot = new[n].slot
       PROVE  m = n
  <2>1. \A l \in DOMAIN new : l = name \/ (l \in D /\ new[l] = old[l] /\ old[l].slot < k /\ old[l].slot \in Nat)
    BY <1>6, <1>8
  <2>2. CASE m \in D /\ n \in D
    BY <1>1, <1>6, <1>10, <2>2 DEF Tidy
  <2>3. QED
    BY <1>6, <1>7, <1>10, <2>1, <2>2
<1>11. ASSUME NEW a \in B \cup {b}, DeclIn(c, a) = ub.open
       PROVE  \E n \in DOMAIN new : new[n].binding = a
  <2>1. CASE a = b
    BY <1>6, <1>7, <2>1
  <2>2. CASE a # b
    <3>1. PICK n \in D : old[n].binding = a
      BY <1>1, <1>4, <1>11, <2>2 DEF Tidy
    <3>2. QED
      BY <1>6, <3>1
  <2>3. QED
    BY <2>1, <2>2
<1>12. Cardinality(DOMAIN new) = k + 1
  BY <1>5, <1>6
<1>13. Tidy(c, ub, B \cup {b})
  BY <1>3, <1>9, <1>10, <1>11, <1>12 DEF Tidy
<1>14. QED
  BY <1>3, <1>13

(* Declare changes the innermost table only. *)
LEMMA DeclareShape ==
  ASSUME NEW c, NEW ts, Nest(c, ts), NEW name, NEW b, NEW us, us = Declare(ts, name, b)
  PROVE  /\ Len(us) = Len(ts) /\ Len(ts) \in Nat /\ Len(ts) \in 1 .. Len(ts)
         /\ us[Len(ts)] = WithSymbol(ts[Len(ts)], name, [slot |-> NextSlot(ts[Len(ts)]), binding |-> b])
         /\ \A i \in 1 .. Len(ts) : i # Len(ts) => us[i] = ts[i]
<1>1. ts \in Seq(Tabs(c)) /\ ts # << >>
  BY DEF Nest
<1>2. PICK n \in Nat : n = Len(ts) /\ n >= 1 /\ Last(ts) = ts[n]
  BY NestTop
<1>3. PICK tb, ub : tb = ts[n] /\ ub = WithSymbol(tb, name, [slot |-> NextSlot(tb), binding |-> b])
  OBVIOUS
<1>4. PICK front : front = Front(ts) /\ front \in Seq(Tabs(c)) /\ Len(front) = n - 1 /\ \A i \in 1 .. n - 1 : front[i] = ts[i]
  BY <1>1, <1>2, FrontLast
<1>5. us = Append(front, ub)
  BY <1>2, <1>3, <1>4 DEF Declare, WithSymbol
<1>6. front \in Seq(Tabs(c) \cup {ub}) /\ ub \in Tabs(c) \cup {ub}
  BY <1>4, SeqMonotonic
<1>7. /\ Len(us) = Len(front) + 1 /\ us[Len(front) + 1] = ub
      /\ \A i \in 1 .. Len(front) : us[i] = front[i]
  BY <1>5, <1>6, AppendProperties
<1>8. (n - 1) + 1 = n /\ n \in 1 .. n /\ \A i \in 1 .. n : i = n \/ i \in 1 .. n - 1
  BY <1>2
<1>9. QED
  BY <1>2, <1>3, <1>4, <1>7, <1>8

LEMMA NeatlyDeclares ==
  ASSUME NEW c, NEW ts, Nest(c, ts), NEW B, Neatly(c, ts, B),
         NEW name, name \notin DOMAIN Last(ts).symbols, NEW b, name \in Nat => b.at = name,
         DeclIn(c, b) = Last(ts).open,
         ToDecl(c, [slot |-> NextSlot(Last(ts)), binding |-> b]) \/ (b.role = "lambda" /\ name \in Nat),
         NEW us, us = Declare(ts, name, b), Alike(ts, us)
  PROVE  Neatly(c, us, B \cup {b})
<1>1. PICK n \in Nat : n = Len(ts) /\ n \in 1 .. n /\ Last(ts) = ts[n]
  BY NestTop
<1>2. PICK tb \in Tabs(c) : tb = ts[n]
  BY <1>1, NestTop
<1>3. PICK symbol : symbol = [slot |-> NextSlot(tb), binding |-> b]
  OBVIOUS
<1>4. Len(us) = n /\ us[n] = WithSymbol(tb, name, symbol) /\ \A i \in 1 .. n : i # n => us[i] = ts[i]
  BY <1>1, <1>2, <1>3, DeclareShape
<1>5. Tidy(c, tb, B) /\ \A j \in 1 .. n - 1 : ts[j].open < ts[n].open
  BY <1>1, <1>2 DEF Neatly
<1>6. Tidy(c, us[n], B \cup {b})
  <2>1. name \notin DOMAIN tb.symbols
    BY <1>1, <1>2
  <2>2. ToDecl(c, symbol) \/ (b.role = "lambda" /\ name \in Nat)
    BY <1>1, <1>2, <1>3
  <2>3. Tidy(c, tb, B)
    BY <1>5
  <2>4. Tidy(c, WithSymbol(tb, name, symbol), B \cup {b})
    BY <1>3, <2>1, <2>2, <2>3, TidyDeclares
  <2>5. QED
    BY <1>4, <2>4
<1>7. ASSUME NEW i \in 1 .. n
      PROVE  Tidy(c, us[i], B \cup {b}) /\ \A j \in 1 .. i - 1 : us[j].open < us[i].open
  <2>1. \A j \in 1 .. i - 1 : j \in 1 .. n
    OBVIOUS
  <2>2. \A j \in 1 .. i - 1 : us[j].open < us[i].open
    BY <1>1, <2>1 DEF Neatly, Alike
  <2>3. CASE i = n
    BY <1>6, <2>2, <2>3
  <2>4. CASE i # n
    <3>1. Tidy(c, ts[i], B) /\ us[i] = ts[i]
      BY <1>1, <1>4, <2>4 DEF Neatly
    <3>2. i \in 1 .. n - 1 /\ ts[i].open \in Nat /\ ts[n].open \in Nat
      BY <1>1, <2>4, NestTop
    <3>3. DeclIn(c, b) # ts[i].open
      BY <1>1, <1>5, <3>2
    <3>4. QED
      BY <2>2, <3>1, <3>3 DEF Tidy
  <2>5. QED
    BY <2>3, <2>4
<1>8. QED
  BY <1>4, <1>7 DEF Neatly

LEMMA NeatlyBegins ==
  ASSUME NEW c, NEW ts, Nest(c, ts), NEW B, Neatly(c, ts, B), NEW at \in Nat,
         \A i \in 1 .. Len(ts) : ts[i].open < at, \A b \in B : DeclIn(c, b) # at,
         NEW us, us = Append(ts, Table(at))
  PROVE  Neatly(c, us, B)
<1>1. PICK n \in Nat : n = Len(ts) /\ ts \in Seq(Tabs(c))
  BY NestTop
<1>2. PICK tb : tb = Table(at) /\ tb \in Tabs(c) /\ tb.open = at
  BY TabBegins
<1>3. Len(us) = n + 1 /\ us[n + 1] = tb /\ \A i \in 1 .. n : us[i] = ts[i]
  BY <1>1, <1>2, AppendProperties
<1>4. DOMAIN tb.symbols = {}
  BY <1>2 DEF Table
<1>5. Tidy(c, tb, B)
  BY <1>2, <1>4 DEF Tidy
<1>6. ASSUME NEW i \in 1 .. n + 1
      PROVE  Tidy(c, us[i], B) /\ \A j \in 1 .. i - 1 : us[j].open < us[i].open
  <2>1. CASE i = n + 1
    <3>1. i - 1 = n
      BY <2>1
    <3>2. QED
      BY <1>1, <1>2, <1>3, <1>5, <2>1, <3>1
  <2>2. CASE i # n + 1
    <3>1. i \in 1 .. n /\ \A j \in 1 .. i - 1 : j \in 1 .. n
      BY <2>2
    <3>2. QED
      BY <1>1, <1>3, <3>1 DEF Neatly
  <2>3. QED
    BY <2>1, <2>2
<1>7. QED
  BY <1>3, <1>6 DEF Neatly

LEMMA NeatlyEnds ==
  ASSUME NEW c, NEW ts, Nest(c, ts), Len(ts) >= 2, NEW B, Neatly(c, ts, B)
  PROVE  Neatly(c, Front(ts), B)
<1>1. PICK n, us : n \in Nat /\ n = Len(ts) /\ us = Front(ts)
  BY NestTop
<1>2. Len(us) = n - 1 /\ \A i \in 1 .. n - 1 : us[i] = ts[i]
  BY <1>1, NestEnds
<1>3. \A i \in 1 .. n - 1 : i \in 1 .. n /\ \A j \in 1 .. i - 1 : j \in 1 .. n - 1
  BY <1>1
<1>4. QED
  BY <1>1, <1>2, <1>3 DEF Neatly

LEMMA NeatlyStays ==
  ASSUME NEW c, NEW e, Longer(c, e), NEW ts, NEW B, B \subseteq Decls(c), Neatly(c, ts, B)
  PROVE  Neatly(e, ts, B)
BY TidyStays DEF Neatly

LEMMA NeatlyLess ==
  ASSUME NEW c, NEW ts, NEW B, NEW A, Neatly(c, ts, B), A \subseteq B
  PROVE  Neatly(c, ts, A)
BY DEF Neatly, Tidy

(* A declared name is found where it was declared. *)
LEMMA DeclaredIs ==
  ASSUME NEW c, NEW ts, Nest(c, ts), NEW name, NEW b, NEW us, us = Declare(ts, name, b)
  PROVE  Declared(us, name) = [slot |-> NextSlot(Last(ts)), depth |-> 0, binding |-> b]
<1>1. PICK n \in Nat : n = Len(ts) /\ n \in 1 .. n /\ Last(ts) = ts[n]
  BY NestTop
<1>2. PICK tb \in Tabs(c) : tb = ts[n]
  BY <1>1, NestTop
<1>3. PICK symbol : symbol = [slot |-> NextSlot(tb), binding |-> b]
  OBVIOUS
<1>4. Len(us) = n /\ us[n] = WithSymbol(tb, name, symbol)
  BY <1>1, <1>2, <1>3, DeclareShape
<1>5. name \in DOMAIN us[n].symbols /\ us[n].symbols[name] = symbol
  BY <1>2, <1>4, TabParts DEF WithSymbol
<1>6. PICK hs : hs = Holders(us, name)
  OBVIOUS
<1>7. DOMAIN us = 1 .. n
  <2>1. PICK front : front = Front(ts) /\ front \in Seq(Tabs(c))
    BY FrontLast DEF Nest
  <2>2. \E ub : us = Append(front, ub)
    BY <2>1 DEF Declare
  <2>3. PICK ub : us = Append(front, ub)
    BY <2>2
  <2>4. front \in Seq(Tabs(c) \cup {ub}) /\ ub \in Tabs(c) \cup {ub}
    BY <2>1, SeqMonotonic
  <2>5. us \in Seq(Tabs(c) \cup {ub})
    BY <2>3, <2>4, AppendProperties
  <2>6. QED
    BY <1>4, <2>5, LenProperties
<1>8. hs \subseteq 1 .. n /\ n \in hs
  BY <1>1, <1>5, <1>6, <1>7 DEF Holders
<1>9. Max(hs) = n
  <2>1. Max(hs) \in hs /\ \A x \in hs : Max(hs) >= x
    BY <1>8, Greatest
  <2>2. Max(hs) \in 1 .. n /\ Max(hs) >= n
    BY <1>8, <2>1
  <2>3. QED
    BY <2>2
<1>10. Resolve(us, name) = [slot |-> symbol.slot, depth |-> n - n, binding |-> symbol.binding]
  BY <1>4, <1>5, <1>6, <1>8, <1>9 DEF Resolve
<1>11. QED
  BY <1>1, <1>2, <1>3, <1>10 DEF Declared

(* What a name is resolved to is a declaration of a body around.            *)
Found(c, ts, name, r) ==
  /\ ToDecl(c, r)
  /\ \E i \in 1 .. Len(ts) : name \in DOMAIN ts[i].symbols /\ DeclIn(c, r.binding) = ts[i].open

LEMMA ResolvesTrue ==
  ASSUME NEW c, NEW ts, Nest(c, ts), NEW B, Neatly(c, ts, B), NEW name, name \notin Nat,
         NEW r, r = Resolve(ts, name), r # NoRef
  PROVE  Found(c, ts, name, r)
<1>1. PICK n \in Nat : n = Len(ts) /\ DOMAIN ts = 1 .. n
  BY NestTop, LenProperties
<1>2. PICK hs, i : hs = Holders(ts, name) /\ i = Max(hs)
  OBVIOUS
<1>3. hs # {} /\ hs \subseteq 1 .. n
  BY <1>1, <1>2 DEF Holders, Resolve
<1>4. i \in 1 .. n /\ name \in DOMAIN ts[i].symbols
  <2>1. i \in hs
    BY <1>2, <1>3, Greatest
  <2>2. QED
    BY <1>2, <1>3, <2>1 DEF Holders
<1>5. r.slot = ts[i].symbols[name].slot /\ r.binding = ts[i].symbols[name].binding
  BY <1>2, <1>3 DEF Resolve
<1>6. ts[i] \in Tabs(c) /\ Tidy(c, ts[i], B)
  BY <1>1, <1>4, NestTop DEF Neatly
<1>7. ToDecl(c, ts[i].symbols[name])
  BY <1>4, <1>6 DEF Tidy
<1>8. DeclIn(c, r.binding) = ts[i].open
  BY <1>4, <1>5, <1>6, TabParts
<1>9. QED
  BY <1>1, <1>4, <1>5, <1>7, <1>8 DEF ToDecl, Found

-----------------------------------------------------------------------------
(***************************************************************************)
(* An item more, of texts that declare no name twice in a scope.           *)
(***************************************************************************)

(* What an item refers to, and what it declares. *)
Refers(c, p) ==
  /\ c[p].other # NoRef => ToDecl(c, c[p].other) /\ (c[p].op = "while" => DeclIn(c, c[p].other.binding) # p)
  /\ c[p].op \in {"set", "call"} /\ c[p].target # NoRef => ToDecl(c, c[p].target)
  /\ c[p].op \in {"let", "fn", "lambda", "for"} =>
       c[p].target.binding = Binding(p, "own") /\ c[p].target.slot \in Nat
  /\ c[p].op \in {"fn", "lambda"} => c[p].param.binding = Binding(p, "param") /\ c[p].param.slot \in Nat

(* No two declarations of a body have the same slot. *)
Apart(c) ==
  \A a, b \in Decls(c) : DeclIn(c, a) = DeclIn(c, b) /\ SlotOf(c, a) = SlotOf(c, b) => a = b

Sorted(c) == Apart(c) /\ \A p \in 1 .. Len(c) : Refers(c, p)

Neat(c, ts) == Sorted(c) /\ Neatly(c, ts, Decls(c))

LEMMA RefersStays ==
  ASSUME NEW c, NEW e, Longer(c, e), NEW p \in 1 .. Len(c), Refers(c, p)
  PROVE  Refers(e, p)
<1>1. e[p] = c[p]
  BY DEF Longer
<1>2. c[p].other # NoRef => ToDecl(e, c[p].other) /\ DeclIn(e, c[p].other.binding) = DeclIn(c, c[p].other.binding)
  BY DeclsStay DEF Refers, ToDecl
<1>3. c[p].op \in {"set", "call"} /\ c[p].target # NoRef => ToDecl(e, c[p].target)
  BY DeclsStay DEF Refers
<1>4. QED
  BY <1>1, <1>2, <1>3 DEF Refers

(* What the tables list has slots of its own. *)
LEMMA ApartMade ==
  ASSUME NEW c, NEW e, Longer(c, e), Apart(c), NEW us, Neatly(e, us, Decls(e)),
         \A b \in Decls(e) : b \in Decls(c) \/ \E i \in 1 .. Len(us) : us[i].open = DeclIn(e, b)
  PROVE  Apart(e)
<1>1. ASSUME NEW a \in Decls(e), NEW b \in Decls(e), DeclIn(e, a) = DeclIn(e, b), SlotOf(e, a) = SlotOf(e, b)
      PROVE  a = b
  <2>1. CASE a \in Decls(c) /\ b \in Decls(c)
    BY <1>1, <2>1, DeclsStay DEF Apart
  <2>2. ASSUME NEW i \in 1 .. Len(us), us[i].open = DeclIn(e, a)
        PROVE  a = b
    <3>1. Tidy(e, us[i], Decls(e))
      BY DEF Neatly
    <3>2. PICK m \in DOMAIN us[i].symbols : us[i].symbols[m].binding = a
      BY <2>2, <3>1 DEF Tidy
    <3>3. PICK n \in DOMAIN us[i].symbols : us[i].symbols[n].binding = b
      BY <1>1, <2>2, <3>1 DEF Tidy
    <3>4. a.role # "lambda" /\ b.role # "lambda"
      BY DeclParts
    <3>5. us[i].symbols[m].slot = SlotOf(e, a) /\ us[i].symbols[n].slot = SlotOf(e, b)
      BY <3>1, <3>2, <3>3, <3>4 DEF Tidy, ToDecl
    <3>6. m = n
      BY <1>1, <3>1, <3>5 DEF Tidy
    <3>7. QED
      BY <3>2, <3>3, <3>6
  <2>3. QED
    BY <1>1, <2>1, <2>2
<1>2. QED
  BY <1>1 DEF Apart

(* The item in work, and the declarations that it brings. *)
LEMMA WorkingNeat ==
  ASSUME NEW t, NEW c, NEW ts, NEW item, NEW e, Works(t, c, ts, item, e), Neat(c, ts)
  PROVE  /\ Longer(c, e) /\ Neatly(e, ts, Decls(c))
         /\ \A b \in Decls(e) : b \in Decls(c) \/ (b.at = Len(c) + 1 /\ b = Binding(Len(c) + 1, b.role))
         /\ \A b \in Decls(c) : DeclIn(e, b) # Len(c) + 1
         /\ \A i \in 1 .. Len(ts) : ts[i].open < Len(c) + 1
         /\ Len(c) + 1 \notin DOMAIN Last(ts).symbols
         /\ t[Len(c) + 1].name \notin Nat /\ t[Len(c) + 1].other \notin Nat
<1>1. t \in Texts /\ Made(t, c, ts) /\ Len(c) + 1 \in 1 .. Len(t) /\ e = Append(c, item)
  BY DEF Works
<1>2. PICK n \in Nat : n = Len(c) /\ c \in Seq(Codes) /\ Nest(c, ts)
  BY <1>1, MadeParts
<1>3. Longer(c, e) /\ Len(e) = n + 1
  BY <1>1, <1>2, OneMore
<1>4. Neatly(e, ts, Decls(c))
  BY <1>3, NeatlyStays DEF Neat
<1>5. ASSUME NEW b \in Decls(e)
      PROVE  b \in Decls(c) \/ (b.at = n + 1 /\ b = Binding(n + 1, b.role))
  <2>1. b.at \in 1 .. n + 1 /\ b = Binding(b.at, b.role)
    BY <1>3, DeclParts
  <2>2. b.at = n + 1 \/ b.at \in 1 .. n
    BY <2>1
  <2>3. QED
    BY <1>2, <1>3, <2>1, <2>2, DeclsStay
<1>6. ASSUME NEW b \in Decls(c)
      PROVE  DeclIn(e, b) # n + 1
  <2>1. b.at \in 1 .. n /\ DeclIn(e, b) = DeclIn(c, b)
    BY <1>2, <1>3, DeclParts, DeclsStay
  <2>2. Line(c, b.at)
    BY <1>1, <1>2, <2>1 DEF Made
  <2>3. c[b.at].inside \in 0 .. b.at - 1
    BY <2>2 DEF Line
  <2>4. QED
    BY <2>1, <2>3 DEF DeclIn
<1>7. PICK k \in Nat : k = Len(ts) /\ k \in 1 .. k /\ Last(ts) = ts[k]
  BY <1>2, NestTop
<1>8. \A i \in 1 .. k : ts[i].open < n + 1
  <2>1. \A i \in 1 .. k : i = 1 \/ i \in 2 .. k
    BY <1>7
  <2>2. \A i \in 2 .. k : ts[i].open \in 1 .. n
    BY <1>2, <1>7 DEF Nest
  <2>3. ts[1].open = 0
    BY <1>2 DEF Nest
  <2>4. QED
    BY <2>1, <2>2, <2>3
<1>9. n + 1 \notin DOMAIN Last(ts).symbols
  <2>1. SUFFICES ASSUME n + 1 \in DOMAIN Last(ts).symbols
                 PROVE  FALSE
    OBVIOUS
  <2>2. Last(ts) \in Tabs(c) /\ Tidy(c, Last(ts), Decls(c))
    BY <1>2, <1>7, NestTop DEF Neat, Neatly
  <2>3. Last(ts).symbols[n + 1].binding.at = n + 1
    BY <2>1, <2>2 DEF Tidy
  <2>4. Last(ts).symbols[n + 1] \in Symbols(c)
    BY <2>1, <2>2, TabParts
  <2>5. n + 1 \in 1 .. n
    BY <1>2, <2>3, <2>4 DEF Symbols
  <2>6. QED
    BY <2>5
<1>10. t[n + 1] \in Item
  BY <1>1, <1>2, TextsAssumption, ElementOfSeq
<1>11. t[n + 1].name \notin Nat /\ t[n + 1].other \notin Nat
  BY <1>10, NameAssumption DEF Item
<1>12. QED
  BY <1>2, <1>3, <1>4, <1>5, <1>6, <1>7, <1>8, <1>9, <1>11

LEMMA NeatMore ==
  ASSUME NEW t, NEW c, NEW ts, NEW item, NEW e, Works(t, c, ts, item, e), Neat(c, ts),
         NEW us, NEW B, Neatly(e, us, B),
         \A b \in Decls(e) : b \in B /\ (b \in Decls(c) \/ \E i \in 1 .. Len(us) : us[i].open = DeclIn(e, b)),
         Refers(e, Len(c) + 1)
  PROVE  Neat(e, us)
<1>1. Longer(c, e)
  BY WorkingNeat
<1>2. Neatly(e, us, Decls(e))
  <2>1. Decls(e) \subseteq B
    OBVIOUS
  <2>2. QED
    BY <2>1, NeatlyLess
<1>3. Apart(e)
  BY <1>1, <1>2, ApartMade DEF Neat, Sorted
<1>4. ASSUME NEW p \in 1 .. Len(e)
      PROVE  Refers(e, p)
  <2>1. PICK n \in Nat : n = Len(c) /\ Len(e) = n + 1
    BY <1>1, Working DEF Longer
  <2>2. p = n + 1 \/ p \in 1 .. n
    BY <2>1
  <2>3. QED
    BY <1>1, <2>1, <2>2, RefersStays DEF Neat, Sorted
<1>5. QED
  BY <1>2, <1>3, <1>4 DEF Neat, Sorted

(* The name of a let or a function, in the scope around it.                 *)
OwnIs(e, c, ts, us, item, own) ==
  /\ Nest(e, us) /\ Alike(ts, us) /\ Last(us).open = Last(ts).open
  /\ Neatly(e, us, Decls(c) \cup {own})
  /\ item.target.binding = own /\ item.target.slot \in Nat
  /\ DeclIn(e, own) = Last(ts).open

LEMMA OwnDeclared ==
  ASSUME NEW t, NEW c, NEW ts, NEW item, NEW e, Works(t, c, ts, item, e), Neat(c, ts),
         item.op \in {"let", "fn", "lambda"},
         NEW name, name = t[Len(c) + 1].name, name \notin DOMAIN Last(ts).symbols,
         NEW us, us = Declare(ts, name, Binding(Len(c) + 1, "own")),
         item.target = Declared(us, name)
  PROVE  OwnIs(e, c, ts, us, item, Binding(Len(c) + 1, "own"))
<1>1. PICK at \in 1 .. Len(e) : at = Len(c) + 1 /\ e[at] = item /\ Nest(e, ts) /\ name \in Names
  BY Working
<1>2. PICK b : b = Binding(at, "own")
  OBVIOUS
<1>3. b.at = at /\ b.role = "own" /\ b \in Decls(e)
  BY <1>1, <1>2, DeclParts DEF Binding
<1>4. DeclIn(e, b) = Last(ts).open
  BY <1>1, <1>3, Working
<1>5. Nest(e, us) /\ Alike(ts, us) /\ Last(us).open = Last(ts).open
  <2>1. "own" \in Roles
    BY DEF Roles
  <2>2. QED
    BY <1>1, <1>2, <1>4, <2>1, DeclaresHere
<1>6. item.target = [slot |-> NextSlot(Last(ts)), depth |-> 0, binding |-> b]
  BY <1>1, <1>2, DeclaredIs
<1>7. NextSlot(Last(ts)) \in Nat
  <2>1. Last(ts) \in Tabs(e)
    BY <1>1, NestTop
  <2>2. QED
    BY <2>1, TabParts, FS_CardinalityType DEF NextSlot
<1>8. ToDecl(e, [slot |-> NextSlot(Last(ts)), binding |-> b])
  BY <1>1, <1>3, <1>6 DEF ToDecl, SlotOf
<1>9. Neatly(e, ts, Decls(c)) /\ name \notin Nat
  BY WorkingNeat
<1>10. Neatly(e, us, Decls(c) \cup {b})
  <2>1. name \in Nat => b.at = name
    BY <1>9
  <2>2. us = Declare(ts, name, b)
    BY <1>1, <1>2
  <2>3. QED
    BY <1>1, <1>4, <1>5, <1>8, <1>9, <2>1, <2>2, NeatlyDeclares
<1>11. QED
  BY <1>1, <1>2, <1>4, <1>5, <1>6, <1>7, <1>10 DEF OwnIs

LEMMA NeatLet ==
  ASSUME NEW t, NEW c, NEW ts, NEW item, NEW e, Works(t, c, ts, item, e), Neat(c, ts), item.op = "let",
         t[Len(c) + 1].name \notin DOMAIN Last(ts).symbols,
         NEW us, us = Declare(ts, t[Len(c) + 1].name, Binding(Len(c) + 1, "own")),
         item.target = Declared(us, t[Len(c) + 1].name),
         item.other = Resolve(us, t[Len(c) + 1].other)
  PROVE  Neat(e, us)
<1>1. PICK at, name, own : /\ at \in 1 .. Len(e) /\ at = Len(c) + 1 /\ e[at] = item /\ name = t[at].name
                           /\ own = Binding(at, "own") /\ own.role = "own" /\ own.at = at
  BY Working DEF Binding
<1>2. /\ Nest(e, us) /\ Alike(ts, us) /\ Last(us).open = Last(ts).open
      /\ Neatly(e, us, Decls(c) \cup {own})
      /\ item.target.binding = own /\ item.target.slot \in Nat
      /\ DeclIn(e, own) = Last(ts).open
  <2>1. name = t[Len(c) + 1].name /\ name \notin DOMAIN Last(ts).symbols
    BY <1>1
  <2>2. us = Declare(ts, name, Binding(Len(c) + 1, "own")) /\ item.target = Declared(us, name)
    BY <1>1
  <2>3. item.op \in {"let", "fn", "lambda"} /\ Works(t, c, ts, item, e) /\ Neat(c, ts)
    OBVIOUS
  <2>4. OwnIs(e, c, ts, us, item, Binding(Len(c) + 1, "own"))
    BY <2>1, <2>2, <2>3, OwnDeclared
  <2>5. OwnIs(e, c, ts, us, item, own)
    BY <1>1, <2>4
  <2>6. QED
    BY <2>5 DEF OwnIs
<1>3. ASSUME NEW b \in Decls(e)
      PROVE  b \in Decls(c) \cup {own} /\ (b \in Decls(c) \/ b = own)
  <2>1. b \in Decls(c) \/ (b.at = at /\ b = Binding(at, b.role))
    BY <1>1, WorkingNeat
  <2>2. b.at = at => b.role = "own"
    BY <1>1, DeclParts
  <2>3. QED
    BY <1>1, <2>1, <2>2
<1>4. \E i \in 1 .. Len(us) : us[i].open = DeclIn(e, own)
  BY <1>2, NestTop
<1>5. item.other # NoRef => ToDecl(e, item.other)
  <2>1. t[at].other \notin Nat
    BY <1>1, WorkingNeat
  <2>2. QED
    BY <1>1, <1>2, <2>1, ResolvesTrue DEF Found
<1>6. Refers(e, Len(c) + 1)
  BY <1>1, <1>2, <1>5 DEF Refers
<1>7. QED
  BY <1>2, <1>3, <1>4, <1>6, NeatMore

LEMMA NeatSame ==
  ASSUME NEW t, NEW c, NEW ts, NEW item, NEW e, Works(t, c, ts, item, e), Neat(c, ts), item.op \in {"set", "call"},
         item.target = Resolve(ts, t[Len(c) + 1].name),
         item.other = Resolve(ts, t[Len(c) + 1].other)
  PROVE  Neat(e, ts)
<1>1. PICK at \in 1 .. Len(e) : at = Len(c) + 1 /\ e[at] = item /\ Nest(e, ts)
  BY Working
<1>2. Neatly(e, ts, Decls(c)) /\ t[at].name \notin Nat /\ t[at].other \notin Nat
  BY <1>1, WorkingNeat
<1>3. \A b \in Decls(e) : b \in Decls(c)
  <2>1. \A b \in Decls(e) : b \in Decls(c) \/ b.at = at
    BY <1>1, WorkingNeat
  <2>2. \A b \in Decls(e) : b.at # at
    BY <1>1, DeclParts
  <2>3. QED
    BY <2>1, <2>2
<1>4. /\ item.other # NoRef => ToDecl(e, item.other)
      /\ item.target # NoRef => ToDecl(e, item.target)
  BY <1>1, <1>2, ResolvesTrue DEF Found
<1>5. Refers(e, Len(c) + 1)
  BY <1>1, <1>4 DEF Refers
<1>6. QED
  BY <1>2, <1>3, <1>5, NeatMore

(* A function: its own name and its parameter in its scope. *)
LEMMA NeatFn ==
  ASSUME NEW t, NEW c, NEW ts, NEW item, NEW e, Works(t, c, ts, item, e), Neat(c, ts), item.op \in {"fn", "lambda"},
         NEW around, Nest(e, around), Alike(ts, around), Last(around).open = Last(ts).open,
         Neatly(e, around, Decls(c) \cup {Binding(Len(c) + 1, "own")}),
         item.target.binding = Binding(Len(c) + 1, "own"), item.target.slot \in Nat,
         NEW name \in Names, name \in Nat => name = Len(c) + 1, NEW body, NEW us,
         body = Declare(Append(around, Table(Len(c) + 1)), name, Binding(Len(c) + 1, "self")),
         us = Declare(body, t[Len(c) + 1].other, Binding(Len(c) + 1, "param")),
         t[Len(c) + 1].other \notin DOMAIN Last(body).symbols,
         item.other = NoRef,
         item.param = Declared(us, t[Len(c) + 1].other)
  PROVE  Neat(e, us)
<1>1. PICK at \in 1 .. Len(e), other \in Names : at = Len(c) + 1 /\ e[at] = item /\ at \in Nat /\ other = t[at].other
  BY Working
<1>2. PICK own, self, param, B :
        /\ own = Binding(at, "own") /\ self = Binding(at, "self") /\ param = Binding(at, "param")
        /\ B = Decls(c) \cup {own}
  OBVIOUS
<1>3. /\ own.role = "own" /\ self.role = "self" /\ param.role = "param"
      /\ own.at = at /\ self.at = at /\ param.at = at
      /\ self \in Decls(e) /\ param \in Decls(e)
  BY <1>1, <1>2, DeclParts DEF Binding
<1>4. DeclIn(e, own) = Last(ts).open /\ DeclIn(e, self) = at /\ DeclIn(e, param) = at
  BY <1>1, <1>3, Working
<1>5. /\ \A i \in 1 .. Len(around) : around[i].open < at
      /\ \A b \in B : DeclIn(e, b) # at
  <2>1. \A i \in 1 .. Len(ts) : ts[i].open < at
    BY <1>1, WorkingNeat
  <2>2. Len(ts) \in 1 .. Len(ts) /\ Last(ts) = ts[Len(ts)] /\ Last(ts).open \in Nat
    BY Working, NestTop
  <2>3. DeclIn(e, own) # at
    BY <1>1, <1>4, <2>1, <2>2
  <2>4. QED
    BY <1>1, <1>2, <2>1, <2>3, WorkingNeat DEF Alike
<1>6. PICK vs : vs = Append(around, Table(at))
  OBVIOUS
<1>7. Neatly(e, vs, B)
  BY <1>1, <1>2, <1>5, <1>6, NeatlyBegins
<1>8. Nest(e, vs) /\ Stacked(around, vs, at) /\ Last(vs).open = at
  <2>1. e[at].op \in Opening /\ e[at].inside = Last(around).open
    BY <1>1, Working DEF Opening
  <2>2. QED
    BY <1>1, <1>6, <2>1, NestBegins
<1>9. Last(vs) = Table(at)
  <2>1. Nest(e, around)
    OBVIOUS
  <2>2. around \in Seq(Tabs(e)) /\ Table(at) \in Tabs(e)
    BY <1>1, <2>1, NestTop, TabBegins
  <2>3. vs[Len(around) + 1] = Table(at) /\ Len(vs) = Len(around) + 1
    BY <1>6, <2>2, AppendProperties
  <2>4. QED
    BY <1>8, <2>3, NestTop
<1>10. DOMAIN Last(vs).symbols = {} /\ NextSlot(Last(vs)) = 0
  BY <1>9, FS_EmptySet DEF Table, NextSlot
<1>11. Nest(e, body) /\ Alike(vs, body) /\ Last(body).open = at
  <2>1. "self" \in Roles /\ body = Declare(vs, name, self)
    BY <1>1, <1>2, <1>6 DEF Roles
  <2>2. QED
    BY <1>1, <1>2, <1>4, <1>8, <2>1, DeclaresHere
<1>12. Neatly(e, body, B \cup {self})
  <2>1. body = Declare(vs, name, self) /\ name \notin DOMAIN Last(vs).symbols /\ (name \in Nat => self.at = name)
    BY <1>1, <1>2, <1>3, <1>6, <1>10
  <2>2. ToDecl(e, [slot |-> NextSlot(Last(vs)), binding |-> self])
    BY <1>3, <1>10 DEF ToDecl, SlotOf
  <2>3. QED
    BY <1>4, <1>7, <1>8, <1>11, <2>1, <2>2, NeatlyDeclares
<1>13. Nest(e, us) /\ Alike(body, us) /\ Last(us).open = at
  <2>1. "param" \in Roles /\ us = Declare(body, other, param)
    BY <1>1, <1>2 DEF Roles
  <2>2. QED
    BY <1>1, <1>2, <1>4, <1>11, <2>1, DeclaresHere
<1>14. item.param = [slot |-> NextSlot(Last(body)), depth |-> 0, binding |-> param] /\ NextSlot(Last(body)) \in Nat
  <2>1. Last(body) \in Tabs(e)
    BY <1>11, NestTop
  <2>2. NextSlot(Last(body)) \in Nat
    BY <2>1, TabParts, FS_CardinalityType DEF NextSlot
  <2>3. us = Declare(body, other, param) /\ item.param = Declared(us, other)
    BY <1>1, <1>2
  <2>4. QED
    BY <1>11, <2>2, <2>3, DeclaredIs
<1>15. Neatly(e, us, B \cup {self} \cup {param})
  <2>1. us = Declare(body, other, param) /\ other \notin DOMAIN Last(body).symbols /\ other \notin Nat
    BY <1>1, <1>2, WorkingNeat
  <2>2. ToDecl(e, [slot |-> NextSlot(Last(body)), binding |-> param])
    BY <1>1, <1>3, <1>14 DEF ToDecl, SlotOf
  <2>3. QED
    BY <1>4, <1>11, <1>12, <1>13, <2>1, <2>2, NeatlyDeclares
<1>16. ASSUME NEW b \in Decls(e)
       PROVE  b \in B \cup {self} \cup {param} /\ (b \in Decls(c) \/ \E i \in 1 .. Len(us) : us[i].open = DeclIn(e, b))
  <2>1. b \in Decls(c) \/ (b.at = at /\ b = Binding(at, b.role))
    BY <1>1, WorkingNeat
  <2>2. b \in Decls(c) \/ b = own \/ b = self \/ b = param
    BY <1>2, <2>1, DeclParts
  <2>3. \E i \in 1 .. Len(us) : us[i].open = at
    BY <1>13, NestTop
  <2>4. PICK k \in Nat : k = Len(around) /\ k \in 1 .. k /\ Last(around) = around[k]
    BY NestTop
  <2>5. Len(vs) = k + 1 /\ vs[k].open = Last(ts).open
    BY <1>8, <2>4 DEF Stacked
  <2>6. Len(us) = k + 1 /\ k \in 1 .. k + 1
    BY <1>11, <1>13, <2>4, <2>5 DEF Alike
  <2>7. us[k].open = Last(ts).open
    BY <1>11, <1>13, <2>5, <2>6 DEF Alike
  <2>8. QED
    BY <1>2, <1>4, <2>2, <2>3, <2>6, <2>7
<1>17. Refers(e, Len(c) + 1)
  BY <1>1, <1>2, <1>14 DEF Refers
<1>18. QED
  BY <1>15, <1>16, <1>17, NeatMore

LEMMA NeatIf ==
  ASSUME NEW t, NEW c, NEW ts, NEW item, NEW e, Works(t, c, ts, item, e), Neat(c, ts), item.op \in {"if", "while", "for"},
         NEW vs, vs = Append(ts, Table(Len(c) + 1)), NEW us,
         \/ item.op \in {"if", "while"} /\ us = vs
         \/ /\ item.op = "for" /\ us = Declare(vs, t[Len(c) + 1].name, Binding(Len(c) + 1, "own"))
            /\ item.target = Declared(us, t[Len(c) + 1].name),
         item.other = Resolve(IF item.op = "while" THEN vs ELSE ts, t[Len(c) + 1].other)
  PROVE  Neat(e, us)
<1>1. PICK at \in 1 .. Len(e) : at = Len(c) + 1 /\ at \in Nat /\ e[at] = item /\ Nest(e, ts)
  BY Working
<1>2. PICK B, own : B = Decls(c) /\ own = Binding(at, "own")
  OBVIOUS
<1>3. own.at = at /\ own.role = "own"
  BY <1>2 DEF Binding
<1>4. /\ Neatly(e, ts, B) /\ t[at].name \notin Nat /\ t[at].other \notin Nat
      /\ \A i \in 1 .. Len(ts) : ts[i].open < at
      /\ \A b \in B : DeclIn(e, b) # at
  BY <1>1, <1>2, WorkingNeat
<1>5. Neatly(e, vs, B)
  BY <1>1, <1>4, NeatlyBegins
<1>6. Nest(e, vs) /\ Stacked(ts, vs, at) /\ Last(vs).open = at
  <2>1. e[at].op \in Opening /\ e[at].inside = Last(ts).open
    BY <1>1, Working DEF Opening
  <2>2. QED
    BY <1>1, <2>1, NestBegins
<1>7. Last(vs) = Table(at) /\ Len(vs) = Len(ts) + 1 /\ Last(vs) = vs[Len(vs)] /\ Len(ts) \in Nat
  <2>1. ts \in Seq(Tabs(e)) /\ Table(at) \in Tabs(e) /\ Len(ts) \in Nat
    BY <1>1, NestTop, TabBegins
  <2>2. vs[Len(ts) + 1] = Table(at) /\ Len(vs) = Len(ts) + 1
    BY <1>1, <2>1, AppendProperties
  <2>3. QED
    BY <1>6, <2>1, <2>2, NestTop
<1>8. DOMAIN Last(vs).symbols = {} /\ NextSlot(Last(vs)) = 0
  BY <1>7, FS_EmptySet DEF Table, NextSlot
<1>9. item.other # NoRef => ToDecl(e, item.other) /\ (item.op = "while" => DeclIn(e, item.other.binding) # at)
  <2>1. CASE item.op # "while"
    BY <1>1, <1>4, <2>1, ResolvesTrue DEF Found
  <2>2. CASE item.op = "while" /\ item.other # NoRef
    <3>1. PICK i \in 1 .. Len(vs) : /\ ToDecl(e, item.other) /\ t[at].other \in DOMAIN vs[i].symbols
                                    /\ DeclIn(e, item.other.binding) = vs[i].open
      <4>1. PICK r, name : r = item.other /\ r # NoRef /\ name = t[at].other
        BY <2>2
      <4>2. r = Resolve(vs, name) /\ name \notin Nat
        BY <1>1, <1>4, <2>2, <4>1
      <4>3. Found(e, vs, name, r)
        BY <1>4, <1>5, <1>6, <4>1, <4>2, ResolvesTrue
      <4>4. QED
        BY <4>1, <4>3 DEF Found
    <3>2. i # Len(vs)
      BY <1>7, <1>8, <3>1
    <3>3. i \in 1 .. Len(ts)
      BY <1>7, <3>1, <3>2
    <3>4. vs[i].open < at
      BY <1>4, <1>6, <3>3 DEF Stacked
    <3>5. QED
      BY <1>1, <3>1, <3>4
  <2>3. QED
    BY <2>1, <2>2
<1>10. \A b \in Decls(e) : b \in B \/ (b = own /\ item.op = "for")
  <2>1. \A b \in Decls(e) : b \in B \/ (b.at = at /\ b = Binding(at, b.role))
    BY <1>1, <1>3, <1>2, WorkingNeat
  <2>2. \A b \in Decls(e) : b.at = at => b.role = "own" /\ item.op = "for"
    BY <1>1, DeclParts
  <2>3. QED
    BY <1>3, <1>2, <2>1, <2>2
<1>11. CASE item.op # "for"
  <2>1. us = vs /\ \A b \in Decls(e) : b \in B
    BY <1>10, <1>11
  <2>2. Refers(e, Len(c) + 1)
    BY <1>1, <1>9, <1>11 DEF Refers
  <2>3. QED
    BY <1>3, <1>2, <1>5, <2>1, <2>2, NeatMore
<1>12. CASE item.op = "for"
  <2>1. PICK name \in Names : /\ name = t[at].name /\ us = Declare(vs, name, own) /\ item.target = Declared(us, name)
    BY <1>1, <1>3, <1>2, <1>12, Working
  <2>2. own \in Decls(e) /\ DeclIn(e, own) = at
    BY <1>1, <1>3, <1>2, <1>12, DeclParts, Working
  <2>3. Nest(e, us) /\ Alike(vs, us) /\ Last(us).open = at
    <3>1. "own" \in Roles
      BY DEF Roles
    <3>2. QED
      BY <1>1, <1>3, <1>2, <1>6, <2>1, <2>2, <3>1, DeclaresHere
  <2>4. item.target = [slot |-> 0, depth |-> 0, binding |-> own]
    BY <1>6, <1>8, <2>1, DeclaredIs
  <2>5. ToDecl(e, [slot |-> NextSlot(Last(vs)), binding |-> own])
    BY <1>1, <1>3, <1>2, <1>8, <2>2, <2>4 DEF ToDecl, SlotOf
  <2>6. Neatly(e, us, B \cup {own})
    BY <1>4, <1>5, <1>6, <1>8, <2>1, <2>2, <2>3, <2>5, NeatlyDeclares
  <2>7. \E i \in 1 .. Len(us) : us[i].open = at
    BY <2>3, NestTop
  <2>8. Refers(e, Len(c) + 1)
    BY <1>1, <1>3, <1>2, <1>9, <1>12, <2>4 DEF Refers
  <2>9. QED
    BY <1>3, <1>2, <1>10, <2>2, <2>6, <2>7, <2>8, NeatMore
<1>13. QED
  BY <1>11, <1>12

LEMMA NeatEnd ==
  ASSUME NEW t, NEW c, NEW ts, NEW item, NEW e, Works(t, c, ts, item, e), Neat(c, ts), item.op = "end", item.target = NoRef, item.param = NoRef,
         item.other = NoRef, NEW us, us = Front(ts)
  PROVE  Neat(e, us)
<1>1. PICK at \in 1 .. Len(e) : at = Len(c) + 1 /\ e[at] = item /\ Nest(e, ts)
  BY Working
<1>2. Len(ts) >= 2
  <2>1. NoRef \in Refs
    BY DEF NoRef, Refs, Nothing, Binding
  <2>2. Fits(t, c, ts, item)
    BY <2>1, WorkFits
  <2>3. QED
    BY <2>2, EndsIn DEF Works
<1>3. Neatly(e, us, Decls(c))
  BY <1>1, <1>2, WorkingNeat, NeatlyEnds
<1>4. \A b \in Decls(e) : b \in Decls(c)
  <2>1. \A b \in Decls(e) : b \in Decls(c) \/ b.at = at
    BY <1>1, WorkingNeat
  <2>2. \A b \in Decls(e) : b.at # at
    BY <1>1, DeclParts
  <2>3. QED
    BY <2>1, <2>2
<1>5. Refers(e, Len(c) + 1)
  BY <1>1 DEF Refers
<1>6. QED
  BY <1>3, <1>4, <1>5, NeatMore

(* The lambda itself, which no text can name. *)
LambdaIs(e, c, named, around) ==
  /\ Nest(e, around) /\ Alike(named, around) /\ Last(around).open = Last(named).open
  /\ Neatly(e, around, Decls(c) \cup {Binding(Len(c) + 1, "own")})

LEMMA LambdaDeclared ==
  ASSUME NEW t, NEW c, NEW ts, NEW item, NEW e, Works(t, c, ts, item, e), Neat(c, ts), item.op = "lambda",
         NEW name, name = t[Len(c) + 1].name,
         NEW named, named = Declare(ts, name, Binding(Len(c) + 1, "own")),
         OwnIs(e, c, ts, named, item, Binding(Len(c) + 1, "own")),
         NEW around, around = Declare(named, Len(c) + 1, Binding(Len(c) + 1, "lambda"))
  PROVE  LambdaIs(e, c, named, around)
<1>1. PICK at \in 1 .. Len(e) : at = Len(c) + 1 /\ at \in Nat /\ at \in Names /\ e[at] = item /\ Nest(e, ts)
  BY Working
<1>2. PICK b, own, B : b = Binding(at, "lambda") /\ own = Binding(at, "own") /\ B = Decls(c) \cup {own}
  OBVIOUS
<1>3. b.at = at /\ b.role = "lambda" /\ DeclIn(e, b) = Last(ts).open
  <2>1. b.at = at /\ b.role = "lambda"
    BY <1>2 DEF Binding
  <2>2. QED
    BY <1>1, <2>1, Working
<1>4. Nest(e, named) /\ Last(named).open = Last(ts).open /\ Neatly(e, named, B)
  BY <1>1, <1>2 DEF OwnIs
<1>5. around = Declare(named, at, b)
  BY <1>1, <1>2
<1>6. Nest(e, around) /\ Alike(named, around) /\ Last(around).open = Last(named).open
  <2>1. "lambda" \in Roles
    BY DEF Roles
  <2>2. QED
    BY <1>1, <1>2, <1>3, <1>4, <2>1, <1>5, DeclaresHere
<1>7. at \notin DOMAIN Last(named).symbols
  <2>1. at \notin DOMAIN Last(ts).symbols /\ name \notin Nat
    BY <1>1, WorkingNeat
  <2>2. PICK n \in Nat : n = Len(ts) /\ n \in 1 .. n /\ Last(ts) = ts[n]
    BY <1>1, NestTop
  <2>3. PICK tb \in Tabs(e) : tb = ts[n]
    BY <1>1, <2>2, NestTop
  <2>4. PICK symbol : symbol = [slot |-> NextSlot(tb), binding |-> own]
    OBVIOUS
  <2>5. Len(named) = n /\ named[n] = WithSymbol(tb, name, symbol)
    BY <1>1, <1>2, <2>2, <2>3, <2>4, DeclareShape
  <2>6. DOMAIN named[n].symbols = DOMAIN tb.symbols \cup {name}
    BY <2>3, <2>5, TabParts DEF WithSymbol
  <2>7. Last(named) = named[n]
    BY <1>4, <2>5, NestTop
  <2>8. QED
    BY <1>1, <2>1, <2>2, <2>3, <2>6, <2>7
<1>8. Neatly(e, around, B \cup {b})
  <2>1. (at \in Nat => b.at = at) /\ DeclIn(e, b) = Last(named).open /\ (b.role = "lambda" /\ at \in Nat)
    BY <1>1, <1>3, <1>4
  <2>2. QED
    BY <1>4, <1>5, <1>6, <1>7, <2>1, NeatlyDeclares
<1>9. Neatly(e, around, B)
  BY <1>8, NeatlyLess
<1>10. QED
  BY <1>1, <1>2, <1>6, <1>9 DEF LambdaIs

(* The table of a lambda's body has one name so far, which no text can say. *)
LEMMA LambdaBody ==
  ASSUME NEW t, NEW c, NEW ts, NEW item, NEW e, Works(t, c, ts, item, e), Neat(c, ts), item.op = "lambda",
         NEW around, Nest(e, around), Last(around).open = Last(ts).open, NEW at, at = Len(c) + 1,
         NEW body, body = Declare(Append(around, Table(Len(c) + 1)), at, Binding(Len(c) + 1, "self"))
  PROVE  t[Len(c) + 1].other \notin DOMAIN Last(body).symbols
<1>1. at \in 1 .. Len(e) /\ at \in Nat /\ at \in Names /\ e[at] = item
  BY Working
<1>2. PICK vs, self : vs = Append(around, Table(at)) /\ self = Binding(at, "self")
  OBVIOUS
<1>3. self.at = at /\ self.role = "self" /\ DeclIn(e, self) = at
  BY <1>2 DEF Binding, DeclIn
<1>4. Nest(e, vs) /\ Last(vs).open = at
  <2>1. e[at].op \in Opening /\ e[at].inside = Last(around).open
    BY <1>1, Working DEF Opening
  <2>2. QED
    BY <1>1, <1>2, <2>1, NestBegins
<1>5. around \in Seq(Tabs(e)) /\ Table(at) \in Tabs(e) /\ Len(around) \in Nat
  BY <1>1, NestTop, TabBegins
<1>6. PICK n \in Nat : n = Len(vs) /\ n \in 1 .. n /\ Last(vs) = vs[n] /\ vs[n] = Table(at)
  <2>1. vs[Len(around) + 1] = Table(at) /\ Len(vs) = Len(around) + 1
    BY <1>2, <1>5, AppendProperties
  <2>2. QED
    BY <1>4, <1>5, <2>1, NestTop
<1>7. PICK tb, symbol : tb = Table(at) /\ symbol = [slot |-> NextSlot(tb), binding |-> self]
  OBVIOUS
<1>8. Len(body) = n /\ body[n] = WithSymbol(tb, at, symbol)
  <2>1. body = Declare(vs, at, self)
    BY <1>2
  <2>2. QED
    BY <1>4, <1>6, <1>7, <2>1, DeclareShape
<1>9. DOMAIN body[n].symbols = {at}
  BY <1>7, <1>8 DEF WithSymbol, Table
<1>10. Nest(e, body)
  <2>1. "self" \in Roles /\ body = Declare(vs, at, self)
    BY <1>2 DEF Roles
  <2>2. QED
    BY <1>2, <1>1, <1>3, <1>4, <2>1, DeclaresHere
<1>11. Last(body) = body[n]
  BY <1>8, <1>10, NestTop
<1>12. t[Len(c) + 1].other \notin Nat
  BY WorkingNeat
<1>13. QED
  BY <1>1, <1>9, <1>11, <1>12

NeatNow == \E c, ts : c = code /\ ts = tables /\ Neat(c, ts)
NeatNext == ~redeclared' => \E e, us : e = code' /\ us = tables' /\ Neat(e, us)

LEMMA UnknownNeat ==
  ASSUME ~redeclared => NeatNow, NEW ts, NEW name, Unknown(ts, name)
  PROVE  NeatNext
BY DEF Unknown, NeatNext, NeatNow

LEMMA NeatStep ==
  ASSUME text \in Texts, Made(text, code, tables), ~redeclared => NeatNow, Translate
  PROVE  NeatNext
<1>1. CASE TranslateLet
  <2>1. PICK ds : ds = Declare(tables, Now.name, Binding(At, "own"))
    OBVIOUS
  <2>2. CASE Unknown(ds, Now.other)
    BY <2>2, UnknownNeat
  <2>3. CASE Emit(ds, Declared(ds, Now.name), Resolve(ds, Now.other), NoRef)
             /\ redeclared' = (redeclared \/ Twice(tables, Now.name))
    <3>1. Translating("let")
      BY <1>1 DEF TranslateLet
    <3>2. PICK t, c, ts, item, e :
            /\ t = text /\ c = code /\ ts = tables /\ e = code'
            /\ tables' = ds /\ text' = text /\ status' = "translating"
            /\ UNCHANGED <<heap, active, pc>>
            /\ Works(t, c, ts, item, e) /\ At = Len(c) + 1 /\ Now = t[Len(c) + 1]
            /\ item.op = "let" /\ item.target = Declared(ds, Now.name) /\ item.other = Resolve(ds, Now.other)
            /\ item.param = NoRef
      BY <2>3, <3>1, EmitWorks
    <3>3. ASSUME ~redeclared'
          PROVE  Neat(e, ds)
      <4>1. ~redeclared /\ Now.name \notin DOMAIN Last(tables).symbols
        BY <2>3, <3>3 DEF Twice
      <4>2. Neat(c, ts)
        BY <3>2, <4>1 DEF NeatNow
      <4>3. QED
        BY <2>1, <3>2, <4>1, <4>2, NeatLet
    <3>4. QED
      BY <3>2, <3>3 DEF NeatNext
  <2>4. QED
    BY <1>1, <2>1, <2>2, <2>3 DEF TranslateLet
<1>2. CASE TranslateSet \/ TranslateCall
  <2>1. CASE \/ Unknown(tables, Now.name) \/ Unknown(tables, Now.other)
    BY <2>1, UnknownNeat
  <2>2. CASE Emit(tables, Resolve(tables, Now.name), Resolve(tables, Now.other), NoRef) /\ UNCHANGED redeclared
    <3>1. PICK op \in {"set", "call"} : Translating(op)
      BY <1>2 DEF TranslateSet, TranslateCall
    <3>2. PICK t, c, ts, item, e :
            /\ t = text /\ c = code /\ ts = tables /\ e = code'
            /\ tables' = tables /\ text' = text /\ status' = "translating"
            /\ UNCHANGED <<heap, active, pc>>
            /\ Works(t, c, ts, item, e) /\ At = Len(c) + 1 /\ Now = t[Len(c) + 1]
            /\ item.op = op /\ item.target = Resolve(tables, Now.name) /\ item.other = Resolve(tables, Now.other)
            /\ item.param = NoRef
      BY <2>2, <3>1, EmitWorks
    <3>3. ~redeclared' => Neat(e, ts)
      BY <2>2, <3>1, <3>2, NeatSame DEF NeatNow
    <3>4. QED
      BY <3>2, <3>3 DEF NeatNext
  <2>3. QED
    BY <1>2, <2>1, <2>2 DEF TranslateSet, TranslateCall
<1>3. CASE TranslateFn
  <2>1. PICK around, body, ds :
          /\ around = Declare(tables, Now.name, Binding(At, "own"))
          /\ body = Declare(Append(around, Table(At)), Now.name, Binding(At, "self"))
          /\ ds = Declare(body, Now.other, Binding(At, "param"))
    OBVIOUS
  <2>2. /\ Translating("fn") /\ Emit(ds, Declared(around, Now.name), NoRef, Declared(ds, Now.other))
        /\ redeclared' = (redeclared \/ Twice(tables, Now.name) \/ Twice(body, Now.other))
    BY <1>3, <2>1 DEF TranslateFn, Function
  <2>3. PICK t, c, ts, item, e :
          /\ t = text /\ c = code /\ ts = tables /\ e = code'
          /\ tables' = ds /\ text' = text /\ status' = "translating"
          /\ UNCHANGED <<heap, active, pc>>
          /\ Works(t, c, ts, item, e) /\ At = Len(c) + 1 /\ Now = t[Len(c) + 1]
          /\ item.op = "fn" /\ item.target = Declared(around, Now.name) /\ item.other = NoRef
          /\ item.param = Declared(ds, Now.other)
    BY <2>2, EmitWorks
  <2>4. PICK name \in Names : name = Now.name
    BY <2>3, Working
  <2>5. ASSUME ~redeclared'
        PROVE  Neat(e, ds)
    <3>1. ~redeclared /\ name \notin DOMAIN Last(ts).symbols /\ Now.other \notin DOMAIN Last(body).symbols
      BY <2>2, <2>3, <2>4, <2>5 DEF Twice
    <3>2. Neat(c, ts)
      BY <2>3, <3>1 DEF NeatNow
    <3>3. name \notin Nat
      BY <2>3, <2>4, <3>2, WorkingNeat
    <3>4. OwnIs(e, c, ts, around, item, Binding(Len(c) + 1, "own"))
      BY <2>1, <2>3, <2>4, <3>1, <3>2, OwnDeclared
    <3>5. /\ Nest(e, around) /\ Alike(ts, around) /\ Last(around).open = Last(ts).open
          /\ Neatly(e, around, Decls(c) \cup {Binding(Len(c) + 1, "own")})
          /\ item.target.binding = Binding(Len(c) + 1, "own") /\ item.target.slot \in Nat
      BY <3>4 DEF OwnIs
    <3>6. QED
      BY <2>1, <2>3, <2>4, <3>1, <3>2, <3>3, <3>5, NeatFn
  <2>6. QED
    BY <2>3, <2>5 DEF NeatNext
<1>4. CASE TranslateLambda
  <2>1. PICK named, around, body, ds :
          /\ named = Declare(tables, Now.name, Binding(At, "own"))
          /\ around = Declare(named, At, Binding(At, "lambda"))
          /\ body = Declare(Append(around, Table(At)), At, Binding(At, "self"))
          /\ ds = Declare(body, Now.other, Binding(At, "param"))
    OBVIOUS
  <2>2. /\ Translating("lambda") /\ Emit(ds, Declared(named, Now.name), NoRef, Declared(ds, Now.other))
        /\ redeclared' = (redeclared \/ Twice(tables, Now.name))
    BY <1>4, <2>1 DEF TranslateLambda, Function
  <2>3. PICK t, c, ts, item, e :
          /\ t = text /\ c = code /\ ts = tables /\ e = code'
          /\ tables' = ds /\ text' = text /\ status' = "translating"
          /\ UNCHANGED <<heap, active, pc>>
          /\ Works(t, c, ts, item, e) /\ At = Len(c) + 1 /\ Now = t[Len(c) + 1]
          /\ item.op = "lambda" /\ item.target = Declared(named, Now.name) /\ item.other = NoRef
          /\ item.param = Declared(ds, Now.other)
    BY <2>2, EmitWorks
  <2>4. PICK name \in Names, at \in Names : name = Now.name /\ at = Len(c) + 1
    BY <2>3, Working
  <2>5. ASSUME ~redeclared'
        PROVE  Neat(e, ds)
    <3>1. ~redeclared /\ name \notin DOMAIN Last(ts).symbols
      BY <2>2, <2>3, <2>4, <2>5 DEF Twice
    <3>2. Neat(c, ts)
      BY <2>3, <3>1 DEF NeatNow
    <3>3. OwnIs(e, c, ts, named, item, Binding(Len(c) + 1, "own"))
      BY <2>1, <2>3, <2>4, <3>1, <3>2, OwnDeclared
    <3>4. LambdaIs(e, c, named, around)
      BY <2>1, <2>3, <2>4, <3>1, <3>2, <3>3, LambdaDeclared
    <3>5. /\ Nest(e, around) /\ Alike(ts, around) /\ Last(around).open = Last(ts).open
          /\ Neatly(e, around, Decls(c) \cup {Binding(Len(c) + 1, "own")})
          /\ item.target.binding = Binding(Len(c) + 1, "own") /\ item.target.slot \in Nat
      <4>1. Len(ts) \in Nat
        BY <2>3, Working, NestTop
      <4>2. QED
        BY <3>3, <3>4, <4>1, MovesJoin DEF OwnIs, LambdaIs
    <3>6. t[Len(c) + 1].other \notin DOMAIN Last(body).symbols
      BY <2>1, <2>3, <2>4, <3>2, <3>5, LambdaBody
    <3>7. QED
      BY <2>1, <2>3, <2>4, <3>2, <3>5, <3>6, NeatFn
  <2>6. QED
    BY <2>3, <2>5 DEF NeatNext
<1>5. CASE TranslateIf \/ TranslateWhile \/ TranslateFor
  <2>1. PICK op \in {"if", "while", "for"} : Translating(op)
    BY <1>5 DEF TranslateIf, TranslateWhile, TranslateFor
  <2>2. PICK vs : vs = Append(tables, Table(At))
    OBVIOUS
  <2>3. CASE \E ds, name : Unknown(ds, name)
    BY <2>3, UnknownNeat
  <2>4. ASSUME NEW ds, NEW target, NEW other, Emit(ds, target, other, NoRef), UNCHANGED redeclared,
               \/ op \in {"if", "while"} /\ ds = vs
               \/ /\ op = "for" /\ ds = Declare(vs, Now.name, Binding(At, "own"))
                  /\ target = Declared(ds, Now.name),
               other = Resolve(IF op = "while" THEN vs ELSE tables, Now.other)
        PROVE  NeatNext
    <3>1. PICK t, c, ts, item, e :
            /\ t = text /\ c = code /\ ts = tables /\ e = code'
            /\ tables' = ds /\ text' = text /\ status' = "translating"
            /\ UNCHANGED <<heap, active, pc>>
            /\ Works(t, c, ts, item, e) /\ At = Len(c) + 1 /\ Now = t[Len(c) + 1]
            /\ item.op = op /\ item.target = target /\ item.other = other
            /\ item.param = NoRef
      BY <2>1, <2>4, EmitWorks
    <3>2. ~redeclared' => Neat(e, ds)
      <4>1. ~redeclared' => Neat(c, ts)
        BY <2>4, <3>1 DEF NeatNow
      <4>2. item.op \in {"if", "while", "for"} /\ vs = Append(ts, Table(Len(c) + 1))
        BY <2>1, <2>2, <3>1
      <4>3. \/ item.op \in {"if", "while"} /\ ds = vs
            \/ /\ item.op = "for" /\ ds = Declare(vs, t[Len(c) + 1].name, Binding(Len(c) + 1, "own"))
               /\ item.target = Declared(ds, t[Len(c) + 1].name)
        BY <2>4, <3>1
      <4>4. item.other = Resolve(IF item.op = "while" THEN vs ELSE ts, t[Len(c) + 1].other)
        BY <2>4, <3>1
      <4>5. QED
        BY <3>1, <4>1, <4>2, <4>3, <4>4, NeatIf
    <3>3. QED
      BY <3>1, <3>2 DEF NeatNext
  <2>5. op = Now.op
    BY <2>1 DEF Translating
  <2>6. CASE TranslateIf
    <3>1. op = "if"
      BY <2>5, <2>6 DEF TranslateIf, Translating
    <3>2. \/ Emit(vs, NoRef, Resolve(tables, Now.other), NoRef) /\ UNCHANGED redeclared
          \/ Unknown(tables, Now.other)
      BY <2>2, <2>6 DEF TranslateIf
    <3>3. QED
      BY <2>3, <2>4, <3>1, <3>2
  <2>7. CASE TranslateWhile
    <3>1. op = "while"
      BY <2>5, <2>7 DEF TranslateWhile, Translating
    <3>2. \/ Emit(vs, NoRef, Resolve(vs, Now.other), NoRef) /\ UNCHANGED redeclared
          \/ Unknown(vs, Now.other)
      BY <2>2, <2>7 DEF TranslateWhile
    <3>3. QED
      BY <2>3, <2>4, <3>1, <3>2
  <2>8. CASE TranslateFor
    <3>1. op = "for"
      BY <2>5, <2>8 DEF TranslateFor, Translating
    <3>2. PICK ds : ds = Declare(vs, Now.name, Binding(At, "own"))
      OBVIOUS
    <3>3. \/ Emit(ds, Declared(ds, Now.name), Resolve(tables, Now.other), NoRef) /\ UNCHANGED redeclared
          \/ Unknown(tables, Now.other)
      BY <2>2, <2>8, <3>2 DEF TranslateFor
    <3>4. QED
      BY <2>3, <2>4, <3>1, <3>2, <3>3
  <2>9. QED
    BY <1>5, <2>6, <2>7, <2>8
<1>6. CASE TranslateEnd
  <2>1. Translating("end") /\ Emit(Front(tables), NoRef, NoRef, NoRef) /\ UNCHANGED redeclared
    BY <1>6 DEF TranslateEnd
  <2>2. PICK ds : ds = Front(tables)
    OBVIOUS
  <2>3. PICK t, c, ts, item, e :
          /\ t = text /\ c = code /\ ts = tables /\ e = code'
          /\ tables' = ds /\ text' = text /\ status' = "translating"
          /\ UNCHANGED <<heap, active, pc>>
          /\ Works(t, c, ts, item, e) /\ At = Len(c) + 1 /\ Now = t[Len(c) + 1]
          /\ item.op = "end" /\ item.target = NoRef /\ item.other = NoRef
          /\ item.param = NoRef
    BY <2>1, <2>2, EmitWorks
  <2>4. ~redeclared' => Neat(e, ds)
    BY <2>1, <2>2, <2>3, NeatEnd DEF NeatNow
  <2>5. QED
    BY <2>3, <2>4 DEF NeatNext
<1>7. QED
  BY <1>1, <1>2, <1>3, <1>4, <1>5, <1>6 DEF Translate

-----------------------------------------------------------------------------
(***************************************************************************)
(* What is stored in a scope, and where.                                   *)
(***************************************************************************)

(* Numbers of a sequence have a bound. *)
LEMMA Bounded ==
  ASSUME NEW n \in Nat, NEW f, \A p \in 1 .. n : f[p] \in Nat
  PROVE  \E m \in Nat : \A p \in 1 .. n : f[p] <= m
<1> DEFINE T == {k \in 0 .. n : ~ \E m \in Nat : \A p \in 1 .. k : f[p] <= m}
<1>1. T = {}
  <2>1. SUFFICES ASSUME T # {} PROVE FALSE
    OBVIOUS
  <2>2. T \subseteq Nat
    OBVIOUS
  <2>3. PICK k \in T : \A l \in T : k <= l
    BY <2>1, <2>2, LeastNatural
  <2>4. k # 0
    <3>1. \A p \in 1 .. 0 : f[p] <= 0
      OBVIOUS
    <3>2. QED
      BY <2>3, <3>1
  <2>5. k - 1 \in 0 .. n /\ ~(k <= k - 1) /\ k \in 1 .. n
    BY <2>3, <2>4
  <2>6. PICK m \in Nat : \A p \in 1 .. k - 1 : f[p] <= m
    BY <2>3, <2>5
  <2>7. PICK b \in Nat : b = f[k]
    BY <2>5
  <2>8. m + b \in Nat /\ m <= m + b /\ b <= m + b
    OBVIOUS
  <2>9. \A p \in 1 .. k : f[p] <= m + b
    <3>1. SUFFICES ASSUME NEW p \in 1 .. k
                   PROVE  f[p] <= m + b
      OBVIOUS
    <3>2. p = k \/ p \in 1 .. k - 1
      BY <2>5
    <3>3. p \in 1 .. n
      BY <2>5
    <3>4. QED
      BY <2>6, <2>7, <2>8, <3>2, <3>3
  <2>10. QED
    BY <2>3, <2>8, <2>9
<1>2. n \in 0 .. n
  OBVIOUS
<1>3. QED
  BY <1>1, <1>2

LEMMA Listed ==
  ASSUME NEW n \in Nat, NEW S, NEW f, f \in [1 .. n -> S]
  PROVE  f \in Seq(S) /\ Len(f) = n /\ DOMAIN f = 1 .. n
OBVIOUS

(* What was stored for something, was stored for a declaration of the body, *)
(* in its slot.                                                             *)
Proper(c, open, s, v) ==
  \/ v.binding = Nothing
  \/ v.binding \in Decls(c) /\ DeclIn(c, v.binding) = open /\ SlotOf(c, v.binding) + 1 = s

Fixed(c, open, slots) == \A s \in DOMAIN slots : Proper(c, open, s, slots[s])

(* The declarations whose values are stored before the body goes on.        *)
GivenIn(c, b) == b.role # "own" \/ c[b.at].op \in {"fn", "for"}

Stands(slots, s) == s \in DOMAIN slots /\ slots[s].binding # Nothing

Supplied(c, open, slots) ==
  \A b \in Decls(c) : DeclIn(c, b) = open /\ GivenIn(c, b) => Stands(slots, SlotOf(c, b) + 1)

(* What was stored for a declaration is followed by what is for it again.   *)
Lasting(old, new) ==
  \A s \in DOMAIN old : old[s].binding # Nothing => s \in DOMAIN new /\ new[s].binding = old[s].binding

LEMMA LastingSupplies ==
  ASSUME NEW c, NEW open, NEW old, NEW new, Lasting(old, new), Supplied(c, open, old)
  PROVE  Supplied(c, open, new)
BY DEF Lasting, Supplied, Stands

LEMMA SlotIs ==
  ASSUME NEW c, Sorted(c), NEW b \in Decls(c)
  PROVE  SlotOf(c, b) \in Nat
<1>1. /\ b.at \in 1 .. Len(c) /\ b.role \in {"own", "self", "param"}
      /\ b.role = "own" => c[b.at].op \in {"let", "fn", "lambda", "for"}
      /\ b.role # "own" => c[b.at].op \in {"fn", "lambda"}
  BY DeclParts
<1>2. Refers(c, b.at)
  BY <1>1 DEF Sorted
<1>3. QED
  BY <1>1, <1>2 DEF Refers, SlotOf

PutsAt(slots, ref, v, new, k) ==
  /\ new \in Seq(Vals) /\ k \in DOMAIN new
  /\ new[k].binding = ref.binding /\ new[k].fn = v.fn /\ new[k].scope = v.scope
  /\ \A s \in DOMAIN slots : s \in DOMAIN new /\ (s # k => new[s] = slots[s])
  /\ \A s \in DOMAIN new : s = k \/ new[s] = Void \/ (s \in DOMAIN slots /\ new[s] = slots[s])

LEMMA PutShape ==
  ASSUME NEW slots \in Seq(Vals), NEW ref \in Refs, ref.slot \in Nat, NEW v \in Vals,
         NEW new, new = Put(slots, ref, v), NEW k, k = ref.slot + 1
  PROVE  PutsAt(slots, ref, v, new, k)
<1>1. PICK n \in Nat : n = Len(slots) /\ DOMAIN slots = 1 .. n
  BY LenProperties
<1>2. k \in Nat /\ k >= 1
  OBVIOUS
<1>3. PICK m \in Nat : m = Max({n, k}) /\ m >= n /\ m >= k
  <2>1. {n, k} \subseteq 0 .. n + k /\ {n, k} # {} /\ n + k \in Nat
    OBVIOUS
  <2>2. Max({n, k}) \in {n, k} /\ \A x \in {n, k} : Max({n, k}) >= x
    BY <2>1, GreatestOrNone
  <2>3. QED
    BY <2>2
<1>4. PICK u : u = [v EXCEPT !.binding = ref.binding]
  OBVIOUS
<1>5. u \in Vals /\ u.binding = ref.binding /\ u.fn = v.fn /\ u.scope = v.scope
  BY <1>4 DEF Vals, Refs, Bound, Roles
<1>6. Void \in Vals
  BY DEF Void, Value, Vals, Bound, Roles, Nothing, Binding
<1>7. new = [s \in 1 .. m |-> IF s = k THEN u ELSE IF s \in 1 .. n THEN slots[s] ELSE Void]
  BY <1>1, <1>2, <1>3, <1>4 DEF Put
<1>8. \A s \in 1 .. n : slots[s] \in Vals
  BY <1>1, ElementOfSeq
<1>9. new \in [1 .. m -> Vals]
  BY <1>5, <1>6, <1>7, <1>8
<1>10. new \in Seq(Vals) /\ DOMAIN new = 1 .. m
  BY <1>9, Listed
<1>11. k \in 1 .. m /\ new[k] = u /\ \A s \in 1 .. n : s \in 1 .. m
  <2>1. k \in 1 .. m /\ \A s \in 1 .. n : s \in 1 .. m
    <3>1. m \in Nat /\ n <= m /\ k <= m /\ k \in Nat /\ 1 <= k
      BY <1>2, <1>3
    <3>2. QED
      BY <3>1
  <2>2. QED
    BY <1>7, <2>1
<1>12. \A s \in 1 .. m : s # k => new[s] = IF s \in 1 .. n THEN slots[s] ELSE Void
  BY <1>7
<1>13. QED
  BY <1>1, <1>2, <1>5, <1>10, <1>11, <1>12 DEF PutsAt

(* What becomes of the slots of a scope when something is stored for a      *)
(* declaration of its body.                                                 *)
PutsIn(c, open, slots, ref, v, new) ==
  /\ new \in Seq(Vals) /\ Fixed(c, open, new) /\ Lasting(slots, new)
  /\ Stands(new, ref.slot + 1)
  /\ \A s \in DOMAIN new : new[s].fn # 0 => \/ new[s].fn = v.fn /\ new[s].scope = v.scope
                                            \/ s \in DOMAIN slots /\ new[s] = slots[s]

LEMMA PutKept ==
  ASSUME NEW c, Sorted(c), NEW open, NEW slots \in Seq(Vals), Fixed(c, open, slots),
         NEW ref \in Refs, ToDecl(c, ref), DeclIn(c, ref.binding) = open, NEW v \in Vals,
         NEW new, new = Put(slots, ref, v)
  PROVE  PutsIn(c, open, slots, ref, v, new)
<1>1. ref.binding \in Decls(c) /\ ref.slot = SlotOf(c, ref.binding) /\ ref.slot \in Nat
  BY SlotIs DEF ToDecl
<1>2. PICK k \in Nat : k = ref.slot + 1
  BY <1>1
<1>3. /\ new \in Seq(Vals) /\ k \in DOMAIN new
      /\ new[k].binding = ref.binding /\ new[k].fn = v.fn /\ new[k].scope = v.scope
      /\ \A s \in DOMAIN slots : s \in DOMAIN new /\ (s # k => new[s] = slots[s])
      /\ \A s \in DOMAIN new : s = k \/ new[s] = Void \/ (s \in DOMAIN slots /\ new[s] = slots[s])
  <2>1. PutsAt(slots, ref, v, new, k)
    BY <1>1, <1>2, PutShape
  <2>2. QED
    BY <2>1 DEF PutsAt
<1>4. Void.binding = Nothing /\ Void.fn = 0
  BY DEF Void, Value
<1>5. Fixed(c, open, new)
  <2>1. Proper(c, open, k, new[k])
    BY <1>1, <1>2, <1>3 DEF Proper
  <2>2. \A s \in DOMAIN new : s # k => Proper(c, open, s, new[s])
    BY <1>3, <1>4 DEF Fixed, Proper
  <2>3. QED
    BY <2>1, <2>2 DEF Fixed
<1>6. Lasting(slots, new)
  <2>1. SUFFICES ASSUME NEW s \in DOMAIN slots, slots[s].binding # Nothing
                 PROVE  new[s].binding = slots[s].binding
    BY <1>3 DEF Lasting
  <2>2. CASE s # k
    BY <1>3, <2>2
  <2>3. CASE s = k
    <3>1. PICK b \in Decls(c) : b = slots[s].binding /\ DeclIn(c, b) = open /\ SlotOf(c, b) + 1 = k
      BY <2>1, <2>3 DEF Fixed, Proper
    <3>2. SlotOf(c, b) \in Nat
      BY SlotIs
    <3>3. SlotOf(c, b) = SlotOf(c, ref.binding)
      BY <1>1, <1>2, <3>1, <3>2
    <3>4. b = ref.binding
      BY <1>1, <3>1, <3>3 DEF Sorted, Apart
    <3>5. QED
      BY <1>3, <2>3, <3>1, <3>4
  <2>4. QED
    BY <2>2, <2>3
<1>7. ref.binding # Nothing
  <2>1. ref.binding.role # "none"
    BY <1>1, DeclParts
  <2>2. QED
    BY <2>1 DEF Nothing, Binding
<1>8. Stands(new, ref.slot + 1)
  BY <1>2, <1>3, <1>7 DEF Stands
<1>9. QED
  BY <1>3, <1>4, <1>5, <1>6, <1>8 DEF PutsIn

(* A slot that a hoisted function has taken. *)
Hoisted(c, open, i, new, s) ==
  \E p \in 1 .. Len(c) :
    /\ c[p].op = "fn" /\ c[p].inside = open /\ c[p].target.slot + 1 = s
    /\ s \in DOMAIN new /\ new[s] = Value(Binding(p, "own"), p, i)

Hoists(c, open, i, slots, new) ==
  /\ new \in Seq(Vals)
  /\ \A p \in 1 .. Len(c) : c[p].op = "fn" /\ c[p].inside = open => Hoisted(c, open, i, new, c[p].target.slot + 1)
  /\ \A s \in DOMAIN slots : s \in DOMAIN new /\ (Hoisted(c, open, i, new, s) \/ new[s] = slots[s])
  /\ \A s \in DOMAIN new : \/ Hoisted(c, open, i, new, s) \/ new[s] = Void
                           \/ s \in DOMAIN slots /\ new[s] = slots[s]

LEMMA HoistShape ==
  ASSUME NEW t, Whole(t, code), Sorted(code), NEW open, NEW slots \in Seq(Vals), NEW i \in Nat,
         NEW new, new = Hoist(slots, open, i)
  PROVE  Hoists(code, open, i, slots, new)
<1>1. PICK n \in Nat : n = Len(code) /\ DOMAIN code = 1 .. n
  BY LenProperties DEF Whole
<1>2. PICK fns : fns = FnsIn(open)
  OBVIOUS
<1>3. fns = {p \in 1 .. n : code[p].op = "fn" /\ code[p].inside = open}
  BY <1>1, <1>2 DEF FnsIn
<1>4. \A p \in fns : code[p].target.binding = Binding(p, "own") /\ code[p].target.slot \in Nat
  BY <1>1, <1>3 DEF Sorted, Refers
<1> DEFINE At1(p) == code[p].target.slot + 1
           Takes(p, s) == At1(p) = s
           Latest(s) == Max({p \in fns : Takes(p, s)})
           New(s) == Value(code[Latest(s)].target.binding, Latest(s), i)
           Ends1 == {Len(slots)} \cup {At1(p) : p \in fns}
<1>5. PICK k \in Nat : k = Len(slots) /\ DOMAIN slots = 1 .. k /\ \A s \in 1 .. k : slots[s] \in Vals
  BY LenProperties, ElementOfSeq
<1>6. PICK m \in Nat : m = Max(Ends1) /\ k <= m /\ \A p \in fns : At1(p) <= m
  <2>1. PICK f : f = [p \in 1 .. n |-> IF p \in fns THEN At1(p) ELSE 0]
    OBVIOUS
  <2>2. \A p \in 1 .. n : f[p] \in Nat
    BY <1>4, <2>1
  <2>3. PICK b \in Nat : \A p \in 1 .. n : f[p] <= b
    BY <2>2, Bounded
  <2>4. \A p \in fns : At1(p) \in Nat /\ At1(p) <= b
    BY <1>3, <1>4, <2>1, <2>3
  <2>5. Ends1 \subseteq 0 .. k + b
    <3>1. k \in 0 .. k + b
      OBVIOUS
    <3>2. \A p \in fns : At1(p) \in 0 .. k + b
      <4>1. SUFFICES ASSUME NEW p \in fns
                     PROVE  At1(p) \in 0 .. k + b
        OBVIOUS
      <4>2. PICK a \in Nat : a = At1(p) /\ a <= b
        BY <2>4
      <4>3. a \in 0 .. k + b
        BY <4>2
      <4>4. QED
        BY <4>2, <4>3
    <3>3. QED
      BY <1>5, <3>1, <3>2
  <2>6. PICK S : S = Ends1 /\ S # {} /\ \E d \in Nat : S \subseteq 0 .. d
    <3>1. k + b \in Nat /\ Ends1 # {}
      OBVIOUS
    <3>2. \E d \in Nat : Ends1 \subseteq 0 .. d
      BY <2>5, <3>1
    <3>3. QED
      BY <3>1, <3>2
  <2>7. Max(S) \in S /\ \A x \in S : Max(S) >= x
    BY <2>6, GreatestOrNone
  <2>8. k \in S /\ \A p \in fns : At1(p) \in S
    BY <1>5, <2>6
  <2>9. PICK m \in Nat : m = Max(S) /\ \A x \in S : x <= m
    <3>1. \A x \in S : x \in Nat
      BY <2>6
    <3>2. PICK l \in Nat : l = Max(S) /\ \A x \in S : l >= x
      BY <2>7, <3>1
    <3>3. \A x \in S : x <= l
      BY <3>1, <3>2
    <3>4. QED
      BY <3>2, <3>3
  <2>10. QED
    BY <2>6, <2>8, <2>9
<1>7. ASSUME NEW s, \E p \in fns : Takes(p, s)
      PROVE  \E p \in fns : At1(p) = s /\ New(s) = Value(Binding(p, "own"), p, i)
  <2>1. PICK S : S = {p \in fns : Takes(p, s)}
    OBVIOUS
  <2>2. S \subseteq 1 .. n /\ S # {} /\ S \subseteq fns
    BY <1>3, <1>7, <2>1
  <2>3. PICK l \in S : l = Max(S)
    BY <2>2, Greatest
  <2>4. l \in fns /\ At1(l) = s
    BY <2>1, <2>3
  <2>5. New(s) = Value(code[l].target.binding, l, i)
    BY <2>1, <2>3
  <2>6. QED
    BY <1>4, <2>4, <2>5
<1>8. new = [s \in 1 .. m |-> IF \E p \in fns : Takes(p, s) THEN New(s) ELSE IF s \in DOMAIN slots THEN slots[s] ELSE Void]
  BY <1>2, <1>6 DEF Hoist, Stored
<1> HIDE DEF New, Latest, Ends1
<1>9. \A s \in 1 .. m : \/ ~(\E p \in fns : Takes(p, s)) /\ new[s] = IF s \in 1 .. k THEN slots[s] ELSE Void
                        \/ \E p \in fns : At1(p) = s /\ new[s] = Value(Binding(p, "own"), p, i)
  <2>1. SUFFICES ASSUME NEW s \in 1 .. m
                 PROVE  \/ ~(\E p \in fns : Takes(p, s)) /\ new[s] = IF s \in 1 .. k THEN slots[s] ELSE Void
                        \/ \E p \in fns : At1(p) = s /\ new[s] = Value(Binding(p, "own"), p, i)
    OBVIOUS
  <2>2. CASE \E p \in fns : Takes(p, s)
    <3>1. new[s] = New(s)
      BY <1>8, <2>2
    <3>2. QED
      BY <1>7, <2>2, <3>1
  <2>3. CASE ~(\E p \in fns : Takes(p, s))
    BY <1>5, <1>8, <2>3
  <2>4. QED
    BY <2>2, <2>3
<1>10. DOMAIN new = 1 .. m
  BY <1>8
<1>11. \A s \in 1 .. m : \/ Hoisted(code, open, i, new, s)
                         \/ ~(\E p \in fns : Takes(p, s)) /\ new[s] = IF s \in 1 .. k THEN slots[s] ELSE Void
  BY <1>1, <1>3, <1>9, <1>10 DEF Hoisted
<1>12. \A s \in 1 .. m : new[s] \in Vals
  <2>1. \A p \in 1 .. n : Value(Binding(p, "own"), p, i) \in Vals
    BY DEF Value, Binding, Vals, Bound, Roles
  <2>2. Void \in Vals
    BY DEF Void, Value, Vals, Bound, Roles, Nothing, Binding
  <2>3. QED
    BY <1>3, <1>5, <1>9, <2>1, <2>2
<1>13. new \in Seq(Vals)
  <2>1. new \in [1 .. m -> Vals]
    BY <1>8, <1>10, <1>12
  <2>2. QED
    BY <2>1, Listed
<1>14. \A p \in fns : Hoisted(code, open, i, new, At1(p))
  <2>1. \A p \in fns : At1(p) \in 1 .. m
    BY <1>4, <1>6
  <2>2. QED
    BY <1>11, <2>1
<1>15. \A s \in 1 .. k : s \in 1 .. m
  BY <1>6
<1>16. QED
  BY <1>1, <1>3, <1>5, <1>10, <1>11, <1>13, <1>14, <1>15 DEF Hoists

(* What the functions of a body are stored to: nothing of the body's        *)
(* declarations is missing, if the others had been stored.                  *)
Furnished(c, open, i, slots, new) ==
  /\ new \in Seq(Vals) /\ Fixed(c, open, new) /\ Supplied(c, open, new)
  /\ \A s \in DOMAIN new : new[s].fn # 0 => new[s].scope = i \/ (s \in DOMAIN slots /\ new[s] = slots[s])

LEMMA HoistKept ==
  ASSUME NEW t, Whole(t, code), Sorted(code), NEW open, NEW slots \in Seq(Vals), Fixed(code, open, slots),
         \A b \in Decls(code) : /\ DeclIn(code, b) = open /\ GivenIn(code, b)
                                /\ ~(b.role = "own" /\ code[b.at].op = "fn")
                                => Stands(slots, SlotOf(code, b) + 1),
         NEW i \in Nat, NEW new, new = Hoist(slots, open, i)
  PROVE  Furnished(code, open, i, slots, new)
<1>1. Hoists(code, open, i, slots, new)
  BY HoistShape
<1>2. \A s : Hoisted(code, open, i, new, s) =>
               /\ s \in DOMAIN new /\ new[s].binding # Nothing /\ new[s].scope = i /\ Proper(code, open, s, new[s])
  <2>1. SUFFICES ASSUME NEW s, NEW p \in 1 .. Len(code), code[p].op = "fn", code[p].inside = open,
                        code[p].target.slot + 1 = s,
                        s \in DOMAIN new, new[s] = Value(Binding(p, "own"), p, i)
                 PROVE  new[s].binding # Nothing /\ new[s].scope = i /\ Proper(code, open, s, new[s])
    BY DEF Hoisted
  <2>2. PICK b : b = Binding(p, "own")
    OBVIOUS
  <2>3. b \in Decls(code) /\ b.at = p /\ b.role = "own"
    BY <2>1, <2>2, DeclParts DEF Binding
  <2>4. new[s].binding = b /\ new[s].scope = i
    BY <2>1, <2>2 DEF Value
  <2>5. b # Nothing
    BY <2>3 DEF Nothing, Binding
  <2>6. DeclIn(code, b) = open /\ SlotOf(code, b) + 1 = s
    BY <2>1, <2>3 DEF DeclIn, SlotOf
  <2>7. QED
    BY <2>3, <2>4, <2>5, <2>6 DEF Proper
<1>3. Void.binding = Nothing /\ Void.fn = 0
  BY DEF Void, Value
<1>4. Fixed(code, open, new)
  BY <1>1, <1>2, <1>3 DEF Hoists, Fixed, Proper
<1>5. Supplied(code, open, new)
  <2>1. SUFFICES ASSUME NEW b \in Decls(code), DeclIn(code, b) = open, GivenIn(code, b)
                 PROVE  Stands(new, SlotOf(code, b) + 1)
    BY DEF Supplied
  <2>2. CASE b.role = "own" /\ code[b.at].op = "fn"
    <3>1. b.at \in 1 .. Len(code) /\ code[b.at].inside = open /\ SlotOf(code, b) = code[b.at].target.slot
      BY <2>1, <2>2, DeclParts DEF DeclIn, SlotOf
    <3>2. Hoisted(code, open, i, new, SlotOf(code, b) + 1)
      BY <1>1, <2>2, <3>1 DEF Hoists
    <3>3. QED
      BY <1>2, <3>2 DEF Stands
  <2>3. CASE ~(b.role = "own" /\ code[b.at].op = "fn")
    <3>1. PICK s : s = SlotOf(code, b) + 1 /\ Stands(slots, s)
      BY <2>1, <2>3
    <3>2. s \in DOMAIN new /\ (Hoisted(code, open, i, new, s) \/ new[s] = slots[s])
      BY <1>1, <3>1 DEF Hoists, Stands
    <3>3. QED
      BY <1>2, <3>1, <3>2 DEF Stands
  <2>4. QED
    BY <2>2, <2>3
<1>6. \A s \in DOMAIN new : new[s].fn # 0 => new[s].scope = i \/ (s \in DOMAIN slots /\ new[s] = slots[s])
  BY <1>1, <1>2, <1>3 DEF Hoists
<1>7. QED
  BY <1>1, <1>4, <1>5, <1>6 DEF Hoists, Furnished

-----------------------------------------------------------------------------
(***************************************************************************)
(* Scopes that have what is given to them, and those that are behind them. *)
(***************************************************************************)

Ready(c, h, i) == Supplied(c, h[i].open, h[i].slots)

(* The scope behind this one is ready, and those of the functions in it.    *)
Tended(c, h, i) ==
  /\ h[i].slots \in Seq(Vals) /\ Fixed(c, h[i].open, h[i].slots)
  /\ Upper(h, i) # 0 => Ready(c, h, Upper(h, i))
  /\ \A s \in DOMAIN h[i].slots : h[i].slots[s].fn # 0 => Ready(c, h, h[i].slots[s].scope)

Cared(c, h) == \A i \in 1 .. Len(h) : Tended(c, h, i)

(* All scopes that are entered are ready, but for that of a loop that has   *)
(* not begun.                                                               *)
Keeping(c, h, a, q) ==
  /\ Cared(c, h)
  /\ \A k \in 1 .. Len(a) - 1 : Ready(c, h, a[k])
  /\ Ready(c, h, Last(a)) \/ (h[Last(a)].open = q /\ q \in 1 .. Len(c))

Readier(c, h, g) == Grown(h, g) /\ \A i \in 1 .. Len(h) : Ready(c, h, i) => Ready(c, g, i)

LEMMA TendedStays ==
  ASSUME NEW c, NEW h, Good(c, h), NEW g, Readier(c, h, g),
         NEW i \in 1 .. Len(h), Tended(c, h, i), g[i].slots = h[i].slots
  PROVE  Tended(c, g, i)
<1>1. g[i].open = h[i].open /\ g[i].parent = h[i].parent /\ g[i].captured = h[i].captured
  BY DEF Readier, Grown
<1>2. Upper(g, i) = Upper(h, i)
  BY <1>1 DEF Upper
<1>3. Upper(h, i) # 0 => Upper(h, i) \in 1 .. Len(h)
  <2>1. Upper(h, i) \in 0 .. Len(h) /\ Len(h) \in Nat
    BY GoodParts
  <2>2. QED
    BY <2>1
<1>4. Upper(g, i) # 0 => Ready(c, g, Upper(g, i))
  BY <1>2, <1>3 DEF Tended, Readier
<1>5. ASSUME NEW s \in DOMAIN h[i].slots, h[i].slots[s].fn # 0
      PROVE  Ready(c, g, h[i].slots[s].scope)
  <2>1. Filled(c, h, h[i].slots)
    BY GoodParts DEF Sound
  <2>2. h[i].slots[s].scope \in 1 .. Len(h)
    BY <1>5, <2>1 DEF Filled, Holds
  <2>3. Ready(c, h, h[i].slots[s].scope)
    BY <1>5 DEF Tended
  <2>4. QED
    BY <2>2, <2>3 DEF Readier
<1>6. QED
  BY <1>1, <1>4, <1>5 DEF Tended

(* The functions in the slots of scope i are of scopes that are ready, or   *)
(* its own.                                                                 *)
KeptIn(c, h, i, slots) ==
  \A s \in DOMAIN slots :
    slots[s].fn # 0 => slots[s].scope = i \/ (slots[s].scope \in 1 .. Len(h) /\ Ready(c, h, slots[s].scope))

SlotsNow(h, g, i, slots) ==
  /\ Grown(h, g) /\ Len(g) = Len(h) /\ g[i].slots = slots
  /\ \A j \in 1 .. Len(h) : j # i => g[j] = h[j]

LEMMA SlotsChange ==
  ASSUME NEW c, NEW h, Good(c, h), NEW i \in 1 .. Len(h), NEW slots, Filled(c, h, slots),
         NEW g, g = [h EXCEPT ![i].slots = slots]
  PROVE  SlotsNow(h, g, i, slots)
<1>1. Grown(h, g) /\ Len(g) = Len(h)
  <2>1. Good(c, h) /\ Filled(c, h, slots) /\ g = [h EXCEPT ![i].slots = slots]
    OBVIOUS
  <2>2. Grown(h, g)
    BY <2>1, SlotsSet
  <2>3. Len(g) = Len(h)
    BY <2>1, SlotsSet
  <2>4. QED
    BY <2>2, <2>3
<1>2. PICK X : h \in Seq([open : Nat, parent : Nat, captured : Nat, back : Nat, slots : X])
  BY DEF Good, Scopes
<1>3. h[i] \in [open : Nat, parent : Nat, captured : Nat, back : Nat, slots : X] /\ DOMAIN h = 1 .. Len(h)
  BY <1>2, ElementOfSeq, LenProperties
<1>4. g[i].slots = slots /\ \A j \in 1 .. Len(h) : j # i => g[j] = h[j]
  BY <1>3
<1>5. QED
  BY <1>1, <1>4 DEF SlotsNow

LEMMA SlotsTended ==
  ASSUME NEW c, NEW h, Good(c, h), Cared(c, h), NEW i \in 1 .. Len(h), NEW slots \in Seq(Vals),
         Filled(c, h, slots), Fixed(c, h[i].open, slots), Supplied(c, h[i].open, slots), KeptIn(c, h, i, slots),
         NEW g, g = [h EXCEPT ![i].slots = slots]
  PROVE  /\ Cared(c, g) /\ Readier(c, h, g) /\ Ready(c, g, i)
         /\ Len(g) = Len(h) /\ g[i].slots = slots /\ g[i].open = h[i].open
         /\ \A j \in 1 .. Len(h) : j # i => g[j] = h[j]
<1>1. SlotsNow(h, g, i, slots)
  BY SlotsChange
<1>2. /\ Grown(h, g) /\ Len(g) = Len(h)
      /\ g[i].slots = slots /\ \A j \in 1 .. Len(h) : j # i => g[j] = h[j]
  BY <1>1 DEF SlotsNow
<1>3. g[i].open = h[i].open
  BY <1>2 DEF Grown
<1>4. Ready(c, g, i)
  BY <1>2, <1>3 DEF Ready
<1>5. Readier(c, h, g)
  <2>1. \A j \in 1 .. Len(h) : Ready(c, h, j) => Ready(c, g, j)
    BY <1>2, <1>4 DEF Ready
  <2>2. QED
    BY <1>2, <2>1 DEF Readier
<1>6. Tended(c, g, i)
  <2>1. Upper(g, i) # 0 => Ready(c, g, Upper(g, i))
    <3>1. Upper(g, i) = Upper(h, i)
      BY <1>2 DEF Grown, Upper
    <3>2. Upper(h, i) \in 0 .. Len(h) /\ Len(h) \in Nat
      BY GoodParts
    <3>3. Upper(h, i) # 0 => Upper(h, i) \in 1 .. Len(h)
      BY <3>2
    <3>4. QED
      BY <1>5, <3>1, <3>3 DEF Cared, Tended, Readier
  <2>2. \A s \in DOMAIN slots : slots[s].fn # 0 => Ready(c, g, slots[s].scope)
    BY <1>4, <1>5 DEF KeptIn, Readier
  <2>3. QED
    BY <1>2, <1>3, <2>1, <2>2 DEF Tended
<1>7. \A j \in 1 .. Len(h) : j # i => Tended(c, g, j)
  BY <1>2, <1>5, TendedStays DEF Cared
<1>8. QED
  BY <1>2, <1>3, <1>4, <1>5, <1>6, <1>7 DEF Cared

LEMMA EnterTended ==
  ASSUME NEW c, NEW h, Good(c, h), Cared(c, h), NEW filling \in Seq(Vals), NEW open, NEW parent, NEW captured, NEW back,
         NEW frame, frame = [open |-> open, parent |-> parent, captured |-> captured, back |-> back, slots |-> filling],
         NEW g, JoinsHeap(h, frame, g),
         NEW up \in 0 .. Len(h), up = (IF captured # 0 THEN captured ELSE parent), up # 0 => Ready(c, h, up),
         Fixed(c, open, filling), KeptIn(c, h, Len(h) + 1, filling),
         Supplied(c, open, filling) \/ \A s \in DOMAIN filling : filling[s].fn = 0
  PROVE  /\ Cared(c, g) /\ Readier(c, h, g)
         /\ Supplied(c, open, filling) => Ready(c, g, Len(h) + 1)
         /\ g[Len(h) + 1].open = open
<1>1. PICK n \in Nat : /\ n = Len(h) /\ Grown(h, g) /\ Len(g) = n + 1 /\ g[n + 1] = frame
                       /\ \A j \in 1 .. n : g[j] = h[j]
  BY DEF JoinsHeap
<1>2. /\ g[n + 1].open = open /\ g[n + 1].slots = filling
      /\ g[n + 1].parent = parent /\ g[n + 1].captured = captured
  BY <1>1
<1>3. Readier(c, h, g)
  BY <1>1 DEF Readier, Ready
<1>4. Supplied(c, open, filling) => Ready(c, g, n + 1)
  BY <1>2 DEF Ready
<1>5. Tended(c, g, n + 1)
  <2>1. Upper(g, n + 1) = up
    BY <1>2 DEF Upper
  <2>2. up # 0 => Ready(c, g, up)
    BY <1>1, <1>3 DEF Readier
  <2>3. \A s \in DOMAIN filling : filling[s].fn # 0 => Ready(c, g, filling[s].scope)
    BY <1>1, <1>3, <1>4 DEF KeptIn, Readier
  <2>4. QED
    BY <1>2, <2>1, <2>2, <2>3 DEF Tended
<1>6. \A j \in 1 .. n : Tended(c, g, j)
  BY <1>1, <1>3, TendedStays DEF Cared
<1>7. \A j \in 1 .. n + 1 : j = n + 1 \/ j \in 1 .. n
  OBVIOUS
<1>8. QED
  BY <1>1, <1>2, <1>3, <1>4, <1>5, <1>6, <1>7 DEF Cared

-----------------------------------------------------------------------------
(***************************************************************************)
(* A step of the run, and what is stored.                                  *)
(***************************************************************************)

KeptNext ==
  \E h, a, q :
    /\ h = heap' /\ a = active' /\ q = pc' /\ Keeping(code, h, a, q)
    /\ \A i \in 1 .. Len(heap) : (Iterate /\ i = Last(active)) \/ Lasting(heap[i].slots, h[i].slots)

LEMMA StayKept ==
  ASSUME Keeping(code, heap, active, pc), UNCHANGED <<heap, active>>,
         UNCHANGED pc \/ Ready(code, heap, Last(active))
  PROVE  KeptNext
<1>1. PICK h, a, q : h = heap' /\ a = active' /\ q = pc'
  OBVIOUS
<1>2. Keeping(code, h, a, q)
  BY <1>1 DEF Keeping
<1>3. \A i \in 1 .. Len(heap) : Lasting(heap[i].slots, h[i].slots)
  BY <1>1 DEF Lasting
<1>4. QED
  BY <1>1, <1>2, <1>3 DEF KeptNext

(* The slots of one scope. *)
LEMMA SlotsKept ==
  ASSUME Runs(text, code, heap, active, pc), Keeping(code, heap, active, pc),
         NEW i \in 1 .. Len(heap), NEW slots \in Seq(Vals),
         Filled(code, heap, slots), Fixed(code, heap[i].open, slots), Supplied(code, heap[i].open, slots),
         KeptIn(code, heap, i, slots),
         (Iterate /\ i = Last(active)) \/ Lasting(heap[i].slots, slots),
         Ready(code, heap, Last(active)) \/ i = Last(active),
         InScope(i, slots), UNCHANGED active
  PROVE  KeptNext
<1>1. PICK h, a, q : h = heap' /\ a = active' /\ q = pc'
  OBVIOUS
<1>2. Good(code, heap) /\ Cared(code, heap) /\ h = [heap EXCEPT ![i].slots = slots] /\ a = active
  BY <1>1 DEF Runs, Keeping, InScope
<1>3. SlotsNow(heap, h, i, slots)
  BY <1>2, SlotsChange
<1>4. Cared(code, h) /\ Readier(code, heap, h) /\ Ready(code, h, i)
  <2>1. Cared(code, h)
    BY <1>2, SlotsTended
  <2>2. Readier(code, heap, h)
    BY <1>2, SlotsTended
  <2>3. Ready(code, h, i)
    BY <1>2, SlotsTended
  <2>4. QED
    BY <2>1, <2>2, <2>3
<1>5. PICK n \in Nat : n = Len(a) /\ Last(a) \in 1 .. Len(heap) /\ \A k \in 1 .. n : a[k] \in 1 .. Len(heap)
  BY <1>2, StackTop DEF Runs
<1>6. \A k \in 1 .. n - 1 : Ready(code, h, a[k])
  <2>1. \A k \in 1 .. n - 1 : k \in 1 .. n /\ Ready(code, heap, a[k])
    BY <1>2, <1>5 DEF Keeping
  <2>2. QED
    BY <1>4, <1>5, <2>1 DEF Readier
<1>7. Ready(code, h, Last(a))
  BY <1>2, <1>4, <1>5 DEF Readier
<1>8. Keeping(code, h, a, q)
  BY <1>4, <1>5, <1>6, <1>7 DEF Keeping
<1>9. ASSUME NEW j \in 1 .. Len(heap)
      PROVE  (Iterate /\ j = Last(active)) \/ Lasting(heap[j].slots, h[j].slots)
  <2>1. CASE j = i
    BY <1>3, <2>1 DEF SlotsNow
  <2>2. CASE j # i
    BY <1>3, <2>2 DEF SlotsNow, Lasting
  <2>3. QED
    BY <2>1, <2>2
<1>10. QED
  BY <1>1, <1>8, <1>9 DEF KeptNext

(* A scope on top. *)
LEMMA EnterKept ==
  ASSUME Runs(text, code, heap, active, pc), Keeping(code, heap, active, pc), Ready(code, heap, Last(active)),
         NEW open \in 1 .. Len(code), open \in Nat,
         NEW captured \in 0 .. Len(heap), captured # 0 => Ready(code, heap, captured),
         NEW back \in Nat, NEW slots, NEW hoisted \in BOOLEAN, Enter(open, captured, back, slots, hoisted),
         NEW filling \in Seq(Vals), filling = (IF hoisted THEN Hoist(slots, open, Len(heap) + 1) ELSE slots),
         Fixed(code, open, filling), KeptIn(code, heap, Len(heap) + 1, filling),
         \/ Supplied(code, open, filling)
         \/ pc' = open /\ \A s \in DOMAIN filling : filling[s].fn = 0
  PROVE  KeptNext
<1>1. PICK g, a, q : g = heap' /\ a = active' /\ q = pc'
  OBVIOUS
<1>2. Good(code, heap) /\ Cared(code, heap) /\ Stack(code, heap, active)
  BY DEF Runs, Keeping
<1>3. PICK top \in 1 .. Len(heap) : top = Last(active) /\ active # << >> /\ active \in Seq(1 .. Len(heap))
  BY <1>2, StackTop DEF Stack
<1>4. PICK n \in Nat : n = Len(heap)
  BY <1>2, GoodParts
<1>5. PICK frame : frame = [open |-> open, parent |-> top, captured |-> captured, back |-> back, slots |-> filling]
  OBVIOUS
<1>6. g = Append(heap, frame) /\ a = Append(active, n + 1)
  BY <1>1, <1>3, <1>4, <1>5 DEF Enter, Scope
<1>7. top \in 0 .. Len(heap)
  BY <1>3, <1>4
<1>8. JoinsHeap(heap, frame, g)
  BY <1>2, <1>5, <1>6, <1>7, Joined
<1>9. PICK up \in 0 .. Len(heap) : up = (IF captured # 0 THEN captured ELSE top)
  BY <1>7
<1>10. up # 0 => Ready(code, heap, up)
  BY <1>3, <1>9
<1>11. Supplied(code, open, filling) \/ \A s \in DOMAIN filling : filling[s].fn = 0
  OBVIOUS
<1>12. /\ Cared(code, g) /\ Readier(code, heap, g)
       /\ Supplied(code, open, filling) => Ready(code, g, Len(heap) + 1)
       /\ g[Len(heap) + 1].open = open
  BY <1>2, <1>5, <1>8, <1>9, <1>10, <1>11, EnterTended
<1>13. PICK m \in Nat : m = Len(active) /\ \A k \in 1 .. m : active[k] \in 1 .. Len(heap)
  BY <1>2, StackTop
<1>14. Len(a) = m + 1 /\ Last(a) = n + 1 /\ \A k \in 1 .. m : a[k] = active[k]
  <2>1. PICK S : S = 1 .. Len(heap) \cup {n + 1}
    OBVIOUS
  <2>2. active \in Seq(S) /\ n + 1 \in S
    BY <1>3, <2>1, SeqMonotonic
  <2>3. a \in Seq(S) /\ Len(a) = m + 1 /\ a[m + 1] = n + 1 /\ \A k \in 1 .. m : a[k] = active[k]
    BY <1>6, <1>13, <2>2, AppendProperties
  <2>4. a # << >>
    BY <2>3, EmptySeq
  <2>5. QED
    BY <2>3, <2>4, FrontLast
<1>15. \A k \in 1 .. Len(a) - 1 : Ready(code, g, a[k])
  <2>1. \A k \in 1 .. m : Ready(code, heap, active[k])
    <3>1. SUFFICES ASSUME NEW k \in 1 .. m
                   PROVE  Ready(code, heap, active[k])
      OBVIOUS
    <3>2. k \in 1 .. m - 1 \/ k = m
      BY <1>13
    <3>3. active[m] = top
      BY <1>2, <1>3, <1>13, StackTop
    <3>4. QED
      BY <1>3, <1>13, <3>2, <3>3 DEF Keeping
  <2>2. Len(a) - 1 = m
    BY <1>14
  <2>3. QED
    BY <1>12, <1>13, <1>14, <2>1, <2>2 DEF Readier
<1>16. Keeping(code, g, a, q)
  BY <1>1, <1>4, <1>12, <1>14, <1>15 DEF Keeping
<1>17. \A i \in 1 .. Len(heap) : Lasting(heap[i].slots, g[i].slots)
  BY <1>8 DEF JoinsHeap, Lasting
<1>18. QED
  BY <1>1, <1>16, <1>17 DEF KeptNext

(* The scope on top is left. *)
LEMMA LeaveKept ==
  ASSUME Runs(text, code, heap, active, pc), Keeping(code, heap, active, pc),
         heap[Last(active)].open # 0, NEW item, Leave(item)
  PROVE  KeptNext
<1>1. PICK h, a, q : h = heap' /\ a = active' /\ q = pc'
  OBVIOUS
<1>2. Stack(code, heap, active) /\ h = heap /\ a = Front(active)
  BY <1>1 DEF Runs, Leave
<1>3. PICK n \in Nat : /\ n = Len(active) /\ n >= 1 /\ Last(active) = active[n]
                       /\ active \in Seq(1 .. Len(heap)) /\ active # << >> /\ heap[active[1]].open = 0
  BY <1>2, StackTop DEF Stack
<1>4. n # 1
  BY <1>3
<1>5. Len(a) = n - 1 /\ \A k \in 1 .. n - 1 : a[k] = active[k]
  BY <1>2, <1>3, FrontLast
<1>6. Stack(code, heap, a)
  BY <1>2, StackLeft
<1>7. Last(a) = a[n - 1] /\ n - 1 \in 1 .. n - 1
  BY <1>3, <1>4, <1>5, <1>6, StackTop
<1>8. \A k \in 1 .. n - 1 : Ready(code, heap, active[k])
  BY <1>3 DEF Keeping
<1>9. \A k \in 1 .. (n - 1) - 1 : k \in 1 .. n - 1
  BY <1>3
<1>10. Keeping(code, h, a, q)
  BY <1>2, <1>5, <1>7, <1>8, <1>9 DEF Keeping
<1>11. \A i \in 1 .. Len(heap) : Lasting(heap[i].slots, h[i].slots)
  BY <1>2 DEF Lasting
<1>12. QED
  BY <1>1, <1>10, <1>11 DEF KeptNext

(* A value that can be stored anywhere. *)
Worth(c, h, v) ==
  Holds(c, h, v) /\ v \in Vals /\ (v.fn # 0 => v.scope \in 1 .. Len(h) /\ Ready(c, h, v.scope))

LEMMA VoidWorth ==
  ASSUME NEW c, NEW h
  PROVE  Worth(c, h, Void) /\ Void.fn = 0 /\ Void \in Vals
<1>1. Holds(c, h, Void) /\ Void.fn = 0
  BY VoidHolds DEF Void, Value
<1>2. QED
  BY <1>1 DEF Worth, Holds

LEMMA GetWorth ==
  ASSUME Good(code, heap), Cared(code, heap), NEW top, top = Last(active), top \in 1 .. Len(heap), NEW ref \in Refs,
         Get(ref) # Missing
  PROVE  Worth(code, heap, Get(ref))
<1>1. PICK v, i : v = Get(ref) /\ i = Target(ref.depth)
  OBVIOUS
<1>2. Holds(code, heap, v) /\ i \in 1 .. Len(heap)
  BY <1>1, GetHolds
<1>3. ref.slot + 1 \in DOMAIN heap[i].slots /\ v = heap[i].slots[ref.slot + 1]
  BY <1>1 DEF Get
<1>4. v.fn # 0 => Ready(code, heap, v.scope)
  BY <1>2, <1>3 DEF Cared, Tended
<1>5. QED
  BY <1>1, <1>2, <1>4 DEF Worth, Holds

LEMMA EvalWorth ==
  ASSUME Good(code, heap), Cared(code, heap), NEW top, top = Last(active), top \in 1 .. Len(heap), NEW ref \in Refs,
         NEW name, Eval(name, ref) # Missing
  PROVE  Worth(code, heap, Eval(name, ref))
BY GetWorth, VoidWorth DEF Eval

(* Up is always a scope that is ready. *)
LEMMA UpReady ==
  ASSUME Good(code, heap), Cared(code, heap), NEW top, top = Last(active), top \in 1 .. Len(heap), NEW n \in Nat,
         NEW i, i = Target(n), i # 0
  PROVE  i = top \/ Ready(code, heap, i)
<1>1. top \in 0 .. Len(heap) /\ Len(heap) \in Nat
  BY GoodParts
<1>2. Climbed(heap, top, n, i)
  BY <1>1, TargetClimbs
<1>3. PICK f \in [0 .. n -> 0 .. Len(heap)] :
        /\ f[0] = top /\ f[n] = i
        /\ \A d \in 1 .. n : f[d] = IF f[d - 1] = 0 THEN 0 ELSE Upper(heap, f[d - 1])
  BY <1>2 DEF Climbed
<1>4. CASE n = 0
  BY <1>3, <1>4
<1>5. CASE n # 0
  <2>1. n \in 1 .. n /\ n - 1 \in 0 .. n
    BY <1>5
  <2>2. PICK j \in 0 .. Len(heap) : j = f[n - 1]
    BY <1>3, <2>1
  <2>3. j # 0 /\ i = Upper(heap, j)
    BY <1>3, <2>1, <2>2
  <2>4. j \in 1 .. Len(heap)
    BY <1>1, <2>2, <2>3
  <2>5. QED
    BY <2>3, <2>4 DEF Cared, Tended
<1>6. QED
  BY <1>4, <1>5

(* Unless the run is at the head of a loop, the scope on top is ready. *)
LEMMA TopReady ==
  ASSUME Runs(text, code, heap, active, pc), Keeping(code, heap, active, pc), status = "running",
         NEW op, Running(op), op \notin {"for", "while"} \/ ~AtHead
  PROVE  Ready(code, heap, Last(active))
<1>1. /\ pc \in 1 .. Len(code) /\ Here = code[pc] /\ pc \in Nat
      /\ heap[Last(active)].open = Here.inside \/ (heap[Last(active)].open = pc /\ op \in {"for", "while"})
  BY RunParts
<1>2. Here.inside < pc /\ Here.inside \in Nat
  BY <1>1, WholeParts DEF Runs
<1>3. heap[Last(active)].open # pc
  BY <1>1, <1>2 DEF AtHead
<1>4. QED
  BY <1>3 DEF Keeping

(* A value is stored for a declaration of the body. *)
LEMMA PutRunKept ==
  ASSUME Runs(text, code, heap, active, pc), Keeping(code, heap, active, pc), Sorted(code),
         Ready(code, heap, Last(active)),
         NEW i \in 1 .. Len(heap), Ready(code, heap, i), NEW ref \in Refs, ToDecl(code, ref),
         DeclIn(code, ref.binding) = heap[i].open, NEW v, Worth(code, heap, v),
         InScope(i, Put(heap[i].slots, ref, v)), UNCHANGED active
  PROVE  KeptNext
<1>1. PICK old, open, slots : old = heap[i].slots /\ open = heap[i].open /\ slots = Put(old, ref, v)
  OBVIOUS
<1>2. Good(code, heap) /\ Cared(code, heap)
  BY DEF Runs, Keeping
<1>3. /\ old \in Seq(Vals) /\ Fixed(code, open, old) /\ Supplied(code, open, old)
      /\ \A s \in DOMAIN old : old[s].fn # 0 => Ready(code, heap, old[s].scope)
  BY <1>1, <1>2 DEF Cared, Tended, Ready
<1>4. Filled(code, heap, old)
  BY <1>1, <1>2, GoodParts DEF Sound
<1>5. v \in Vals /\ Holds(code, heap, v)
  BY DEF Worth
<1>6. PutsIn(code, open, old, ref, v, slots)
  BY <1>1, <1>3, <1>5, PutKept
<1>7. slots \in Seq(Vals) /\ Fixed(code, open, slots) /\ Lasting(old, slots)
  BY <1>6 DEF PutsIn
<1>8. Supplied(code, open, slots)
  BY <1>3, <1>7, LastingSupplies
<1>9. Filled(code, heap, slots)
  BY <1>1, <1>4, <1>5, PutFilled
<1>10. KeptIn(code, heap, i, slots)
  <2>1. \A s \in DOMAIN old : old[s].fn # 0 => old[s].scope \in 1 .. Len(heap)
    BY <1>4 DEF Filled, Holds
  <2>2. QED
    BY <1>3, <1>6, <2>1 DEF KeptIn, PutsIn, Worth
<1>11. InScope(i, slots) /\ UNCHANGED active
  BY <1>1
<1>12. QED
  BY <1>1, <1>7, <1>8, <1>9, <1>10, <1>11, SlotsKept

-----------------------------------------------------------------------------
(***************************************************************************)
(* The actions of the run, and what is stored.                             *)
(***************************************************************************)

(* What an item declares, as it refers to it itself. *)
LEMMA OwnRef ==
  ASSUME NEW c, Sorted(c), NEW p \in 1 .. Len(c), c[p].op \in {"let", "fn", "lambda", "for"}
  PROVE  /\ ToDecl(c, c[p].target)
         /\ DeclIn(c, c[p].target.binding) = IF c[p].op = "for" THEN p ELSE c[p].inside
<1>1. c[p].target.binding = Binding(p, "own")
  BY DEF Sorted, Refers
<1>2. PICK b : b = Binding(p, "own")
  OBVIOUS
<1>3. b \in Decls(c) /\ b.at = p /\ b.role = "own"
  BY <1>2, DeclParts DEF Binding
<1>4. QED
  BY <1>1, <1>2, <1>3 DEF ToDecl, SlotOf, DeclIn

LEMMA ParamRef ==
  ASSUME NEW c, Sorted(c), NEW p \in 1 .. Len(c), c[p].op \in {"fn", "lambda"}
  PROVE  ToDecl(c, c[p].param) /\ c[p].param.binding = Binding(p, "param") /\ DeclIn(c, c[p].param.binding) = p
<1>1. c[p].param.binding = Binding(p, "param")
  BY DEF Sorted, Refers
<1>2. PICK b : b = Binding(p, "param")
  OBVIOUS
<1>3. b \in Decls(c) /\ b.at = p /\ b.role = "param"
  BY <1>2, DeclParts DEF Binding
<1>4. QED
  BY <1>1, <1>2, <1>3 DEF ToDecl, SlotOf, DeclIn

LEMMA EndsKept ==
  ASSUME Keeping(code, heap, active, pc), NEW how, Ends(how)
  PROVE  KeptNext
BY StayKept DEF Ends

LEMMA LetKept ==
  ASSUME Runs(text, code, heap, active, pc), Keeping(code, heap, active, pc), Sorted(code), status = "running", RunLet
  PROVE  KeptNext
<1>1. Running("let")
  BY DEF RunLet
<1>2. /\ pc \in 1 .. Len(code) /\ Here = code[pc] /\ Here.op = "let"
      /\ Here.target \in Refs /\ Here.other \in Refs
      /\ Good(code, heap) /\ Cared(code, heap)
      /\ Last(active) \in 1 .. Len(heap) /\ heap[Last(active)].open = Here.inside
  BY <1>1, RunParts DEF Keeping
<1>3. PICK top \in 1 .. Len(heap) : top = Last(active) /\ Ready(code, heap, top)
  BY <1>1, <1>2, TopReady
<1>4. PICK value : value = Eval(Source, Here.other)
  OBVIOUS
<1>5. CASE value = Missing
  <2>1. Ends("failed")
    BY <1>4, <1>5 DEF RunLet
  <2>2. QED
    BY <2>1, EndsKept
<1>6. CASE value # Missing
  <2>1. Worth(code, heap, value)
    BY <1>2, <1>3, <1>4, <1>6, EvalWorth
  <2>2. ToDecl(code, Here.target) /\ DeclIn(code, Here.target.binding) = heap[top].open
    BY <1>2, <1>3, OwnRef
  <2>3. InScope(top, Put(heap[top].slots, Here.target, value)) /\ UNCHANGED active
    BY <1>3, <1>4, <1>6 DEF RunLet
  <2>4. QED
    BY <1>2, <1>3, <2>1, <2>2, <2>3, PutRunKept
<1>7. QED
  BY <1>5, <1>6

(* Nothing is stored where no name refers to. *)
LEMMA NoRefMissing ==
  ASSUME Good(code, heap), Cared(code, heap), NEW top, top = Last(active), top \in 1 .. Len(heap)
  PROVE  Get(NoRef) = Missing
<1>1. SUFFICES ASSUME Get(NoRef) # Missing
               PROVE  FALSE
  OBVIOUS
<1>2. NoRef \in Refs /\ NoRef.slot + 1 = 0
  BY DEF NoRef, Refs, Nothing, Binding
<1>3. PICK i : i = Target(NoRef.depth)
  OBVIOUS
<1>4. i \in 1 .. Len(heap)
  BY <1>1, <1>2, <1>3, GetHolds
<1>5. 0 \in DOMAIN heap[i].slots
  BY <1>1, <1>2, <1>3 DEF Get
<1>6. heap[i].slots \in Seq(Vals)
  BY <1>4 DEF Cared, Tended
<1>7. DOMAIN heap[i].slots = 1 .. Len(heap[i].slots)
  BY <1>6, LenProperties
<1>8. QED
  BY <1>5, <1>7

LEMMA SetKept ==
  ASSUME Runs(text, code, heap, active, pc), Keeping(code, heap, active, pc), Sorted(code), status = "running", RunSet
  PROVE  KeptNext
<1>1. Running("set")
  BY DEF RunSet
<1>2. /\ pc \in 1 .. Len(code) /\ Here = code[pc] /\ Here.op = "set"
      /\ Here.target \in Refs /\ Here.other \in Refs
      /\ Good(code, heap) /\ Cared(code, heap) /\ Whole(text, code)
      /\ Last(active) \in 1 .. Len(heap) /\ heap[Last(active)].open = Here.inside
  BY <1>1, RunParts DEF Keeping
<1>3. PICK top \in 1 .. Len(heap) : top = Last(active) /\ Ready(code, heap, top)
  BY <1>1, <1>2, TopReady
<1>4. PICK value : value = Eval(Source, Here.other)
  OBVIOUS
<1>5. CASE value = Missing \/ Get(Here.target) = Missing
  <2>1. Ends("failed")
    BY <1>4, <1>5 DEF RunSet
  <2>2. QED
    BY <2>1, EndsKept
<1>6. CASE ~(value = Missing \/ Get(Here.target) = Missing)
  <2>1. Worth(code, heap, value)
    BY <1>2, <1>3, <1>4, <1>6, EvalWorth
  <2>2. PICK ref \in Refs : ref = Here.target /\ ref # NoRef
    BY <1>2, <1>3, <1>6, NoRefMissing
  <2>3. PICK n \in Nat : n = ref.depth
    BY DEF Refs
  <2>4. PICK i \in 1 .. Len(heap) : i = Target(n)
    BY <1>2, <1>3, <1>6, <2>2, <2>3, GetHolds
  <2>5. ToDecl(code, ref)
    BY <1>2, <2>2 DEF Sorted, Refers
  <2>6. Way(code, heap[top].open, ref)
    BY <1>2, <1>3, <2>2 DEF Whole, Line
  <2>7. heap[i].open = DeclIn(code, ref.binding)
    BY <1>2, <1>3, <2>3, <2>4, <2>6, Lands
  <2>8. Ready(code, heap, i)
    <3>1. i # 0
      OBVIOUS
    <3>2. i = top \/ Ready(code, heap, i)
      BY <1>2, <1>3, <2>4, <3>1, UpReady
    <3>3. QED
      BY <1>3, <3>2
  <2>9. InScope(i, Put(heap[i].slots, ref, value)) /\ UNCHANGED active
    BY <1>4, <1>6, <2>2, <2>3, <2>4 DEF RunSet
  <2>10. QED
    BY <1>3, <2>1, <2>5, <2>7, <2>8, <2>9, PutRunKept
<1>7. QED
  BY <1>5, <1>6

LEMMA FnKept ==
  ASSUME Runs(text, code, heap, active, pc), Keeping(code, heap, active, pc), Sorted(code), status = "running",
         RunFn \/ RunLambda
  PROVE  KeptNext
<1>1. PICK op \in {"fn", "lambda"} : Running(op)
  BY DEF RunFn, RunLambda
<1>2. /\ pc \in 1 .. Len(code) /\ Here = code[pc] /\ Here.op = op /\ pc \in Nat /\ Here.target \in Refs
      /\ Last(active) \in 1 .. Len(heap) /\ heap[Last(active)].open = Here.inside
  BY <1>1, RunParts
<1>3. PICK top \in 1 .. Len(heap) : top = Last(active) /\ Ready(code, heap, top) /\ top \in Nat
  BY <1>1, <1>2, TopReady
<1>4. CASE RunFn
  BY <1>3, <1>4, StayKept DEF RunFn
<1>5. CASE RunLambda
  <2>1. PICK value : value = Value(Nothing, pc, top)
    OBVIOUS
  <2>2. Holds(code, heap, value) /\ value.scope = top
    BY <1>2, <1>3, <2>1 DEF Holds, Value, Vals, Nothing, Binding, Bound, Roles
  <2>3. Worth(code, heap, value)
    BY <1>3, <2>2 DEF Worth, Holds
  <2>4. ToDecl(code, Here.target) /\ DeclIn(code, Here.target.binding) = heap[top].open
    BY <1>2, <1>3, OwnRef
  <2>5. InScope(top, Put(heap[top].slots, Here.target, value)) /\ UNCHANGED active
    BY <1>3, <1>5, <2>1 DEF RunLambda
  <2>6. QED
    BY <1>2, <1>3, <2>3, <2>4, <2>5, PutRunKept
<1>6. QED
  BY <1>4, <1>5

(* What is given to a body besides its functions is declared by the item    *)
(* that opens it.                                                           *)
LEMMA GivenHere ==
  ASSUME NEW c, NEW b \in Decls(c), NEW open, DeclIn(c, b) = open, GivenIn(c, b), ~(b.role = "own" /\ c[b.at].op = "fn")
  PROVE  /\ b.at = open /\ open \in 1 .. Len(c) /\ b = Binding(open, b.role)
         /\ \/ b.role \in {"self", "param"} /\ c[open].op \in {"fn", "lambda"}
            \/ b.role = "own" /\ c[open].op = "for"
<1>1. /\ b.at \in 1 .. Len(c) /\ b.role \in {"own", "self", "param"} /\ b = Binding(b.at, b.role)
      /\ b.role # "own" => c[b.at].op \in {"fn", "lambda"}
  BY DeclParts
<1>2. b.role = "own" => c[b.at].op = "for"
  BY <1>1 DEF GivenIn
<1>3. b.at = open
  BY <1>1, <1>2 DEF DeclIn
<1>4. QED
  BY <1>1, <1>2, <1>3

LEMMA FurnishedKept ==
  ASSUME NEW c, NEW h, NEW open, NEW i, NEW slots, NEW new, Furnished(c, open, i, slots, new), KeptIn(c, h, i, slots)
  PROVE  KeptIn(c, h, i, new)
BY DEF Furnished, KeptIn

(* The program and the block of an if start with nothing. *)
LEMMA BlankKept ==
  ASSUME NEW t, Whole(t, code), Sorted(code), NEW open,
         open = 0 \/ (open \in 1 .. Len(code) /\ code[open].op = "if"),
         NEW i \in Nat, NEW new, new = Hoist(<< >>, open, i)
  PROVE  Furnished(code, open, i, << >>, new)
<1>1. PICK none : none = << >>
  OBVIOUS
<1>2. none \in Seq(Vals) /\ Fixed(code, open, none)
  BY <1>1, EmptySeq DEF Fixed
<1>3. ASSUME NEW b \in Decls(code), DeclIn(code, b) = open, GivenIn(code, b), ~(b.role = "own" /\ code[b.at].op = "fn")
      PROVE  FALSE
  <2>1. open \in 1 .. Len(code) /\ code[open].op \in {"fn", "lambda", "for"}
    BY <1>3, GivenHere
  <2>2. QED
    BY <2>1
<1>4. new = Hoist(none, open, i)
  BY <1>1
<1>5. Furnished(code, open, i, none, new)
  BY <1>2, <1>3, <1>4, HoistKept
<1>6. QED
  BY <1>1, <1>5

(* A call has the function itself and the argument in its scope. *)
LEMMA CalledWith ==
  ASSUME NEW t, Whole(t, code), Sorted(code), Cared(code, heap), NEW callee, Worth(code, heap, callee),
         NEW argument, Worth(code, heap, argument),
         NEW item \in 1 .. Len(code), code[item].op \in {"fn", "lambda"},
         NEW self, self = [slot |-> 0, depth |-> 0, binding |-> Binding(item, "self")],
         NEW slots, slots = Put(Put(<< >>, self, callee), code[item].param, argument), NEW i \in Nat,
         NEW new, new = Hoist(slots, item, i)
  PROVE  Furnished(code, item, i, slots, new) /\ KeptIn(code, heap, i, new)
<1>1. PICK none, first : none = << >> /\ first = Put(none, self, callee)
  OBVIOUS
<1>2. PICK param \in Refs : param = code[item].param
  BY WholeParts
<1>3. self \in Refs /\ self.slot = 0 /\ self.binding = Binding(item, "self")
  BY WholeParts DEF Refs, Binding
<1>4. /\ ToDecl(code, self) /\ DeclIn(code, self.binding) = item
      /\ SlotOf(code, Binding(item, "self")) = 0
  BY <1>3, DeclParts DEF ToDecl, SlotOf, DeclIn, Binding
<1>5. /\ ToDecl(code, param) /\ DeclIn(code, param.binding) = item
      /\ SlotOf(code, Binding(item, "param")) = param.slot
  BY <1>2, ParamRef DEF ToDecl
<1>6. none \in Seq(Vals) /\ Fixed(code, item, none)
  BY <1>1, EmptySeq DEF Fixed
<1>7. callee \in Vals /\ argument \in Vals
  BY DEF Worth
<1>8. PutsIn(code, item, none, self, callee, first)
  BY <1>1, <1>3, <1>4, <1>6, <1>7, PutKept
<1>9. first \in Seq(Vals) /\ Fixed(code, item, first) /\ Stands(first, 1)
  BY <1>3, <1>8 DEF PutsIn
<1>10. slots = Put(first, param, argument)
  BY <1>1, <1>2
<1>11. PutsIn(code, item, first, param, argument, slots)
  BY <1>5, <1>7, <1>9, <1>10, PutKept
<1>12. /\ slots \in Seq(Vals) /\ Fixed(code, item, slots)
       /\ Stands(slots, 1) /\ Stands(slots, param.slot + 1)
  BY <1>9, <1>11 DEF PutsIn, Lasting, Stands
<1>13. ASSUME NEW b \in Decls(code), DeclIn(code, b) = item, GivenIn(code, b),
              ~(b.role = "own" /\ code[b.at].op = "fn")
       PROVE  Stands(slots, SlotOf(code, b) + 1)
  <2>1. b \in {Binding(item, "self"), Binding(item, "param")}
    <3>1. /\ b = Binding(item, b.role)
          /\ \/ b.role \in {"self", "param"}
             \/ code[item].op = "for"
      BY <1>13, GivenHere
    <3>2. QED
      BY <3>1
  <2>2. QED
    BY <1>4, <1>5, <1>12, <2>1
<1>14. Furnished(code, item, i, slots, new)
  BY <1>12, <1>13, HoistKept
<1>15. KeptIn(code, heap, i, slots)
  BY <1>1, <1>8, <1>11 DEF KeptIn, PutsIn, Worth
<1>16. QED
  BY <1>14, <1>15, FurnishedKept

LEMMA CallKept ==
  ASSUME Runs(text, code, heap, active, pc), Keeping(code, heap, active, pc), Sorted(code), status = "running", RunCall
  PROVE  KeptNext
<1>1. Running("call")
  BY DEF RunCall
<1>2. /\ pc \in 1 .. Len(code) /\ Here = code[pc] /\ Here.op = "call" /\ pc \in Nat /\ pc + 1 \in Nat
      /\ Here.target \in Refs /\ Here.other \in Refs
      /\ Good(code, heap) /\ Whole(text, code) /\ Cared(code, heap)
      /\ Last(active) \in 1 .. Len(heap) /\ Len(heap) \in Nat
  BY <1>1, RunParts DEF Keeping
<1>3. PICK top \in 1 .. Len(heap) : top = Last(active) /\ Ready(code, heap, top)
  BY <1>1, <1>2, TopReady
<1>4. PICK argument, callee :
        /\ argument = Eval(Source, Here.other)
        /\ callee = IF Here.target = NoRef THEN Missing ELSE Get(Here.target)
  OBVIOUS
<1>5. CASE argument = Missing \/ callee.fn <= 0
  <2>1. Ends("failed")
    BY <1>4, <1>5 DEF RunCall
  <2>2. QED
    BY <2>1, EndsKept
<1>6. CASE ~(argument = Missing \/ callee.fn <= 0)
  <2>1. Worth(code, heap, argument)
    BY <1>2, <1>3, <1>4, <1>6, EvalWorth
  <2>2. Worth(code, heap, callee) /\ callee.fn # 0
    <3>1. Missing.fn <= 0
      BY DEF Missing, Value
    <3>2. callee # Missing
      BY <1>6, <3>1
    <3>3. Worth(code, heap, callee)
      BY <1>2, <1>3, <1>4, <3>2, GetWorth
    <3>4. callee.fn \in Nat
      BY <3>3 DEF Worth, Vals
    <3>5. QED
      BY <1>6, <3>3, <3>4
  <2>3. PICK item \in 1 .. Len(code) : item = callee.fn /\ item \in Nat /\ code[item].op \in {"fn", "lambda"}
    BY <2>2 DEF Worth, Holds, Vals
  <2>4. PICK captured \in 0 .. Len(heap) : captured = callee.scope /\ Ready(code, heap, captured)
    BY <1>2, <2>2 DEF Worth
  <2>5. PICK self : self = [slot |-> 0, depth |-> 0, binding |-> Binding(item, "self")]
    OBVIOUS
  <2>6. PICK slots : slots = Put(Put(<< >>, self, callee), code[item].param, argument)
    OBVIOUS
  <2>7. Enter(item, captured, pc + 1, slots, TRUE)
    BY <1>4, <1>6, <2>3, <2>4, <2>5, <2>6 DEF RunCall
  <2>8. PICK i \in Nat : i = Len(heap) + 1
    BY <1>2
  <2>9. PICK filling : filling = Hoist(slots, item, i)
    OBVIOUS
  <2>10. Furnished(code, item, i, slots, filling) /\ KeptIn(code, heap, i, filling)
    <3>1. Furnished(code, item, i, slots, filling)
      BY <1>2, <2>1, <2>2, <2>3, <2>5, <2>6, <2>9, CalledWith
    <3>2. KeptIn(code, heap, i, filling)
      BY <1>2, <2>1, <2>2, <2>3, <2>5, <2>6, <2>9, CalledWith
    <3>3. QED
      BY <3>1, <3>2
  <2>11. filling \in Seq(Vals) /\ Fixed(code, item, filling) /\ Supplied(code, item, filling)
    BY <2>10 DEF Furnished
  <2>12. Ready(code, heap, Last(active))
    BY <1>3
  <2>13. filling = IF TRUE THEN Hoist(slots, item, Len(heap) + 1) ELSE slots
    BY <2>8, <2>9
  <2>14. KeptIn(code, heap, Len(heap) + 1, filling)
    BY <2>8, <2>10
  <2>15. QED
    BY <1>2, <2>3, <2>4, <2>7, <2>11, <2>12, <2>13, <2>14, EnterKept
<1>7. QED
  BY <1>5, <1>6

LEMMA IfKept ==
  ASSUME Runs(text, code, heap, active, pc), Keeping(code, heap, active, pc), Sorted(code), status = "running", RunIf
  PROVE  KeptNext
<1>1. Running("if")
  BY DEF RunIf
<1>2. /\ pc \in 1 .. Len(code) /\ Here = code[pc] /\ Here.op = "if" /\ pc \in Nat
      /\ Whole(text, code) /\ Last(active) \in 1 .. Len(heap) /\ Len(heap) \in Nat
  BY <1>1, RunParts
<1>3. Ready(code, heap, Last(active))
  BY <1>1, TopReady
<1>4. CASE Ends("failed")
  BY <1>4, EndsKept
<1>5. CASE Enter(pc, 0, EndOf(pc) + 1, << >>, TRUE) /\ Goto(pc + 1)
  <2>1. PICK back \in Nat : back = EndOf(pc) + 1
    BY <1>2, Ending DEF Opening
  <2>2. PICK i \in Nat : i = Len(heap) + 1
    BY <1>2
  <2>3. PICK none, filling : none = << >> /\ filling = Hoist(none, pc, i)
    OBVIOUS
  <2>4. Furnished(code, pc, i, none, filling)
    BY <1>2, <2>3, BlankKept
  <2>5. filling \in Seq(Vals) /\ Fixed(code, pc, filling) /\ Supplied(code, pc, filling)
    BY <2>4 DEF Furnished
  <2>6. KeptIn(code, heap, i, none)
    BY <2>3 DEF KeptIn
  <2>7. KeptIn(code, heap, Len(heap) + 1, filling)
    BY <2>2, <2>4, <2>6, FurnishedKept
  <2>8. filling = IF TRUE THEN Hoist(none, pc, Len(heap) + 1) ELSE none
    BY <2>2, <2>3
  <2>9. Enter(pc, 0, back, none, TRUE)
    BY <1>5, <2>1, <2>3
  <2>10. 0 \in 0 .. Len(heap)
    BY <1>2
  <2>11. QED
    BY <1>2, <1>3, <2>5, <2>7, <2>8, <2>9, <2>10, EnterKept
<1>6. CASE Goto(EndOf(pc) + 1) /\ UNCHANGED <<heap, active>>
  BY <1>3, <1>6, StayKept
<1>7. QED
  BY <1>4, <1>5, <1>6 DEF RunIf

(* What an iteration starts with: a for has its variable, and nothing else. *)
LEMMA LoopVariable ==
  ASSUME Sorted(code), NEW p \in 1 .. Len(code), code[p].op \in {"for", "while"}, code[p].target \in Refs,
         NEW empty \in Seq(Vals), \A s \in DOMAIN empty : empty[s] = Void,
         NEW slots, slots = IF code[p].op = "for" THEN Put(empty, code[p].target, Void) ELSE empty
  PROVE  /\ slots \in Seq(Vals) /\ Fixed(code, p, slots)
         /\ \A s \in DOMAIN slots : slots[s].fn = 0
         /\ \A b \in Decls(code) : /\ DeclIn(code, b) = p /\ GivenIn(code, b)
                                   /\ ~(b.role = "own" /\ code[b.at].op = "fn")
                                   => Stands(slots, SlotOf(code, b) + 1)
<1>1. Void.fn = 0 /\ Void \in Vals /\ Void.binding = Nothing
  BY VoidWorth DEF Void, Value
<1>2. Fixed(code, p, empty)
  BY <1>1 DEF Fixed, Proper
<1>3. \A b \in Decls(code) : /\ DeclIn(code, b) = p /\ GivenIn(code, b)
                             /\ ~(b.role = "own" /\ code[b.at].op = "fn")
                             => b = Binding(p, "own") /\ code[p].op = "for"
  <2>1. SUFFICES ASSUME NEW b \in Decls(code), DeclIn(code, b) = p, GivenIn(code, b),
                        ~(b.role = "own" /\ code[b.at].op = "fn")
                 PROVE  b = Binding(p, "own") /\ code[p].op = "for"
    OBVIOUS
  <2>2. /\ b = Binding(p, b.role)
        /\ \/ b.role \in {"self", "param"} /\ code[p].op \in {"fn", "lambda"}
           \/ b.role = "own" /\ code[p].op = "for"
    BY <2>1, GivenHere
  <2>3. QED
    BY <2>2
<1>4. CASE code[p].op = "for"
  <2>1. PICK ref \in Refs : ref = code[p].target
    OBVIOUS
  <2>2. ToDecl(code, ref) /\ DeclIn(code, ref.binding) = p /\ ref.binding = Binding(p, "own")
    BY <1>4, <2>1, OwnRef DEF Sorted, Refers
  <2>3. slots = Put(empty, ref, Void)
    BY <1>4, <2>1
  <2>4. PutsIn(code, p, empty, ref, Void, slots)
    BY <1>1, <1>2, <2>2, <2>3, PutKept
  <2>5. Stands(slots, SlotOf(code, Binding(p, "own")) + 1)
    BY <2>2, <2>4 DEF PutsIn, ToDecl
  <2>6. \A s \in DOMAIN slots : slots[s].fn = 0
    BY <1>1, <2>4 DEF PutsIn
  <2>7. QED
    BY <1>3, <2>4, <2>5, <2>6 DEF PutsIn
<1>5. CASE code[p].op # "for"
  BY <1>1, <1>2, <1>3, <1>5
<1>6. QED
  BY <1>4, <1>5

LEMMA BeginKept ==
  ASSUME Runs(text, code, heap, active, pc), Keeping(code, heap, active, pc), Sorted(code), status = "running", BeginLoop
  PROVE  KeptNext
<1>1. PICK op : op \in {"for", "while"} /\ Running(op) /\ ~AtHead
  BY DEF BeginLoop
<1>2. /\ pc \in 1 .. Len(code) /\ Here = code[pc] /\ Here.op \in {"for", "while"} /\ pc \in Nat
      /\ Here.target \in Refs /\ Last(active) \in 1 .. Len(heap) /\ Len(heap) \in Nat /\ EndOf(pc) + 1 \in Nat
  BY <1>1, LoopParts
<1>3. Ready(code, heap, Last(active))
  BY <1>1, TopReady
<1>4. CASE Ends("failed")
  BY <1>4, EndsKept
<1>5. PICK none, slots : none = << >> /\ slots = IF Here.op = "for" THEN Put(<< >>, Here.target, Void) ELSE << >>
  OBVIOUS
<1>6. CASE Enter(pc, 0, EndOf(pc) + 1, slots, FALSE) /\ Goto(pc)
  <2>1. none \in Seq(Vals) /\ \A s \in DOMAIN none : none[s] = Void
    BY <1>5, EmptySeq
  <2>2. slots = IF code[pc].op = "for" THEN Put(none, code[pc].target, Void) ELSE none
    BY <1>2, <1>5
  <2>3. slots \in Seq(Vals) /\ Fixed(code, pc, slots) /\ \A s \in DOMAIN slots : slots[s].fn = 0
    BY <1>2, <2>1, <2>2, LoopVariable
  <2>4. KeptIn(code, heap, Len(heap) + 1, slots)
    BY <2>3 DEF KeptIn
  <2>5. slots = IF FALSE THEN Hoist(slots, pc, Len(heap) + 1) ELSE slots
    OBVIOUS
  <2>6. PICK back \in Nat : back = EndOf(pc) + 1
    BY <1>2
  <2>7. Enter(pc, 0, back, slots, FALSE)
    BY <1>6, <2>6
  <2>8. pc' = pc
    BY <1>6 DEF Goto
  <2>9. 0 \in 0 .. Len(heap)
    BY <1>2
  <2>10. QED
    BY <1>2, <1>3, <2>3, <2>4, <2>5, <2>7, <2>8, <2>9, EnterKept
<1>7. QED
  BY <1>4, <1>5, <1>6 DEF BeginLoop

LEMMA IterateKept ==
  ASSUME Runs(text, code, heap, active, pc), Keeping(code, heap, active, pc), Sorted(code), status = "running", Iterate
  PROVE  KeptNext
<1>1. Running("for") \/ Running("while")
  BY DEF Iterate
<1>2. /\ pc \in 1 .. Len(code) /\ Here = code[pc] /\ Here.op \in {"for", "while"}
      /\ Here.target \in Refs /\ Whole(text, code) /\ Good(code, heap) /\ Cared(code, heap)
      /\ Last(active) \in 1 .. Len(heap) /\ Len(heap) \in Nat
  BY <1>1, LoopParts DEF Keeping
<1>3. PICK i \in 1 .. Len(heap) : i = Last(active) /\ heap[i].open = pc /\ i \in Nat
  BY <1>2 DEF Iterate, AtHead
<1>4. CASE Ends("failed")
  BY <1>4, EndsKept
<1>5. PICK empty : empty = [s \in DOMAIN heap[i].slots |-> Void]
  OBVIOUS
<1>6. PICK slots : slots = IF Here.op = "for" THEN Put(empty, Here.target, Void) ELSE empty
  OBVIOUS
<1>7. PICK new : new = Hoist(slots, pc, i)
  OBVIOUS
<1>8. CASE InScope(i, new) /\ UNCHANGED active
  <2>1. empty \in Seq(Vals) /\ \A s \in DOMAIN empty : empty[s] = Void
    <3>1. heap[i].slots \in Seq(Vals)
      BY <1>2 DEF Cared, Tended
    <3>2. PICK n \in Nat : n = Len(heap[i].slots) /\ DOMAIN heap[i].slots = 1 .. n
      BY <3>1, LenProperties
    <3>3. empty \in [1 .. n -> Vals]
      BY <1>5, <3>2, VoidWorth
    <3>4. QED
      BY <1>5, <3>3, Listed
  <2>2. slots = IF code[pc].op = "for" THEN Put(empty, code[pc].target, Void) ELSE empty
    BY <1>2, <1>6
  <2>3. slots \in Seq(Vals) /\ Fixed(code, pc, slots)
    BY <1>2, <2>1, <2>2, LoopVariable
  <2>4. \A s \in DOMAIN slots : slots[s].fn = 0
    BY <1>2, <2>1, <2>2, LoopVariable
  <2>5. \A b \in Decls(code) : /\ DeclIn(code, b) = pc /\ GivenIn(code, b)
                               /\ ~(b.role = "own" /\ code[b.at].op = "fn")
                               => Stands(slots, SlotOf(code, b) + 1)
    BY <1>2, <2>1, <2>2, LoopVariable
  <2>6. Furnished(code, pc, i, slots, new)
    BY <1>2, <1>3, <1>7, <2>3, <2>5, HoistKept
  <2>7. new \in Seq(Vals) /\ Fixed(code, heap[i].open, new) /\ Supplied(code, heap[i].open, new)
    BY <1>3, <2>6 DEF Furnished
  <2>8. KeptIn(code, heap, i, slots)
    BY <2>4 DEF KeptIn
  <2>9. KeptIn(code, heap, i, new)
    BY <2>6, <2>8, FurnishedKept
  <2>10. Filled(code, heap, new)
    <3>1. Filled(code, heap, slots)
      BY <1>2, <1>5, <1>6, EmptiedFilled, VoidHolds, PutFilled
    <3>2. QED
      BY <1>2, <1>3, <1>7, <3>1, HoistFilled
  <2>11. Iterate /\ i = Last(active)
    BY <1>3
  <2>12. QED
    BY <1>8, <2>7, <2>9, <2>10, <2>11, SlotsKept
<1>9. QED
  BY <1>3, <1>4, <1>5, <1>6, <1>7, <1>8 DEF Iterate

LEMMA LeaveLoopKept ==
  ASSUME Runs(text, code, heap, active, pc), Keeping(code, heap, active, pc), status = "running", LeaveLoop
  PROVE  KeptNext
<1>1. (Running("for") \/ Running("while")) /\ AtHead /\ Leave(EndOf(pc) + 1)
  BY DEF LeaveLoop
<1>2. pc \in 1 .. Len(code)
  BY <1>1, LoopParts
<1>3. heap[Last(active)].open # 0
  BY <1>1, <1>2 DEF AtHead
<1>4. PICK item : item = EndOf(pc) + 1
  OBVIOUS
<1>5. QED
  BY <1>1, <1>3, <1>4, LeaveKept

LEMMA EndKept ==
  ASSUME Runs(text, code, heap, active, pc), Keeping(code, heap, active, pc), status = "running", RunEnd
  PROVE  KeptNext
<1>1. Running("end")
  BY DEF RunEnd
<1>2. /\ pc \in 1 .. Len(code) /\ Here = code[pc] /\ Here.op = "end" /\ Whole(text, code)
      /\ heap[Last(active)].open = Here.inside
  BY <1>1, RunParts
<1>3. Here.inside # 0 /\ Ready(code, heap, Last(active))
  BY <1>1, <1>2, WholeParts, TopReady
<1>4. CASE code[Here.inside].op \in {"for", "while"}
  BY <1>3, <1>4, StayKept DEF RunEnd
<1>5. CASE code[Here.inside].op \notin {"for", "while"}
  <2>1. PICK back : back = heap[Last(active)].back /\ Leave(back)
    BY <1>5 DEF RunEnd
  <2>2. QED
    BY <1>2, <1>3, <2>1, LeaveKept
<1>6. QED
  BY <1>4, <1>5

LEMMA KeptStep ==
  ASSUME Runs(text, code, heap, active, pc), Keeping(code, heap, active, pc), Sorted(code), Run
  PROVE  KeptNext
<1>1. status = "running"
  BY DEF Run, RunLet, RunSet, RunFn, RunLambda, RunCall, RunIf, BeginLoop, Iterate, LeaveLoop, RunEnd, EndProgram,
         Fail, Running
<1>2. CASE EndProgram \/ Fail
  BY <1>2, EndsKept DEF EndProgram, Fail
<1>3. QED
  BY <1>1, <1>2, LetKept, SetKept, FnKept, CallKept, IfKept, BeginKept, IterateKept, LeaveLoopKept, EndKept DEF Run

KeepsNext == \E h, a, q : h = heap' /\ a = active' /\ q = pc' /\ Keeping(code, h, a, q)

LEMMA StartKept ==
  ASSUME text \in Texts, Made(text, code, tables), Sorted(code), heap = << >>, active = << >>, StartProgram
  PROVE  KeepsNext
<1>1. Whole(text, code)
  <2>1. Len(code) + 1 \notin DOMAIN text
    BY DEF StartProgram, At
  <2>2. QED
    BY <2>1, WholeMade
<1>2. PICK h, a, none : h = heap /\ a = << >> /\ h = << >> /\ none = << >>
  OBVIOUS
<1>3. Len(h) = 0 /\ Len(heap) = 0
  BY <1>2, EmptySeq
<1>4. Good(code, h) /\ Cared(code, h)
  <2>1. h \in Seq([open : Nat, parent : Nat, captured : Nat, back : Nat, slots : {}])
    BY <1>2, EmptySeq
  <2>2. \E X : h \in Scopes(X)
    BY <2>1 DEF Scopes
  <2>3. \A i \in 1 .. Len(h) : FALSE
    BY <1>3
  <2>4. QED
    BY <2>2, <2>3 DEF Good, Cared
<1>5. PICK g, b, q : g = heap' /\ b = active' /\ q = pc'
  OBVIOUS
<1>6. PICK filling : filling = Hoist(none, 0, 1)
  OBVIOUS
<1>7. PICK frame : frame = [open |-> 0, parent |-> 0, captured |-> 0, back |-> 0, slots |-> filling]
  OBVIOUS
<1>8. g = Append(h, frame) /\ b = Append(a, 1) /\ q = 1
  BY <1>2, <1>3, <1>5, <1>6, <1>7 DEF StartProgram, Enter, Scope
<1>9. 0 \in 0 .. Len(h)
  BY <1>3
<1>10. JoinsHeap(h, frame, g)
  BY <1>4, <1>7, <1>8, <1>9, Joined
<1>11. Furnished(code, 0, 1, none, filling)
  BY <1>1, <1>2, <1>6, BlankKept
<1>12. filling \in Seq(Vals) /\ Fixed(code, 0, filling) /\ Supplied(code, 0, filling)
  BY <1>11 DEF Furnished
<1>13. KeptIn(code, h, 1, none)
  BY <1>2 DEF KeptIn
<1>14. KeptIn(code, h, Len(h) + 1, filling)
  BY <1>3, <1>11, <1>13, FurnishedKept
<1>15. PICK up \in 0 .. Len(h) : up = 0
  BY <1>9
<1>16. up = IF 0 # 0 THEN 0 ELSE 0
  BY <1>15
<1>17. Cared(code, g) /\ (Supplied(code, 0, filling) => Ready(code, g, Len(h) + 1))
  BY <1>4, <1>7, <1>10, <1>12, <1>14, <1>15, <1>16, EnterTended
<1>18. Ready(code, g, 1)
  BY <1>3, <1>12, <1>17
<1>19. Len(b) = 1 /\ Last(b) = 1
  <2>1. a \in Seq({1}) /\ Len(a) = 0
    BY <1>2, EmptySeq
  <2>2. b \in Seq({1}) /\ Len(b) = 1 /\ b[1] = 1
    BY <1>8, <2>1, AppendProperties
  <2>3. b # << >>
    BY <2>2, EmptySeq
  <2>4. QED
    BY <2>2, <2>3, FrontLast
<1>20. \A k \in 1 .. Len(b) - 1 : Ready(code, g, b[k])
  BY <1>19
<1>21. Keeping(code, g, b, q)
  BY <1>17, <1>18, <1>19, <1>20 DEF Keeping
<1>22. QED
  BY <1>5, <1>21 DEF KeepsNext

-----------------------------------------------------------------------------
(***************************************************************************)
(* The whole, of texts that declare no name twice in a scope.              *)
(***************************************************************************)

NInv ==
  ~redeclared =>
    \E c, ts, h, a, q :
      /\ c = code /\ ts = tables /\ h = heap /\ a = active /\ q = pc
      /\ \/ status \in {"translating", "unresolved"} /\ Neat(c, ts)
         \/ status \in {"running", "done", "failed"} /\ Sorted(c) /\ Keeping(c, h, a, q)

LEMMA NeatInitially ==
  ASSUME Init
  PROVE  NInv
<1>1. PICK c, ts, h, a, q : c = code /\ ts = tables /\ h = heap /\ a = active /\ q = pc
  OBVIOUS
<1>2. c = << >> /\ ts = <<Table(0)>> /\ status = "translating"
  BY <1>1 DEF Init
<1>3. Len(c) = 0 /\ \A p \in 1 .. Len(c) : FALSE
  BY <1>2, EmptySeq
<1>4. Decls(c) = {}
  BY <1>3 DEF Decls
<1>5. Sorted(c)
  BY <1>3, <1>4 DEF Sorted, Apart
<1>6. PICK tb : tb = Table(0)
  OBVIOUS
<1>7. Tidy(c, tb, Decls(c))
  <2>1. DOMAIN tb.symbols = {}
    BY <1>6 DEF Table
  <2>2. QED
    BY <1>4, <2>1 DEF Tidy
<1>8. Len(ts) = 1 /\ ts[1] = tb
  BY <1>2, <1>6
<1>9. Neatly(c, ts, Decls(c))
  <2>1. SUFFICES ASSUME NEW i \in 1 .. Len(ts)
                 PROVE  Tidy(c, ts[i], Decls(c)) /\ \A j \in 1 .. i - 1 : ts[j].open < ts[i].open
    BY DEF Neatly
  <2>2. i = 1 /\ \A j \in 1 .. i - 1 : FALSE
    BY <1>8
  <2>3. QED
    BY <1>7, <1>8, <2>2
<1>10. QED
  BY <1>1, <1>2, <1>5, <1>9 DEF NInv, Neat

LEMMA NeatInductive ==
  ASSUME IInv, NInv, [Next]_vars
  PROVE  NInv'
<1>1. CASE UNCHANGED vars
  BY <1>1 DEF vars, NInv
<1>2. text \in Texts
  BY DEF IInv
<1>3. CASE Translate
  <2>1. status = "translating"
    BY <1>3 DEF Translate, TranslateLet, TranslateSet, TranslateFn, TranslateLambda, TranslateCall, TranslateIf,
                TranslateWhile, TranslateFor, TranslateEnd, Translating
  <2>2. Made(text, code, tables) /\ heap = << >> /\ active = << >>
    BY <2>1 DEF IInv
  <2>3. ~redeclared => NeatNow
    BY <2>1 DEF NInv, NeatNow
  <2>4. NeatNext
    BY <1>2, <1>3, <2>2, <2>3, NeatStep
  <2>5. status' \in {"translating", "unresolved"}
    BY <1>2, <1>3, <2>2, TranslateStep DEF TranslatedNext
  <2>6. QED
    BY <2>4, <2>5 DEF NeatNext, NInv
<1>4. CASE StartProgram
  <2>1. status = "translating" /\ status' = "running" /\ UNCHANGED <<code, redeclared>>
    BY <1>4 DEF StartProgram
  <2>2. Made(text, code, tables) /\ heap = << >> /\ active = << >>
    BY <2>1 DEF IInv
  <2>3. ASSUME ~redeclared
        PROVE  Sorted(code) /\ KeepsNext
    <3>1. Sorted(code)
      BY <2>1, <2>3 DEF NInv, Neat
    <3>2. QED
      BY <1>2, <1>4, <2>2, <3>1, StartKept
  <2>4. QED
    BY <2>1, <2>3 DEF KeepsNext, NInv
<1>5. CASE Run
  <2>1. status = "running" /\ UNCHANGED <<code, redeclared>> /\ status' \in {"running", "done", "failed"}
    BY <1>5 DEF Run, RunLet, RunSet, RunFn, RunLambda, RunCall, RunIf, BeginLoop, Iterate, LeaveLoop, RunEnd, EndProgram,
         Fail, Running, Goto, Ends, Leave
  <2>2. Runs(text, code, heap, active, pc)
    BY <2>1 DEF IInv
  <2>3. ASSUME ~redeclared
        PROVE  Sorted(code) /\ KeptNext
    <3>1. Sorted(code) /\ Keeping(code, heap, active, pc)
      BY <2>1, <2>3 DEF NInv
    <3>2. QED
      BY <1>5, <2>2, <3>1, KeptStep
  <2>4. QED
    BY <2>1, <2>3 DEF KeptNext, NInv
<1>6. CASE Exited
  BY <1>1, <1>6 DEF Exited
<1>7. QED
  BY <1>1, <1>3, <1>4, <1>5, <1>6 DEF Next

LEMMA NeatHolding == Spec => []NInv
<1>1. Init => NInv
  BY NeatInitially
<1>2. IInv /\ NInv /\ [Next]_vars => NInv'
  BY NeatInductive
<1>3. QED
  BY <1>1, <1>2, Holding, PTL DEF Spec

(* What is found at the end of a reference was stored for the declaration   *)
(* that the text means, in texts that declare no name twice in a scope; or  *)
(* nothing was, and the declaration is a let.  The slots that translator.rs *)
(* gives to names, those that hoist_declarations and calls in               *)
(* interpreter.rs fill, and the scopes that Environment::get goes up by,    *)
(* agree, whichever calls and closures the scopes were entered by.          *)
THEOREM OwnRead == Spec => []ReadsOwn
<1>1. ASSUME IInv, NInv
      PROVE  ReadsOwn
  <2>1. SUFFICES ASSUME ~redeclared, NEW r \in Followed
                 PROVE  Get(r).binding = r.binding \/ (Get(r).binding = Nothing /\ ~Given(r.binding))
    BY DEF ReadsOwn
  <2>2. /\ status = "running" /\ pc \in 1 .. Len(code) /\ Running(Here.op) /\ Here = code[pc]
        /\ Runs(text, code, heap, active, pc) /\ Last(active) \in 1 .. Len(heap)
        /\ r \in Refs /\ r # NoRef
        /\ Target(r.depth) \in 1 .. Len(heap) /\ heap[Target(r.depth)].open = DeclIn(code, r.binding)
    BY <1>1, <2>1, Follows
  <2>3. Sorted(code) /\ Keeping(code, heap, active, pc)
    BY <1>1, <2>1, <2>2 DEF NInv
  <2>4. Good(code, heap) /\ Cared(code, heap)
    BY <2>2, <2>3 DEF Runs, Keeping
  <2>5. PICK b, n, i : /\ b = r.binding /\ n = r.depth /\ i = Target(n)
                       /\ n \in Nat /\ i \in 1 .. Len(heap) /\ heap[i].open = DeclIn(code, b)
    BY <2>2 DEF Refs
  <2>6. Refers(code, pc)
    BY <2>2, <2>3 DEF Sorted
  <2>7. ToDecl(code, r) /\ (Here.op \in {"for", "while"} /\ AtHead => DeclIn(code, b) # pc)
    BY <2>2, <2>5, <2>6 DEF Followed, Refers, Reads
  <2>8. PICK k : k = r.slot + 1 /\ b \in Decls(code) /\ r.slot = SlotOf(code, b) /\ SlotOf(code, b) \in Nat
    BY <2>3, <2>5, <2>7, SlotIs DEF ToDecl
  <2>9. Ready(code, heap, i)
    <3>1. PICK top \in 1 .. Len(heap) : top = Last(active)
      BY <2>2
    <3>2. i = top \/ Ready(code, heap, i)
      <4>1. i # 0
        BY <2>5
      <4>2. QED
        BY <2>4, <2>5, <3>1, <4>1, UpReady
    <3>3. CASE Here.op \notin {"for", "while"} \/ ~AtHead
      BY <2>2, <2>3, <3>1, <3>2, <3>3, TopReady
    <3>4. CASE Here.op \in {"for", "while"} /\ AtHead
      BY <2>5, <2>7, <3>1, <3>2, <3>4 DEF AtHead
    <3>5. QED
      BY <3>3, <3>4
  <2>10. PICK slots : /\ slots = heap[i].slots /\ slots \in Seq(Vals) /\ Fixed(code, heap[i].open, slots)
                      /\ Supplied(code, heap[i].open, slots)
    BY <2>4, <2>5, <2>9 DEF Cared, Tended, Ready
  <2>11. GivenIn(code, b) => Stands(slots, k)
    BY <2>5, <2>8, <2>10 DEF Supplied
  <2>12. Given(b) = GivenIn(code, b)
    BY DEF Given, GivenIn
  <2>13. CASE k \notin DOMAIN slots
    <3>1. Get(r) = Missing
      BY <2>5, <2>8, <2>10, <2>13 DEF Get
    <3>2. Missing.binding = Nothing
      BY DEF Missing, Value
    <3>3. QED
      BY <2>5, <2>11, <2>12, <2>13, <3>1, <3>2 DEF Stands
  <2>14. CASE k \in DOMAIN slots
    <3>1. PICK v : v = slots[k] /\ Proper(code, heap[i].open, k, v)
      BY <2>10, <2>14 DEF Fixed
    <3>2. Get(r) = v
      <4>1. i # 0
        BY <2>5
      <4>2. QED
        BY <2>5, <2>8, <2>10, <2>14, <3>1, <4>1 DEF Get
    <3>3. CASE v.binding = Nothing
      BY <2>5, <2>11, <2>12, <3>1, <3>2, <3>3 DEF Stands
    <3>4. CASE v.binding # Nothing
      <4>1. PICK e : /\ e = v.binding /\ e \in Decls(code) /\ DeclIn(code, e) = heap[i].open
                     /\ SlotOf(code, e) + 1 = k
        BY <3>1, <3>4 DEF Proper
      <4>2. SlotOf(code, e) \in Nat
        BY <2>3, <4>1, SlotIs
      <4>3. SlotOf(code, e) = SlotOf(code, b)
        BY <2>8, <4>1, <4>2
      <4>4. e = b
        BY <2>3, <2>5, <2>8, <4>1, <4>3 DEF Sorted, Apart
      <4>5. QED
        BY <2>5, <3>2, <4>1, <4>4
    <3>5. QED
      BY <3>3, <3>4
  <2>15. QED
    BY <2>13, <2>14
<1>2. QED
  BY <1>1, Holding, NeatHolding, PTL

(* Once a variable has a value, its slot holds values of that variable, in  *)
(* texts that declare no name twice in a scope, until its loop goes round:  *)
(* declarations, assignments, calls and returns take no slot away from      *)
(* another variable (Environment::set and hoist_declarations in             *)
(* interpreter.rs, with the slots of translator.rs).                        *)
THEOREM ValuesKept == Spec => ValuesStay
<1>1. ASSUME IInv, NInv, [Next]_vars
      PROVE  [~redeclared => Keeps]_vars
  <2>1. SUFFICES ASSUME Next, ~redeclared
                 PROVE  Keeps
    BY <1>1 DEF vars
  <2>2. CASE heap' = heap
    BY <2>2 DEF Keeps
  <2>3. CASE heap = << >>
    <3>1. DOMAIN heap = {}
      BY <2>3
    <3>2. QED
      BY <3>1 DEF Keeps
  <2>4. CASE Run
    <3>1. status = "running"
      BY <2>4 DEF Run, RunLet, RunSet, RunFn, RunLambda, RunCall, RunIf, BeginLoop, Iterate, LeaveLoop, RunEnd, EndProgram,
         Fail, Running
    <3>2. Runs(text, code, heap, active, pc)
      BY <1>1, <3>1 DEF IInv
    <3>3. Sorted(code) /\ Keeping(code, heap, active, pc)
      BY <1>1, <2>1, <3>1 DEF NInv
    <3>4. KeptNext
      BY <2>4, <3>2, <3>3, KeptStep
    <3>5. PICK h : /\ h = heap'
                   /\ \A i \in 1 .. Len(heap) : (Iterate /\ i = Last(active)) \/ Lasting(heap[i].slots, h[i].slots)
      BY <3>4 DEF KeptNext
    <3>6. DOMAIN heap = 1 .. Len(heap)
      BY <3>2, GoodParts DEF Runs
    <3>7. QED
      BY <3>5, <3>6 DEF Keeps, Lasting
  <2>5. CASE Translate
    BY <2>2, <2>5 DEF Translate, TranslateLet, TranslateSet, TranslateFn, TranslateLambda, TranslateCall, TranslateIf,
       TranslateWhile, TranslateFor, TranslateEnd, Emit, Unknown
  <2>6. CASE StartProgram
    BY <1>1, <2>3, <2>6 DEF StartProgram, IInv
  <2>7. CASE Exited
    BY <2>2, <2>7 DEF Exited, vars
  <2>8. QED
    BY <2>1, <2>4, <2>5, <2>6, <2>7 DEF Next
<1>2. QED
  BY <1>1, Holding, NeatHolding, PTL DEF Spec, ValuesStay

=============================================================================
