---------------------------- MODULE CheckerProofs ----------------------------
(***************************************************************************)
(* Whatever the files say and however they import each other, the index is *)
(* refused, or the process taken down, for a reason the files give.  The   *)
(* inductive invariant says of each call in progress what its passes have  *)
(* established so far, and that it was made for an import of the call      *)
(* below it.                                                               *)
(***************************************************************************)
EXTENDS
  Checker, SequenceTheorems, FiniteSetTheorems, WellFoundedInduction, TLAPS

-----------------------------------------------------------------------------
(***************************************************************************)
(* Facts about a sequence used as a stack, its innermost element last,     *)
(* and about numbers.                                                      *)
(***************************************************************************)

(* What is left of a stack when its innermost element is removed. *)
LEMMA FrontLast ==
  ASSUME NEW S, NEW s \in Seq(S), s # << >>
  PROVE  /\ Len(s) \in Nat /\ Len(s) >= 1
         /\ Last(s) \in S /\ Last(s) = s[Len(s)]
         /\ Front(s) \in Seq(S) /\ Len(Front(s)) = Len(s) - 1
         /\ \A i \in 1 .. Len(s) - 1 : Front(s)[i] = s[i]
<1>1. Len(s) \in Nat /\ Len(s) >= 1 /\ Len(s) \in 1 .. Len(s)
  BY LenProperties, EmptySeq
<1>2. Front(s) = SubSeq(s, 1, Len(s) - 1) /\ Last(s) = s[Len(s)]
  BY DEF Front, Last
<1>3. \A i \in 1 .. Len(s) : s[i] \in S
  BY ElementOfSeq
<1> DEFINE n == Len(s) - 1
           t == SubSeq(s, 1, n)
<1>4. n \in Nat /\ 1 \in Int /\ n \in Int /\ \A i \in 1 .. n : s[i] \in S
  BY <1>1, <1>3
<1> HIDE DEF n
<1>5. /\ t \in Seq(S)
      /\ Len(t) = IF 1 <= n THEN n - 1 + 1 ELSE 0
      /\ \A i \in 1 .. n - 1 + 1 : t[i] = s[1 + i - 1]
  BY <1>4, SubSeqProperties
<1>6. Len(t) = n
  BY <1>4, <1>5
<1>7. \A i \in 1 .. n : t[i] = s[i]
  <2> SUFFICES ASSUME NEW i \in 1 .. n
               PROVE  t[i] = s[i]
    OBVIOUS
  <2>1. i \in 1 .. n - 1 + 1 /\ 1 + i - 1 = i
    BY <1>4
  <2>2. QED
    BY <1>5, <2>1
<1>8. QED
  BY <1>1, <1>2, <1>3, <1>5, <1>6, <1>7 DEF n

(* The least element of a set of naturals: what induction is done with.    *)
LEMMA LeastNatural ==
  ASSUME NEW T, T \subseteq Nat, T # {}
  PROVE  \E m \in T : \A n \in T : m <= n
<1> DEFINE R == {p \in Nat \X Nat : p[1] < p[2]}
<1>1. IsWellFoundedOn(R, Nat)
  BY NatLessThanWellFounded DEF OpToRel
<1> HIDE DEF R
<1>2. PICK m \in T : \A n \in T : <<n, m>> \notin R
  BY <1>1, WFMin
<1>3. \A n \in T : ~(n < m)
  BY <1>2 DEF R
<1>4. QED
  BY <1>3

-----------------------------------------------------------------------------
(***************************************************************************)
(* Files and what they reach.                                              *)
(***************************************************************************)

(* A disk as CheckerAssumption has it. *)
Disk(d) ==
  \A f \in File :
    \/ d[f] \in {Missing, Broken}
    \/ /\ d[f] \in Seq(Item)
       /\ \A i \in DOMAIN d[f] : IF d[f][i].op \in {"class", "fn"} THEN d[f][i].name = f ELSE d[f][i].types = {}

(* Nothing in reach of f has a mistake or reaches itself. *)
Good(d, f) == \A g \in Reach(d, f) : Sound(d, g) /\ g \notin Below(d, g)

LEMMA TextParts ==
  ASSUME NEW d, Disk(d), NEW f \in File, d[f] \notin {Missing, Broken}
  PROVE  /\ d[f] \in Seq(Item) /\ Len(d[f]) \in Nat /\ DOMAIN d[f] = 1 .. Len(d[f])
         /\ \A i \in 1 .. Len(d[f]) :
              /\ d[f][i].op \in {"import", "class", "fn", "let", "export"}
              /\ d[f][i].name \in File /\ d[f][i].types \subseteq File
              /\ d[f][i].op \in {"class", "fn"} => d[f][i].name = f
              /\ d[f][i].op \notin {"class", "fn"} => d[f][i].types = {}
<1>1. /\ d[f] \in Seq(Item)
      /\ \A i \in DOMAIN d[f] : IF d[f][i].op \in {"class", "fn"} THEN d[f][i].name = f ELSE d[f][i].types = {}
  BY DEF Disk
<1>2. Len(d[f]) \in Nat /\ DOMAIN d[f] = 1 .. Len(d[f])
  BY <1>1, LenProperties
<1>3. \A i \in 1 .. Len(d[f]) : d[f][i] \in Item
  BY <1>1, <1>2, ElementOfSeq
<1>4. QED
  BY <1>1, <1>2, <1>3 DEF Item

LEMMA ImportsAreFiles ==
  ASSUME NEW d, Disk(d), NEW f \in File
  PROVE  ImportsOf(d, f) \subseteq File
<1>1. CASE d[f] \in {Missing, Broken}
  BY <1>1 DEF ImportsOf
<1>2. CASE d[f] \notin {Missing, Broken}
  BY <1>2, TextParts DEF ImportsOf
<1>3. QED
  BY <1>1, <1>2

(* What the files below f import is below f too; and any such set with the  *)
(* imports of f has all of them.                                            *)
LEMMA BelowCloses ==
  ASSUME NEW d, Disk(d), NEW f \in File
  PROVE  /\ Below(d, f) \subseteq File /\ ImportsOf(d, f) \subseteq Below(d, f)
         /\ \A g \in Below(d, f) : ImportsOf(d, g) \subseteq Below(d, f)
<1>1. Below(d, f) \subseteq File
  BY DEF Below
<1>2. ImportsOf(d, f) \subseteq Below(d, f)
  BY ImportsAreFiles DEF Below
<1>3. ASSUME NEW g \in Below(d, f), NEW h \in ImportsOf(d, g)
      PROVE  h \in Below(d, f)
  <2>1. g \in File /\ h \in File
    BY <1>1, <1>3, ImportsAreFiles
  <2>2. ASSUME NEW fs \in SUBSET File, ImportsOf(d, f) \subseteq fs, \A e \in fs : ImportsOf(d, e) \subseteq fs
        PROVE  h \in fs
    <3>1. g \in fs
      BY <1>3, <2>2 DEF Below
    <3>2. QED
      BY <1>3, <2>2, <3>1
  <2>3. QED
    BY <2>1, <2>2 DEF Below
<1>4. QED
  BY <1>1, <1>2, <1>3

LEMMA BelowLeast ==
  ASSUME NEW d, NEW f \in File, NEW fs \in SUBSET File,
         ImportsOf(d, f) \subseteq fs, \A g \in fs : ImportsOf(d, g) \subseteq fs
  PROVE  Below(d, f) \subseteq fs
BY DEF Below

(* What is below a file below f is below f. *)
LEMMA BelowBelow ==
  ASSUME NEW d, Disk(d), NEW f \in File, NEW g \in Below(d, f)
  PROVE  g \in File /\ Below(d, g) \subseteq Below(d, f)
<1>1. /\ Below(d, f) \subseteq File
      /\ \A h \in Below(d, f) : ImportsOf(d, h) \subseteq Below(d, f)
  BY BelowCloses
<1>2. g \in File /\ ImportsOf(d, g) \subseteq Below(d, f)
  BY <1>1
<1>3. QED
  BY <1>1, <1>2, BelowLeast

(* All that is below f is an import of f or below one. *)
LEMMA BelowImports ==
  ASSUME NEW d, Disk(d), NEW f \in File, NEW g \in Below(d, f)
  PROVE  \E h \in ImportsOf(d, f) : g \in Reach(d, h)
<1> DEFINE fs == {e \in File : \E h \in ImportsOf(d, f) : e \in Reach(d, h)}
<1>1. ImportsOf(d, f) \subseteq fs
  BY ImportsAreFiles DEF Reach
<1>2. ASSUME NEW e \in fs
      PROVE  ImportsOf(d, e) \subseteq fs
  <2>1. PICK h \in ImportsOf(d, f) : e \in Reach(d, h)
    OBVIOUS
  <2>2. h \in File /\ e \in File
    BY ImportsAreFiles
  <2>3. ImportsOf(d, e) \subseteq Below(d, h)
    BY <2>1, <2>2, BelowCloses DEF Reach
  <2>4. ImportsOf(d, e) \subseteq File
    BY <2>2, ImportsAreFiles
  <2>5. QED
    BY <2>1, <2>3, <2>4 DEF Reach
<1>3. Below(d, f) \subseteq fs
  BY <1>1, <1>2, BelowLeast
<1>4. QED
  BY <1>3

LEMMA ReachGoes ==
  ASSUME NEW d, Disk(d), NEW f \in File, NEW g \in Reach(d, f), NEW h \in ImportsOf(d, g)
  PROVE  h \in Below(d, f) /\ h \in Reach(d, f) /\ h \in Below(d, g)
BY BelowCloses DEF Reach

(* A file without a mistake of its own whose imports are good is good.      *)
LEMMA GoodFromImports ==
  ASSUME NEW d, Disk(d), NEW f \in File, Sound(d, f), \A g \in ImportsOf(d, f) : Good(d, g)
  PROVE  Good(d, f)
<1>1. ASSUME NEW g \in Below(d, f)
      PROVE  Sound(d, g) /\ g \notin Below(d, g)
  BY BelowImports DEF Good
<1>2. f \notin Below(d, f)
  BY <1>1
<1>3. QED
  BY <1>1, <1>2 DEF Good, Reach

(* What a text exports, as the checker finds it out.                        *)
LEMMA ExportsFound ==
  ASSUME NEW d, Disk(d), NEW f \in File, d[f] \notin {Missing, Broken}
  PROVE  /\ Exported(d[f]) <=> KindOf(d, f) # "nothing"
         /\ Declares(d[f], "class") <=> KindOf(d, f) = "class"
<1> DEFINE T == {i \in DOMAIN d[f] : d[f][i].op \in {"class", "fn"}}
<1>1. DOMAIN d[f] = 1 .. Len(d[f]) /\ Len(d[f]) \in Nat
  BY TextParts
<1>2. KindOf(d, f) = IF T = {} THEN "nothing" ELSE d[f][Min(T)].op
  BY DEF KindOf
<1>3. CASE T = {}
  BY <1>2, <1>3 DEF Exported, Declares
<1>4. CASE T # {}
  <2>1. PICK m \in T : \A n \in T : m <= n
    <3>1. T \subseteq Nat
      BY <1>1
    <3>2. QED
      BY <1>4, <3>1, LeastNatural
  <2>2. m \in Nat /\ T \subseteq Nat
    BY <1>1
  <2>3. Min(T) = m
    <3>1. Min(T) \in T /\ \A n \in T : Min(T) <= n
      BY <2>1 DEF Min
    <3>2. PICK k : k = Min(T)
      OBVIOUS
    <3>3. k \in Nat /\ k <= m /\ m <= k
      BY <2>1, <2>2, <3>1, <3>2
    <3>4. QED
      BY <2>2, <3>2, <3>3
  <2>4. KindOf(d, f) = d[f][m].op /\ d[f][m].op \in {"class", "fn"}
    BY <1>2, <1>4, <2>3
  <2>5. Exported(d[f])
    BY <2>1 DEF Exported
  <2>6. ASSUME d[f][m].op = "class"
        PROVE  Declares(d[f], "class")
    <3>1. \A j \in 1 .. (m - 1) : d[f][j].op \notin {"class", "fn"}
      <4>1. SUFFICES ASSUME NEW j \in 1 .. (m - 1), d[f][j].op \in {"class", "fn"}
                     PROVE  FALSE
        OBVIOUS
      <4>2. j \in DOMAIN d[f] /\ j < m
        BY <1>1, <2>1, <2>2
      <4>3. j \in T /\ j \in Nat
        BY <1>1, <4>1, <4>2
      <4>4. QED
        BY <2>1, <2>2, <4>2, <4>3
    <3>2. QED
      BY <2>1, <2>6, <3>1 DEF Declares
  <2>7. ASSUME Declares(d[f], "class")
        PROVE  d[f][m].op = "class"
    <3>1. PICK i \in DOMAIN d[f] : /\ d[f][i].op = "class"
                                   /\ \A j \in 1 .. (i - 1) : d[f][j].op \notin {"class", "fn"}
      BY <2>7 DEF Declares
    <3>2. i \in T /\ i \in Nat
      BY <1>1, <3>1
    <3>3. m <= i /\ m >= 1
      BY <1>1, <2>1, <3>2
    <3>4. ~(m \in 1 .. (i - 1))
      BY <2>1, <3>1
    <3>5. m = i
      BY <2>2, <3>2, <3>3, <3>4
    <3>6. QED
      BY <3>1, <3>5
  <2>8. QED
    BY <2>4, <2>5, <2>6, <2>7
<1>5. QED
  BY <1>3, <1>4

-----------------------------------------------------------------------------
(***************************************************************************)
(* The inductive invariant.                                                *)
(***************************************************************************)

Frames == [file : File, phase : {"parse", "hoist", "check", "infer"}, at : Nat \ {0}, known : SUBSET File]

(* What stands before item k is as it has to be. *)
Hoisted(d, f, k) ==
  \A i \in 1 .. (k - 1) :
    /\ d[f][i].op = "import" => KindOf(d, d[f][i].name) # "nothing" /\ Good(d, d[f][i].name)
    /\ d[f][i].op = "class" => d[f][i].types \subseteq Types(d, f, 1 .. (i - 1))

(* What each pass knows. *)
Begins(fr) == fr.at = 1 /\ fr.known = {}
Hoists(d, fr) == fr.known = Types(d, fr.file, 1 .. (fr.at - 1)) /\ Hoisted(d, fr.file, fr.at)
Checks(d, fr) ==
  /\ fr.known = Types(d, fr.file, DOMAIN d[fr.file]) /\ Hoisted(d, fr.file, Len(d[fr.file]) + 1)
  /\ \A i \in 1 .. (fr.at - 1) : d[fr.file][i].types \subseteq fr.known
Infers(d, fr) == Sound(d, fr.file) /\ \A g \in ImportsOf(d, fr.file) : Good(d, g)

Fit(d) ==
  {fr \in Frames :
     /\ d[fr.file] # Missing
     /\ fr.phase = "parse" => Begins(fr)
     /\ fr.phase # "parse" => d[fr.file] # Broken /\ fr.at <= Len(d[fr.file]) + 1
     /\ fr.phase = "hoist" => Hoists(d, fr)
     /\ fr.phase = "check" => Checks(d, fr)
     /\ fr.phase = "infer" => Infers(d, fr)}

(* A call that waits for the index of another file. *)
Waiting(d) ==
  {p \in Fit(d) \X File :
     /\ p[1].phase \in {"hoist", "infer"} /\ p[1].at <= Len(d[p[1].file])
     /\ p[2] = d[p[1].file][p[1].at].name /\ p[2] \in ImportsOf(d, p[1].file) /\ d[p[2]] # Missing
     /\ p[1].phase = "hoist" => d[p[1].file][p[1].at].op = "import"}

(* The calls that the one for r led to. *)
Chain(d, r) ==
  {s \in Seq(Fit(d)) :
     /\ s # << >> => s[1].file = r
     /\ \A i \in 1 .. Len(s) : s[i].file \in Reach(d, r)
     /\ \A i \in 1 .. Len(s) : i > 1 => <<s[i - 1], s[i].file>> \in Waiting(d)
     /\ \A i, j \in 1 .. Len(s) : i < j => s[j].file \in Below(d, s[i].file)}

(* The answer a call waits for says what it may. *)
Answers(d, s, what) ==
  \E g \in File : /\ <<Last(s), g>> \in Waiting(d)
                  /\ what = "some" => Good(d, g)
                  /\ what = "none" => ~Sound(d, g)

(* A call for each file fits on the stack. *)
Deep == IsFiniteSet(File) /\ MaxDepth >= Cardinality(File)

Verdict(d, r, how) ==
  /\ how = "some" => Good(d, r)
  /\ how = "none" => ~Sound(d, r)
  /\ how = "overflows" => Cyclic(d, r)
  /\ how = "panics" => \E f \in Reach(d, r) : ~Sound(d, f)

IInv ==
  \E d \in Disks, r \in File : \E s \in Chain(d, r) :
    /\ d = disk /\ r = root /\ s = stack
    /\ Len(s) <= MaxDepth
    /\ answer \in {"awaited", "some", "none"}
    /\ outcome = "running" => s # << >>
    /\ outcome = "running" /\ answer # "awaited" => \E a \in {answer} : Answers(d, s, a)
    /\ \E how \in {"running", "some", "none", "overflows", "panics"} : outcome = how /\ Verdict(d, r, how)

-----------------------------------------------------------------------------
(***************************************************************************)
(* Calls.                                                                  *)
(***************************************************************************)

LEMMA ChainParts ==
  ASSUME NEW d, NEW r, NEW s \in Chain(d, r)
  PROVE  /\ s \in Seq(Fit(d)) /\ Len(s) \in Nat /\ DOMAIN s = 1 .. Len(s)
         /\ \A i \in 1 .. Len(s) : s[i] \in Fit(d) /\ s[i].file \in File
         /\ s # << >> => s[1].file = r
         /\ \A i \in 1 .. Len(s) : s[i].file \in Reach(d, r)
         /\ \A i \in 1 .. Len(s) : i > 1 => <<s[i - 1], s[i].file>> \in Waiting(d)
         /\ \A i, j \in 1 .. Len(s) : i < j => s[j].file \in Below(d, s[i].file)
<1>1. s \in Seq(Fit(d))
  BY DEF Chain
<1>2. \A i \in 1 .. Len(s) : s[i] \in Fit(d)
  BY <1>1, ElementOfSeq
<1>3. \A i \in 1 .. Len(s) : s[i].file \in File
  BY <1>2 DEF Fit, Frames
<1>4. QED
  BY <1>1, <1>2, <1>3, LenProperties DEF Chain

LEMMA ChainTop ==
  ASSUME NEW d, NEW r, NEW s \in Chain(d, r), s # << >>
  PROVE  /\ Len(s) \in Nat /\ Len(s) >= 1 /\ Last(s) = s[Len(s)] /\ Last(s) \in Fit(d)
         /\ Last(s).file \in File /\ Last(s).file \in Reach(d, r)
<1>1. /\ s \in Seq(Fit(d)) /\ \A i \in 1 .. Len(s) : s[i].file \in File
      /\ \A i \in 1 .. Len(s) : s[i].file \in Reach(d, r)
  BY ChainParts
<1>2. Len(s) \in Nat /\ Len(s) >= 1 /\ Last(s) = s[Len(s)] /\ Last(s) \in Fit(d)
  BY <1>1, FrontLast
<1>3. Len(s) \in 1 .. Len(s)
  BY <1>2
<1>4. QED
  BY <1>1, <1>2, <1>3

LEMMA ChainFront ==
  ASSUME NEW d, NEW r, NEW s \in Chain(d, r), s # << >>
  PROVE  /\ Front(s) \in Chain(d, r) /\ Len(Front(s)) = Len(s) - 1
         /\ \A i \in 1 .. Len(s) - 1 : Front(s)[i] = s[i]
<1>1. /\ s \in Seq(Fit(d)) /\ Len(s) \in Nat
      /\ s[1].file = r
      /\ \A i \in 1 .. Len(s) : s[i].file \in Reach(d, r)
      /\ \A i \in 1 .. Len(s) : i > 1 => <<s[i - 1], s[i].file>> \in Waiting(d)
      /\ \A i, j \in 1 .. Len(s) : i < j => s[j].file \in Below(d, s[i].file)
  BY ChainParts
<1> DEFINE t == Front(s)
<1>2. /\ t \in Seq(Fit(d)) /\ Len(t) = Len(s) - 1 /\ Len(s) >= 1
      /\ \A i \in 1 .. Len(s) - 1 : t[i] = s[i]
  BY <1>1, FrontLast
<1> HIDE DEF t
<1>3. \A i \in 1 .. Len(t) : i \in 1 .. Len(s) /\ t[i] = s[i]
  BY <1>1, <1>2
<1>4. t # << >> => t[1].file = r
  <2>1. t # << >> => 1 \in 1 .. Len(t)
    BY <1>1, <1>2, EmptySeq
  <2>2. QED
    BY <1>1, <1>3, <2>1
<1>5. ASSUME NEW i \in 1 .. Len(t), i > 1
      PROVE  <<t[i - 1], t[i].file>> \in Waiting(d)
  <2>1. i - 1 \in 1 .. Len(t)
    BY <1>1, <1>2, <1>5
  <2>2. t[i - 1] = s[i - 1] /\ t[i] = s[i] /\ i \in 1 .. Len(s)
    BY <1>3, <2>1
  <2>3. QED
    BY <1>1, <1>5, <2>2
<1>6. \A i \in 1 .. Len(t) : t[i].file \in Reach(d, r)
  BY <1>1, <1>3
<1>7. \A i, j \in 1 .. Len(t) : i < j => t[j].file \in Below(d, t[i].file)
  BY <1>1, <1>3
<1>8. t \in Chain(d, r)
  BY <1>2, <1>4, <1>5, <1>6, <1>7 DEF Chain
<1>9. QED
  BY <1>2, <1>8 DEF t

(* The call on top has got further, with the same file. *)
LEMMA ChainBecomes ==
  ASSUME NEW d, NEW r, NEW s \in Chain(d, r), s # << >>, NEW fr \in Fit(d), fr.file = Last(s).file
  PROVE  Append(Front(s), fr) \in Chain(d, r) /\ Len(Append(Front(s), fr)) = Len(s)
         /\ Append(Front(s), fr) # << >>
<1>1. /\ s \in Seq(Fit(d)) /\ Len(s) \in Nat
      /\ s[1].file = r
      /\ \A i \in 1 .. Len(s) : s[i].file \in Reach(d, r)
      /\ \A i \in 1 .. Len(s) : i > 1 => <<s[i - 1], s[i].file>> \in Waiting(d)
      /\ \A i, j \in 1 .. Len(s) : i < j => s[j].file \in Below(d, s[i].file)
  BY ChainParts
<1>2. Len(s) >= 1 /\ Last(s) = s[Len(s)]
  BY ChainTop
<1> DEFINE t == Append(Front(s), fr)
<1>3. Front(s) \in Seq(Fit(d)) /\ Len(Front(s)) = Len(s) - 1 /\ \A i \in 1 .. Len(s) - 1 : Front(s)[i] = s[i]
  BY <1>1, FrontLast
<1>4. /\ t \in Seq(Fit(d)) /\ Len(t) = Len(s) /\ t[Len(s)] = fr
      /\ \A i \in 1 .. Len(s) - 1 : t[i] = s[i]
  <2>1. /\ t \in Seq(Fit(d)) /\ Len(t) = Len(Front(s)) + 1 /\ t[Len(Front(s)) + 1] = fr
        /\ \A i \in 1 .. Len(Front(s)) : t[i] = Front(s)[i]
    BY <1>3, AppendProperties
  <2>2. Len(Front(s)) + 1 = Len(s)
    BY <1>1, <1>3
  <2>3. QED
    BY <1>3, <2>1, <2>2
<1> HIDE DEF t
<1>5. \A i \in 1 .. Len(t) : i \in 1 .. Len(s) /\ t[i].file = s[i].file
  <2>1. SUFFICES ASSUME NEW i \in 1 .. Len(t)
                 PROVE  i \in 1 .. Len(s) /\ t[i].file = s[i].file
    OBVIOUS
  <2>2. CASE i = Len(s)
    BY <1>2, <1>4, <2>2
  <2>3. CASE i # Len(s)
    <3>1. i \in 1 .. Len(s) - 1
      BY <1>1, <1>4, <2>3
    <3>2. QED
      BY <1>4, <3>1
  <2>4. QED
    BY <2>2, <2>3
<1>6. ASSUME NEW i \in 1 .. Len(t), i > 1
      PROVE  <<t[i - 1], t[i].file>> \in Waiting(d)
  <2>1. i - 1 \in 1 .. Len(s) - 1 /\ i \in 1 .. Len(s)
    BY <1>1, <1>4, <1>6
  <2>2. t[i - 1] = s[i - 1] /\ t[i].file = s[i].file
    BY <1>4, <1>5, <2>1
  <2>3. QED
    BY <1>1, <1>6, <2>1, <2>2
<1>7. 1 \in 1 .. Len(t)
  BY <1>1, <1>2, <1>4
<1>8. t \in Chain(d, r)
  BY <1>1, <1>4, <1>5, <1>6, <1>7 DEF Chain
<1>9. t # << >>
  BY <1>2, <1>4, EmptySeq
<1>10. QED
  BY <1>4, <1>8, <1>9 DEF t

(* The call on top calls for a file that it waits for. *)
LEMMA ChainCalls ==
  ASSUME NEW d, Disk(d), NEW r \in File, NEW s \in Chain(d, r), s # << >>, NEW g \in File, <<Last(s), g>> \in Waiting(d)
  PROVE  Append(s, Frame(g)) \in Chain(d, r) /\ Len(Append(s, Frame(g))) = Len(s) + 1
         /\ Append(s, Frame(g)) # << >>
<1>1. /\ s \in Seq(Fit(d)) /\ Len(s) \in Nat
      /\ s[1].file = r
      /\ \A i \in 1 .. Len(s) : s[i].file \in File
      /\ \A i \in 1 .. Len(s) : s[i].file \in Reach(d, r)
      /\ \A i \in 1 .. Len(s) : i > 1 => <<s[i - 1], s[i].file>> \in Waiting(d)
      /\ \A i, j \in 1 .. Len(s) : i < j => s[j].file \in Below(d, s[i].file)
  BY ChainParts
<1>2. /\ Len(s) >= 1 /\ Last(s) = s[Len(s)] /\ Last(s).file \in File /\ Last(s).file \in Reach(d, r)
      /\ Len(s) \in 1 .. Len(s)
  BY ChainTop
<1>3. g \in ImportsOf(d, Last(s).file) /\ d[g] # Missing
  BY DEF Waiting
<1>4. Frame(g) \in Fit(d) /\ Frame(g).file = g
  BY <1>3 DEF Frame, Fit, Frames, Begins
<1>5. PICK fr \in Fit(d) : fr = Frame(g) /\ fr.file = g
  BY <1>4
<1> DEFINE t == Append(s, fr)
<1>6. /\ t \in Seq(Fit(d)) /\ Len(t) = Len(s) + 1 /\ t[Len(s) + 1] = fr
      /\ \A i \in 1 .. Len(s) : t[i] = s[i]
  BY <1>1, AppendProperties
<1> HIDE DEF t
<1>7. g \in Reach(d, r)
  BY <1>2, <1>3, ReachGoes
<1>8. ASSUME NEW i \in 1 .. Len(s)
      PROVE  g \in Below(d, s[i].file)
  <2>1. s[i].file \in File
    BY <1>1
  <2>2. Last(s).file \in Reach(d, s[i].file)
    <3>1. CASE i = Len(s)
      BY <1>2, <3>1 DEF Reach
    <3>2. CASE i # Len(s)
      <4>1. i < Len(s)
        BY <1>1, <3>2
      <4>2. QED
        BY <1>1, <1>2, <4>1 DEF Reach
    <3>3. QED
      BY <3>1, <3>2
  <2>3. QED
    BY <1>3, <2>1, <2>2, ReachGoes
<1>9. \A i \in 1 .. Len(t) : i = Len(s) + 1 \/ i \in 1 .. Len(s)
  BY <1>1, <1>6
<1>10. \A i \in 1 .. Len(t) : t[i].file \in Reach(d, r)
  BY <1>1, <1>5, <1>6, <1>7, <1>9
<1>11. ASSUME NEW i \in 1 .. Len(t), i > 1
       PROVE  <<t[i - 1], t[i].file>> \in Waiting(d)
  <2>1. CASE i = Len(s) + 1
    <3>1. i - 1 = Len(s)
      BY <1>1, <2>1
    <3>2. t[i - 1] = Last(s) /\ t[i].file = g
      BY <1>2, <1>5, <1>6, <2>1, <3>1
    <3>3. QED
      BY <3>2
  <2>2. CASE i \in 1 .. Len(s)
    <3>1. i - 1 \in 1 .. Len(s)
      BY <1>1, <1>11, <2>2
    <3>2. t[i - 1] = s[i - 1] /\ t[i] = s[i]
      BY <1>6, <2>2, <3>1
    <3>3. QED
      BY <1>1, <1>11, <2>2, <3>2
  <2>3. QED
    BY <1>9, <2>1, <2>2
<1>12. ASSUME NEW i \in 1 .. Len(t), NEW j \in 1 .. Len(t), i < j
       PROVE  t[j].file \in Below(d, t[i].file)
  <2>1. i \in 1 .. Len(s)
    BY <1>1, <1>6, <1>12
  <2>2. CASE j = Len(s) + 1
    BY <1>5, <1>6, <1>8, <2>1, <2>2
  <2>3. CASE j \in 1 .. Len(s)
    BY <1>1, <1>6, <1>12, <2>1, <2>3
  <2>4. QED
    BY <1>9, <2>2, <2>3
<1>13. t[1].file = r /\ t # << >>
  <2>1. 1 \in 1 .. Len(s)
    BY <1>1, <1>2
  <2>2. Len(t) # 0
    BY <1>1, <1>6
  <2>3. QED
    BY <1>1, <1>6, <2>1, <2>2, EmptySeq
<1>14. t \in Chain(d, r)
  BY <1>6, <1>10, <1>11, <1>12, <1>13 DEF Chain
<1>15. QED
  BY <1>5, <1>6, <1>13, <1>14 DEF t

(* More calls than files mean that a file is called for below itself.       *)
LEMMA ChainCycle ==
  ASSUME NEW d, Disk(d), NEW r \in File, NEW s \in Chain(d, r), IsFiniteSet(File), Len(s) > Cardinality(File)
  PROVE  Cyclic(d, r)
<1>1. /\ Len(s) \in Nat /\ \A i \in 1 .. Len(s) : s[i].file \in File /\ s[i].file \in Reach(d, r)
      /\ \A i, j \in 1 .. Len(s) : i < j => s[j].file \in Below(d, s[i].file)
  BY ChainParts
<1> DEFINE n == Len(s)
           f == [i \in 1 .. n |-> s[i].file]
<1>2. f \in [1 .. n -> File]
  BY <1>1
<1>3. IsFiniteSet(1 .. n) /\ Cardinality(1 .. n) = n
  <2>1. PICK m \in Nat : m = n
    BY <1>1
  <2>2. IsFiniteSet(1 .. m) /\ Cardinality(1 .. m) = IF 1 > m THEN 0 ELSE m - 1 + 1
    BY FS_Interval
  <2>3. QED
    BY <2>1, <2>2
<1>4. Cardinality(File) < Cardinality(1 .. n)
  <2>1. Cardinality(File) \in Nat
    BY FS_CardinalityType
  <2>2. QED
    BY <1>1, <1>3, <2>1
<1> HIDE DEF f
<1>5. PICK i \in 1 .. n, j \in 1 .. n : i # j /\ f[i] = f[j]
  BY <1>2, <1>3, <1>4, FS_PigeonHole
<1>6. s[i].file = s[j].file
  BY <1>5 DEF f
<1>7. i < j \/ j < i
  BY <1>1, <1>5
<1>8. s[i].file \in Below(d, s[i].file)
  BY <1>1, <1>5, <1>6, <1>7
<1>9. QED
  BY <1>1, <1>8 DEF Cyclic

-----------------------------------------------------------------------------
(***************************************************************************)
(* Parts of steps.                                                         *)
(***************************************************************************)

Calls(d, r) ==
  /\ d \in Disks /\ d = disk /\ Disk(d) /\ r \in File /\ r = root
  /\ stack \in Chain(d, r) /\ stack # << >> /\ Len(stack) <= MaxDepth /\ outcome = "running"

LEMMA Disked ==
  ASSUME NEW d \in Disks
  PROVE  Disk(d)
BY CheckerAssumption DEF Disk

LEMMA InCalls ==
  ASSUME IInv, outcome = "running"
  PROVE  \E d, r : Calls(d, r)
<1>1. PICK d \in Disks, r \in File :
        \E s \in Chain(d, r) : /\ d = disk /\ r = root /\ s = stack /\ Len(s) <= MaxDepth
                               /\ outcome = "running" => s # << >>
  BY DEF IInv
<1>2. QED
  BY <1>1, Disked DEF Calls

LEMMA Awaited ==
  ASSUME IInv, NEW d, NEW r, Calls(d, r), answer # "awaited"
  PROVE  \E g \in File : /\ <<Top, g>> \in Waiting(d)
                         /\ answer = "some" => Good(d, g)
                         /\ answer = "none" => ~Sound(d, g)
<1>1. \E s \in Chain(d, r) : s = stack /\ (\E a \in {answer} : Answers(d, s, a))
  BY DEF IInv, Calls
<1>2. QED
  BY <1>1 DEF Answers, Top

LEMMA AnswersKnown ==
  ASSUME IInv
  PROVE  answer \in {"awaited", "some", "none"}
BY DEF IInv

(* The calls go on, or nothing more happens. *)
LEMMA GoesOn ==
  ASSUME NEW d, NEW r, Calls(d, r), UNCHANGED <<disk, root, outcome>>,
         stack' \in Chain(d, r), stack' # << >>, Len(stack') <= MaxDepth,
         \/ answer' = "awaited"
         \/ \E a \in {"some", "none"}, s \in {stack'} : answer' = a /\ Answers(d, s, a)
  PROVE  IInv'
<1>1. PICK s : s = stack'
  OBVIOUS
<1>2. PICK a : a = answer'
  OBVIOUS
<1>3. d \in Disks /\ d = disk' /\ r \in File /\ r = root' /\ s \in Chain(d, r) /\ s # << >> /\ Len(s) <= MaxDepth
  BY <1>1 DEF Calls
<1>4. a \in {"awaited", "some", "none"}
  BY <1>2
<1>5. a # "awaited" => Answers(d, s, a)
  BY <1>1, <1>2
<1>6. outcome' = "running" /\ Verdict(d, r, "running")
  BY DEF Calls, Verdict
<1>7. QED
  BY <1>1, <1>2, <1>3, <1>4, <1>5, <1>6 DEF IInv

LEMMA IsOver ==
  ASSUME NEW d, NEW r, Calls(d, r), UNCHANGED <<disk, root>>,
         stack' \in Chain(d, r), Len(stack') <= MaxDepth, answer' \in {"awaited", "some", "none"},
         NEW how \in {"some", "none", "overflows", "panics"}, outcome' = how, Verdict(d, r, how)
  PROVE  IInv'
<1>1. PICK s : s = stack'
  OBVIOUS
<1>2. d \in Disks /\ d = disk' /\ r \in File /\ r = root' /\ s \in Chain(d, r) /\ Len(s) <= MaxDepth
  BY <1>1 DEF Calls
<1>3. outcome' # "running"
  OBVIOUS
<1>4. QED
  BY <1>1, <1>2, <1>3 DEF IInv

LEMMA Stopping ==
  ASSUME IInv, NEW d, NEW r, Calls(d, r), NEW how \in {"overflows", "panics"}, Stops(how), Verdict(d, r, how)
  PROVE  IInv'
<1>1. outcome' = how /\ UNCHANGED <<disk, root, stack, answer>>
  BY DEF Stops
<1>2. answer \in {"awaited", "some", "none"}
  BY AnswersKnown
<1>3. stack \in Chain(d, r) /\ Len(stack) <= MaxDepth
  BY DEF Calls
<1>4. QED
  BY <1>1, <1>2, <1>3, IsOver

LEMMA Moving ==
  ASSUME NEW d, NEW r, Calls(d, r), NEW fr \in Fit(d), fr.file = Top.file, stack' = Append(Front(stack), fr),
         answer' = "awaited", UNCHANGED <<disk, root, outcome>>
  PROVE  IInv'
<1>1. stack' \in Chain(d, r) /\ stack' # << >> /\ Len(stack') = Len(stack) /\ Len(stack) <= MaxDepth
  BY ChainBecomes DEF Calls, Top
<1>2. QED
  BY <1>1, GoesOn

LEMMA Calling ==
  ASSUME IInv, NEW d, NEW r, Calls(d, r), answer = "awaited", NEW g \in File, <<Top, g>> \in Waiting(d), Call(g),
         Deep
  PROVE  IInv'
<1>1. PICK s \in Chain(d, r) : s = stack /\ s # << >> /\ Len(s) <= MaxDepth /\ Last(s) = Top
  BY DEF Calls, Top
<1> DEFINE t == Append(s, Frame(g))
<1>2. t \in Chain(d, r) /\ t # << >> /\ Len(t) = Len(s) + 1
  BY <1>1, ChainCalls DEF Calls
<1>3. PICK n \in Nat, max \in Nat : n = Len(s) /\ max = MaxDepth
  BY ChainParts, CheckerAssumption
<1>4. n <= max /\ Len(t) = n + 1
  BY <1>1, <1>2, <1>3
<1> HIDE DEF t
<1>5. CASE n = max
  <2>1. PICK files \in Nat : files = Cardinality(File) /\ max >= files
    BY <1>3, FS_CardinalityType DEF Deep
  <2>2. Len(t) > Cardinality(File)
    <3>1. n + 1 > files
      BY <1>3, <1>5, <2>1
    <3>2. QED
      BY <1>4, <2>1, <3>1
  <2>3. Cyclic(d, r)
    BY <1>2, <2>2, ChainCycle DEF Calls, Deep
  <2>4. Verdict(d, r, "overflows") /\ Stops("overflows")
    BY <1>1, <1>3, <1>5, <2>3 DEF Verdict, Call
  <2>5. QED
    BY <2>4, Stopping
<1>6. CASE n # max
  <2>1. stack' = t /\ UNCHANGED <<disk, root, answer, outcome>>
    BY <1>1, <1>3, <1>6 DEF Call, t
  <2>2. Len(t) <= MaxDepth
    <3>1. n + 1 <= max
      BY <1>3, <1>4, <1>6
    <3>2. QED
      BY <1>3, <1>4, <3>1
  <2>3. QED
    BY <1>2, <2>1, <2>2, GoesOn
<1>7. QED
  BY <1>5, <1>6

(* The call on top returns to the one that waits for it, or it was the last.*)
LEMMA Returning ==
  ASSUME IInv, NEW d, NEW r, Calls(d, r), NEW what \in {"some", "none"}, stack' = Front(stack), UNCHANGED <<disk, root>>,
         IF Len(stack) = 1 THEN outcome' = what /\ answer' \in {"awaited", "some", "none"}
         ELSE answer' = what /\ UNCHANGED outcome,
         what = "some" => Good(d, Top.file), what = "none" => ~Sound(d, Top.file)
  PROVE  IInv'
<1>1. PICK s \in Chain(d, r) : s = stack /\ s # << >> /\ Len(s) <= MaxDepth /\ Last(s) = Top
  BY DEF Calls, Top
<1>2. PICK n \in Nat, max \in Nat : n = Len(s) /\ max = MaxDepth
  BY ChainParts, CheckerAssumption
<1>3. /\ n <= max /\ n # 0
      /\ n \in 1 .. Len(s)
  <2>1. n <= max
    BY <1>1, <1>2
  <2>2. n # 0
    BY <1>1, <1>2, ChainTop
  <2>3. n \in 1 .. n
    BY <1>2, <2>2
  <2>4. QED
    BY <1>2, <2>1, <2>2, <2>3
<1>4. Top = s[n] /\ Top.file \in File
  BY <1>1, <1>2, ChainTop
<1> DEFINE t == Front(s)
<1>5. /\ t \in Chain(d, r)
      /\ Len(t) = n - 1
      /\ \A i \in 1 .. n - 1 : t[i] = s[i]
  <2>1. t \in Chain(d, r) /\ Len(t) = Len(s) - 1 /\ \A i \in 1 .. Len(s) - 1 : t[i] = s[i]
    BY <1>1, ChainFront
  <2>2. QED
    BY <1>2, <2>1
<1>6. stack' = t
  BY <1>1
<1> HIDE DEF t
<1>7. Len(t) <= MaxDepth
  <2>1. n - 1 <= max
    BY <1>2, <1>3
  <2>2. QED
    BY <1>2, <1>5, <2>1
<1>8. CASE n = 1
  <2>1. Top.file = r
    <3>1. s[1].file = r
      BY <1>1, ChainParts
    <3>2. QED
      BY <1>4, <1>8, <3>1
  <2>2. Verdict(d, r, what)
    BY <2>1 DEF Verdict
  <2>3. outcome' = what /\ answer' \in {"awaited", "some", "none"}
    BY <1>1, <1>2, <1>8
  <2>4. QED
    BY <1>5, <1>6, <1>7, <2>2, <2>3, IsOver
<1>9. CASE n # 1
  <2>1. n > 1 /\ n - 1 \in 1 .. n - 1 /\ n - 1 # 0
    BY <1>2, <1>3, <1>9
  <2>2. t # << >>
    BY <1>5, <2>1
  <2>3. Last(t) = s[n - 1]
    BY <1>5, <2>1, <2>2, ChainTop
  <2>4. <<s[n - 1], s[n].file>> \in Waiting(d)
    BY <1>3, <2>1, ChainParts
  <2>5. Answers(d, t, what)
    BY <1>4, <2>3, <2>4 DEF Answers
  <2>6. answer' = what /\ UNCHANGED outcome
    BY <1>1, <1>2, <1>9
  <2>7. QED
    BY <1>5, <1>6, <1>7, <2>2, <2>5, <2>6, GoesOn
<1>10. QED
  BY <1>8, <1>9

LEMMA Returned ==
  ASSUME IInv, NEW d, NEW r, Calls(d, r), NEW what \in {"some", "none"}, Return(what),
         what = "some" => Good(d, Top.file), what = "none" => ~Sound(d, Top.file)
  PROVE  IInv'
<1>1. answer \in {"awaited", "some", "none"}
  BY AnswersKnown
<1>2. QED
  BY <1>1, Returning DEF Return

-----------------------------------------------------------------------------
(***************************************************************************)
(* What the passes know after one more item, and at the end of the text.   *)
(***************************************************************************)

(* The type an item adds.                                                   *)
Added(d, f, item) ==
  IF item.op = "class" THEN {f}
  ELSE IF item.op = "import" /\ KindOf(d, item.name) = "class" THEN {item.name} ELSE {}

LEMMA TypesNext ==
  ASSUME NEW d, Disk(d), NEW f \in File, d[f] \notin {Missing, Broken}, NEW k \in 1 .. Len(d[f])
  PROVE  Types(d, f, 1 .. k) = Types(d, f, 1 .. (k - 1)) \cup Added(d, f, d[f][k])
<1>1. Len(d[f]) \in Nat
  BY TextParts
<1>2. k \in Nat /\ k >= 1
  BY <1>1
<1>3. 1 .. k = (1 .. (k - 1)) \cup {k}
  BY <1>2
<1>4. PICK before : before = 1 .. (k - 1)
  OBVIOUS
<1>5. Types(d, f, before \cup {k}) = Types(d, f, before) \cup Added(d, f, d[f][k])
  BY DEF Types, Added
<1>6. QED
  BY <1>3, <1>4, <1>5

LEMMA TypesGrow ==
  ASSUME NEW d, NEW f, NEW A, NEW B, A \subseteq B
  PROVE  Types(d, f, A) \subseteq Types(d, f, B)
BY DEF Types

LEMMA TypesAreFiles ==
  ASSUME NEW d, Disk(d), NEW f \in File, d[f] \notin {Missing, Broken}, NEW A, A \subseteq 1 .. Len(d[f])
  PROVE  Types(d, f, A) \subseteq File
BY TextParts DEF Types

LEMMA FitParts ==
  ASSUME NEW d, Disk(d), NEW fr \in Fit(d), fr.phase # "parse"
  PROVE  /\ fr.file \in File /\ d[fr.file] \notin {Missing, Broken} /\ fr \in Frames
         /\ \E n \in Nat, k \in Nat \ {0} : /\ n = Len(d[fr.file]) /\ k = fr.at /\ k <= n + 1
                                            /\ DOMAIN d[fr.file] = 1 .. n
<1>1. /\ fr \in Frames /\ fr.file \in File /\ d[fr.file] \notin {Missing, Broken} /\ fr.at \in Nat \ {0}
      /\ fr.at <= Len(d[fr.file]) + 1
  BY DEF Fit, Frames
<1>2. Len(d[fr.file]) \in Nat /\ DOMAIN d[fr.file] = 1 .. Len(d[fr.file])
  BY <1>1, TextParts
<1>3. QED
  BY <1>1, <1>2

LEMMA ParseDone ==
  ASSUME NEW d, Disk(d), NEW fr \in Fit(d), fr.phase = "parse", d[fr.file] # Broken
  PROVE  [fr EXCEPT !.phase = "hoist"] \in Fit(d)
<1>1. fr \in Frames /\ fr.file \in File /\ fr.at = 1 /\ fr.known = {} /\ d[fr.file] \notin {Missing, Broken}
  BY DEF Fit, Frames, Begins
<1>2. Len(d[fr.file]) \in Nat
  BY <1>1, TextParts
<1>3. PICK f \in File : f = fr.file
  BY <1>1
<1>4. PICK to : to = [fr EXCEPT !.phase = "hoist"]
  OBVIOUS
<1>5. to \in Frames /\ to.file = f /\ to.phase = "hoist" /\ to.at = 1 /\ to.known = {}
  BY <1>1, <1>3, <1>4 DEF Frames
<1>6. Types(d, f, 1 .. (1 - 1)) = {}
  BY DEF Types
<1>7. Hoists(d, to)
  BY <1>5, <1>6 DEF Hoists, Hoisted
<1>8. to.at <= Len(d[f]) + 1
  BY <1>2, <1>3, <1>5
<1>9. QED
  BY <1>1, <1>3, <1>4, <1>5, <1>7, <1>8 DEF Fit

LEMMA HoistNext ==
  ASSUME NEW d, Disk(d), NEW fr \in Fit(d), fr.phase = "hoist", fr.at \in DOMAIN d[fr.file],
         NEW item, item = d[fr.file][fr.at], NEW known, known = Added(d, fr.file, item),
         item.op = "import" => KindOf(d, item.name) # "nothing" /\ Good(d, item.name),
         item.op = "class" => item.types \subseteq fr.known
  PROVE  [fr EXCEPT !.at = @ + 1, !.known = @ \cup known] \in Fit(d)
<1>1. /\ fr.file \in File /\ d[fr.file] \notin {Missing, Broken} /\ fr \in Frames
      /\ \E n \in Nat, k \in Nat \ {0} : /\ n = Len(d[fr.file]) /\ k = fr.at /\ k <= n + 1
                                         /\ DOMAIN d[fr.file] = 1 .. n
  BY FitParts
<1>2. PICK n \in Nat, k \in Nat \ {0} : n = Len(d[fr.file]) /\ k = fr.at /\ DOMAIN d[fr.file] = 1 .. n
  BY <1>1
<1>3. PICK f \in File : f = fr.file
  BY <1>1
<1>4. k \in 1 .. n
  BY <1>2
<1>5. fr.known = Types(d, f, 1 .. (k - 1)) /\ Hoisted(d, f, k)
  BY <1>2, <1>3 DEF Fit, Hoists
<1>6. PICK all : all = Types(d, f, 1 .. k)
  OBVIOUS
<1>7. all = fr.known \cup known /\ all \subseteq File
  <2>1. k \in 1 .. Len(d[f]) /\ item = d[f][k] /\ d[f] \notin {Missing, Broken}
    BY <1>1, <1>2, <1>3, <1>4
  <2>2. all = fr.known \cup known
    BY <1>3, <1>5, <1>6, <2>1, TypesNext
  <2>3. 1 .. k \subseteq 1 .. n
    BY <1>4
  <2>4. all \subseteq File
    BY <1>2, <1>3, <1>6, <2>1, <2>3, TypesAreFiles
  <2>5. QED
    BY <2>2, <2>4
<1>8. PICK to : to = [fr EXCEPT !.at = @ + 1, !.known = @ \cup known]
  OBVIOUS
<1>9. to.file = f /\ to.phase = "hoist" /\ to.at = k + 1 /\ to.known = all
  BY <1>1, <1>2, <1>3, <1>7, <1>8 DEF Frames
<1>10. k + 1 \in Nat \ {0} /\ k + 1 <= n + 1 /\ (k + 1) - 1 = k
  BY <1>2, <1>4
<1>11. to \in Frames
  <2>1. fr.known \cup known \in SUBSET File
    BY <1>7
  <2>2. fr.at + 1 \in Nat \ {0}
    BY <1>2, <1>10
  <2>3. QED
    BY <1>1, <1>8, <2>1, <2>2 DEF Frames
<1>12. Hoisted(d, f, k + 1)
  <2>1. SUFFICES ASSUME NEW i \in 1 .. k
                 PROVE  /\ d[f][i].op = "import" => KindOf(d, d[f][i].name) # "nothing" /\ Good(d, d[f][i].name)
                        /\ d[f][i].op = "class" => d[f][i].types \subseteq Types(d, f, 1 .. (i - 1))
    BY <1>10 DEF Hoisted
  <2>2. CASE i = k
    BY <1>2, <1>3, <1>5, <2>2
  <2>3. CASE i # k
    <3>1. i \in 1 .. (k - 1)
      BY <1>2, <2>3
    <3>2. QED
      BY <1>5, <3>1 DEF Hoisted
  <2>4. QED
    BY <2>2, <2>3
<1>13. Hoists(d, to)
  BY <1>6, <1>9, <1>10, <1>12 DEF Hoists
<1>14. to.at <= Len(d[f]) + 1
  BY <1>2, <1>3, <1>9, <1>10
<1>15. QED
  BY <1>1, <1>3, <1>8, <1>9, <1>11, <1>13, <1>14 DEF Fit

LEMMA HoistDone ==
  ASSUME NEW d, Disk(d), NEW fr \in Fit(d), fr.phase = "hoist", fr.at > Len(d[fr.file])
  PROVE  [fr EXCEPT !.phase = "check", !.at = 1] \in Fit(d)
<1>1. /\ fr.file \in File /\ d[fr.file] \notin {Missing, Broken} /\ fr \in Frames
      /\ \E n \in Nat, k \in Nat \ {0} : /\ n = Len(d[fr.file]) /\ k = fr.at /\ k <= n + 1
                                         /\ DOMAIN d[fr.file] = 1 .. n
  BY FitParts
<1>2. PICK n \in Nat, k \in Nat \ {0} : /\ n = Len(d[fr.file]) /\ k = fr.at /\ k <= n + 1
                                       /\ DOMAIN d[fr.file] = 1 .. n
  BY <1>1
<1>3. PICK f \in File : f = fr.file
  BY <1>1
<1>4. k = n + 1 /\ k - 1 = n
  BY <1>2
<1>5. fr.known = Types(d, f, 1 .. (k - 1)) /\ Hoisted(d, f, k)
  BY <1>2, <1>3 DEF Fit, Hoists
<1>6. PICK to : to = [fr EXCEPT !.phase = "check", !.at = 1]
  OBVIOUS
<1>7. to \in Frames /\ to.file = f /\ to.phase = "check" /\ to.at = 1 /\ to.known = fr.known
  <2>1. 1 \in Nat \ {0}
    OBVIOUS
  <2>2. to.file = f /\ to.phase = "check" /\ to.at = 1 /\ to.known = fr.known
    BY <1>1, <1>3, <1>6 DEF Frames
  <2>3. to \in Frames
    BY <1>1, <1>6, <2>1 DEF Frames
  <2>4. QED
    BY <2>2, <2>3
<1>8. fr.known = Types(d, f, DOMAIN d[f]) /\ Hoisted(d, f, Len(d[f]) + 1)
  BY <1>2, <1>3, <1>4, <1>5
<1>9. Checks(d, to)
  BY <1>7, <1>8 DEF Checks
<1>10. to.at <= Len(d[f]) + 1
  BY <1>2, <1>3, <1>7
<1>11. QED
  BY <1>1, <1>3, <1>6, <1>7, <1>9, <1>10 DEF Fit

LEMMA CheckNext ==
  ASSUME NEW d, Disk(d), NEW fr \in Fit(d), fr.phase = "check", fr.at \in DOMAIN d[fr.file],
         d[fr.file][fr.at].types \subseteq fr.known
  PROVE  [fr EXCEPT !.at = @ + 1, !.known = @ \cup {}] \in Fit(d)
<1>1. /\ fr.file \in File /\ d[fr.file] \notin {Missing, Broken} /\ fr \in Frames
      /\ \E n \in Nat, k \in Nat \ {0} : /\ n = Len(d[fr.file]) /\ k = fr.at /\ k <= n + 1
                                         /\ DOMAIN d[fr.file] = 1 .. n
  BY FitParts
<1>2. PICK n \in Nat, k \in Nat \ {0} : n = Len(d[fr.file]) /\ k = fr.at /\ DOMAIN d[fr.file] = 1 .. n
  BY <1>1
<1>3. PICK f \in File : f = fr.file
  BY <1>1
<1>4. k \in 1 .. n
  BY <1>2
<1>5. /\ fr.known = Types(d, f, DOMAIN d[f]) /\ Hoisted(d, f, Len(d[f]) + 1)
      /\ \A i \in 1 .. (k - 1) : d[f][i].types \subseteq fr.known
  BY <1>2, <1>3 DEF Fit, Checks
<1>6. PICK to : to = [fr EXCEPT !.at = @ + 1, !.known = @ \cup {}]
  OBVIOUS
<1>7. to \in Frames /\ to.file = f /\ to.phase = "check" /\ to.at = k + 1 /\ to.known = fr.known
  <2>1. fr.at + 1 \in Nat \ {0}
    BY <1>2
  <2>2. to \in Frames
    BY <1>1, <1>6, <2>1 DEF Frames
  <2>3. QED
    BY <1>1, <1>2, <1>3, <1>6, <2>2 DEF Frames
<1>8. (k + 1) - 1 = k /\ k + 1 <= n + 1
  BY <1>2, <1>4
<1>9. \A i \in 1 .. k : d[f][i].types \subseteq fr.known
  <2>1. SUFFICES ASSUME NEW i \in 1 .. k
                 PROVE  d[f][i].types \subseteq fr.known
    OBVIOUS
  <2>2. CASE i = k
    BY <1>2, <1>3, <2>2
  <2>3. CASE i # k
    <3>1. i \in 1 .. (k - 1)
      BY <1>2, <2>3
    <3>2. QED
      BY <1>5, <3>1
  <2>4. QED
    BY <2>2, <2>3
<1>10. Checks(d, to)
  BY <1>5, <1>7, <1>8, <1>9 DEF Checks
<1>11. to.at <= Len(d[f]) + 1
  BY <1>2, <1>3, <1>7, <1>8
<1>12. QED
  BY <1>1, <1>3, <1>6, <1>7, <1>10, <1>11 DEF Fit

(* The text has been checked, and has no export that the builder of the     *)
(* scopes does not know.                                                    *)
LEMMA CheckDone ==
  ASSUME NEW d, Disk(d), NEW fr \in Fit(d), fr.phase = "check", fr.at > Len(d[fr.file]),
         \A i \in DOMAIN d[fr.file] : d[fr.file][i].op # "export"
  PROVE  [fr EXCEPT !.phase = "infer", !.at = 1] \in Fit(d)
<1>1. /\ fr.file \in File /\ d[fr.file] \notin {Missing, Broken} /\ fr \in Frames
      /\ \E n \in Nat, k \in Nat \ {0} : /\ n = Len(d[fr.file]) /\ k = fr.at /\ k <= n + 1
                                         /\ DOMAIN d[fr.file] = 1 .. n
  BY FitParts
<1>2. PICK n \in Nat, k \in Nat \ {0} : /\ n = Len(d[fr.file]) /\ k = fr.at /\ k <= n + 1
                                       /\ DOMAIN d[fr.file] = 1 .. n
  BY <1>1
<1>3. PICK f \in File : f = fr.file
  BY <1>1
<1>4. k = n + 1 /\ k - 1 = n /\ (n + 1) - 1 = n
  BY <1>2
<1>5. /\ fr.known = Types(d, f, DOMAIN d[f]) /\ Hoisted(d, f, n + 1)
      /\ \A i \in 1 .. (k - 1) : d[f][i].types \subseteq fr.known
  BY <1>2, <1>3 DEF Fit, Checks
<1>6. \A i \in 1 .. n :
        /\ d[f][i].op = "import" => KindOf(d, d[f][i].name) # "nothing" /\ Good(d, d[f][i].name)
        /\ d[f][i].op = "class" => d[f][i].types \subseteq Types(d, f, 1 .. (i - 1))
        /\ d[f][i].types \subseteq Types(d, f, DOMAIN d[f])
  BY <1>4, <1>5 DEF Hoisted
<1>7. Sound(d, f)
  BY <1>1, <1>2, <1>3, <1>6 DEF Sound
<1>8. \A g \in ImportsOf(d, f) : Good(d, g)
  BY <1>2, <1>3, <1>6 DEF ImportsOf
<1>9. PICK to : to = [fr EXCEPT !.phase = "infer", !.at = 1]
  OBVIOUS
<1>10. to \in Frames /\ to.file = f /\ to.phase = "infer" /\ to.at = 1
  <2>1. 1 \in Nat \ {0}
    OBVIOUS
  <2>2. to.file = f /\ to.phase = "infer" /\ to.at = 1
    BY <1>1, <1>3, <1>9 DEF Frames
  <2>3. to \in Frames
    BY <1>1, <1>9, <2>1 DEF Frames
  <2>4. QED
    BY <2>2, <2>3
<1>11. Infers(d, to)
  BY <1>7, <1>8, <1>10 DEF Infers
<1>12. to.at <= Len(d[f]) + 1
  BY <1>2, <1>3, <1>10
<1>13. QED
  BY <1>1, <1>3, <1>9, <1>10, <1>11, <1>12 DEF Fit

LEMMA InferNext ==
  ASSUME NEW d, Disk(d), NEW fr \in Fit(d), fr.phase = "infer", fr.at <= Len(d[fr.file])
  PROVE  [fr EXCEPT !.at = @ + 1, !.known = @ \cup {}] \in Fit(d)
<1>1. /\ fr.file \in File /\ d[fr.file] \notin {Missing, Broken} /\ fr \in Frames
      /\ \E n \in Nat, k \in Nat \ {0} : /\ n = Len(d[fr.file]) /\ k = fr.at /\ k <= n + 1
                                         /\ DOMAIN d[fr.file] = 1 .. n
  BY FitParts
<1>2. PICK n \in Nat, k \in Nat \ {0} : n = Len(d[fr.file]) /\ k = fr.at
  BY <1>1
<1>3. Infers(d, fr)
  BY DEF Fit
<1>4. PICK to : to = [fr EXCEPT !.at = @ + 1, !.known = @ \cup {}]
  OBVIOUS
<1>5. to \in Frames /\ to.file = fr.file /\ to.phase = "infer" /\ to.at = k + 1
  <2>1. fr.at + 1 \in Nat \ {0}
    BY <1>2
  <2>2. to \in Frames
    BY <1>1, <1>4, <2>1 DEF Frames
  <2>3. QED
    BY <1>1, <1>2, <1>4, <2>2 DEF Frames
<1>6. to.at <= Len(d[fr.file]) + 1
  <2>1. k + 1 <= n + 1
    BY <1>2
  <2>2. QED
    BY <1>2, <1>5, <2>1
<1>7. Infers(d, to)
  BY <1>3, <1>5 DEF Infers
<1>8. QED
  BY <1>1, <1>4, <1>5, <1>6, <1>7 DEF Fit

(* What stands in the way of the passes is a mistake of the file.           *)
LEMMA HoistStops ==
  ASSUME NEW d, Disk(d), NEW fr \in Fit(d), fr.phase = "hoist", fr.at \in DOMAIN d[fr.file],
         NEW item, item = d[fr.file][fr.at],
         \/ item.op = "class" /\ ~(item.types \subseteq fr.known)
         \/ item.op = "import" /\ KindOf(d, item.name) = "nothing"
  PROVE  ~Sound(d, fr.file)
<1>1. fr.known = Types(d, fr.file, 1 .. (fr.at - 1))
  BY DEF Fit, Hoists
<1>2. PICK k \in DOMAIN d[fr.file] : k = fr.at
  OBVIOUS
<1>3. QED
  BY <1>1, <1>2 DEF Sound

LEMMA CheckStops ==
  ASSUME NEW d, Disk(d), NEW fr \in Fit(d), fr.phase = "check", fr.at \in DOMAIN d[fr.file],
         ~(d[fr.file][fr.at].types \subseteq fr.known)
  PROVE  ~Sound(d, fr.file)
<1>1. fr.file \in File /\ d[fr.file] \notin {Missing, Broken}
  BY FitParts
<1>2. PICK f \in File : f = fr.file
  BY <1>1
<1>3. fr.known = Types(d, f, DOMAIN d[f])
  BY <1>2 DEF Fit, Checks
<1>4. PICK k \in DOMAIN d[f] : k = fr.at
  BY <1>2
<1>5. DOMAIN d[f] = 1 .. Len(d[f]) /\ Len(d[f]) \in Nat /\ d[f][k].types # {}
  BY <1>1, <1>2, <1>3, <1>4, TextParts
<1>6. d[f][k].op \in {"class", "fn"}
  BY <1>1, <1>2, <1>5, TextParts
<1>7. 1 .. (k - 1) \subseteq DOMAIN d[f]
  BY <1>5
<1>8. Types(d, f, 1 .. (k - 1)) \subseteq fr.known
  <2>1. PICK before, all : before = 1 .. (k - 1) /\ all = DOMAIN d[f]
    OBVIOUS
  <2>2. Types(d, f, before) \subseteq Types(d, f, all)
    BY <1>7, <2>1, TypesGrow
  <2>3. QED
    BY <1>3, <2>1, <2>2
<1>9. ~Sound(d, f)
  BY <1>2, <1>3, <1>4, <1>6, <1>8 DEF Sound
<1>10. QED
  BY <1>2, <1>9

LEMMA InferDone ==
  ASSUME NEW d, Disk(d), NEW fr \in Fit(d), fr.phase = "infer"
  PROVE  Good(d, fr.file)
<1>1. fr.file \in File /\ Infers(d, fr)
  BY DEF Fit, Frames
<1>2. QED
  BY <1>1, GoodFromImports DEF Infers

-----------------------------------------------------------------------------
(***************************************************************************)
(* One lemma for each action.                                              *)
(***************************************************************************)

LEMMA TopFit ==
  ASSUME NEW d, NEW r, Calls(d, r)
  PROVE  \E fr \in Fit(d) : /\ fr = Top /\ Text = d[fr.file] /\ Disk(d) /\ d = disk
                            /\ fr.file \in File /\ fr.file \in Reach(d, r) /\ d[fr.file] # Missing
<1>1. Top \in Fit(d) /\ Top.file \in File /\ Top.file \in Reach(d, r)
  BY ChainTop DEF Calls, Top
<1>2. d[Top.file] # Missing
  BY <1>1 DEF Fit
<1>3. Text = d[Top.file] /\ Disk(d) /\ d = disk
  BY DEF Calls, Text
<1>4. QED
  BY <1>1, <1>2, <1>3

(* The call on top goes on to its next item. *)
LEMMA Advancing ==
  ASSUME NEW d, NEW r, Calls(d, r), NEW known, Advance(known),
         [Top EXCEPT !.at = @ + 1, !.known = @ \cup known] \in Fit(d)
  PROVE  IInv'
<1>1. PICK to \in Fit(d) : to = [Top EXCEPT !.at = @ + 1, !.known = @ \cup known]
  OBVIOUS
<1>2. PICK fr \in Fit(d) : fr = Top
  BY TopFit
<1>3. to.file = fr.file
  BY <1>1, <1>2 DEF Fit, Frames
<1>4. stack' = Append(Front(stack), to) /\ answer' = "awaited" /\ UNCHANGED <<disk, root, outcome>>
  BY <1>1 DEF Advance
<1>5. QED
  BY <1>2, <1>3, <1>4, Moving

LEMMA Becoming ==
  ASSUME NEW d, NEW r, Calls(d, r), answer = "awaited", NEW to \in Fit(d), to.file = Top.file, Becomes(to)
  PROVE  IInv'
BY Moving DEF Becomes

LEMMA ParseStep ==
  ASSUME IInv, NEW d, NEW r, Calls(d, r), Parse
  PROVE  IInv'
<1>1. PICK fr \in Fit(d) : fr = Top /\ Text = d[fr.file] /\ Disk(d) /\ fr.file \in File
  BY TopFit
<1>2. fr.phase = "parse" /\ answer = "awaited"
  BY <1>1 DEF Parse, In
<1>3. CASE Text = Broken
  <2>1. Return("none")
    BY <1>3 DEF Parse
  <2>2. ~Sound(d, fr.file)
    BY <1>1, <1>3 DEF Sound
  <2>3. QED
    BY <1>1, <2>1, <2>2, Returned
<1>4. CASE Text # Broken
  <2>1. PICK to : to = [fr EXCEPT !.phase = "hoist"]
    OBVIOUS
  <2>2. to \in Fit(d)
    BY <1>1, <1>2, <1>4, <2>1, ParseDone
  <2>3. to.file = fr.file
    BY <2>1 DEF Fit, Frames
  <2>4. Becomes(to)
    BY <1>1, <1>4, <2>1 DEF Parse
  <2>5. QED
    BY <1>1, <1>2, <2>2, <2>3, <2>4, Becoming
<1>5. QED
  BY <1>3, <1>4

LEMMA HoistClassStep ==
  ASSUME IInv, NEW d, NEW r, Calls(d, r), HoistClass
  PROVE  IInv'
<1>1. PICK fr \in Fit(d) : fr = Top /\ Text = d[fr.file] /\ Disk(d) /\ fr.file \in File
  BY TopFit
<1>2. PICK item : item = d[fr.file][fr.at]
  OBVIOUS
<1>3. fr.phase = "hoist" /\ fr.at \in DOMAIN d[fr.file] /\ Now = item /\ item.op = "class"
  BY <1>1, <1>2 DEF HoistClass, AtItem, In, Now
<1>4. CASE Resolves(Now, Top.known)
  <2>1. Advance({Top.file})
    BY <1>4 DEF HoistClass
  <2>2. Added(d, fr.file, item) = {fr.file} /\ item.types \subseteq fr.known
    BY <1>1, <1>3, <1>4 DEF Added, Resolves
  <2>3. [fr EXCEPT !.at = @ + 1, !.known = @ \cup {fr.file}] \in Fit(d)
    BY <1>1, <1>2, <1>3, <2>2, HoistNext
  <2>4. QED
    BY <1>1, <2>1, <2>3, Advancing
<1>5. CASE ~Resolves(Now, Top.known)
  <2>1. Return("none")
    BY <1>5 DEF HoistClass
  <2>2. ~(item.types \subseteq fr.known)
    BY <1>1, <1>3, <1>5 DEF Resolves
  <2>3. ~Sound(d, fr.file)
    BY <1>1, <1>2, <1>3, <2>2, HoistStops
  <2>4. QED
    BY <1>1, <2>1, <2>3, Returned
<1>6. QED
  BY <1>4, <1>5

(* An import is in a text.                                                  *)
LEMMA Imported ==
  ASSUME NEW d, Disk(d), NEW f \in File, d[f] \notin {Missing, Broken}, NEW i \in DOMAIN d[f], d[f][i].op = "import"
  PROVE  d[f][i].name \in File /\ d[f][i].name \in ImportsOf(d, f)
BY TextParts DEF ImportsOf

LEMMA HoistImportStep ==
  ASSUME Deep, IInv, NEW d, NEW r, Calls(d, r), HoistImport
  PROVE  IInv'
<1>1. PICK fr \in Fit(d) : fr = Top /\ Text = d[fr.file] /\ Disk(d) /\ fr.file \in File /\ d = disk
  BY TopFit
<1>2. PICK item : item = d[fr.file][fr.at]
  OBVIOUS
<1>3. /\ fr.phase = "hoist" /\ fr.at \in DOMAIN d[fr.file] /\ Now = item /\ item.op = "import"
      /\ answer = "awaited"
  BY <1>1, <1>2 DEF HoistImport, AtItem, In, Now
<1>4. /\ d[fr.file] \notin {Missing, Broken} /\ item.name \in File /\ item.name \in ImportsOf(d, fr.file)
      /\ fr.at <= Len(d[fr.file])
  <2>1. d[fr.file] \notin {Missing, Broken} /\ \E n \in Nat : n = Len(d[fr.file]) /\ DOMAIN d[fr.file] = 1 .. n
    BY <1>1, <1>3, FitParts
  <2>2. PICK n \in Nat : n = Len(d[fr.file]) /\ DOMAIN d[fr.file] = 1 .. n
    BY <2>1
  <2>3. fr.at <= n
    BY <1>3, <2>2
  <2>4. QED
    BY <1>1, <1>2, <1>3, <2>1, <2>2, <2>3, Imported
<1>5. CASE d[item.name] = Missing
  <2>1. Return("none")
    BY <1>1, <1>3, <1>5 DEF HoistImport
  <2>2. KindOf(d, item.name) = "nothing"
    BY <1>5 DEF KindOf
  <2>3. ~Sound(d, fr.file)
    BY <1>1, <1>2, <1>3, <2>2, HoistStops
  <2>4. QED
    BY <1>1, <2>1, <2>3, Returned
<1>6. CASE d[item.name] # Missing
  <2>1. Call(item.name)
    BY <1>1, <1>3, <1>6 DEF HoistImport
  <2>2. <<fr, item.name>> \in Waiting(d)
    BY <1>2, <1>3, <1>4, <1>6 DEF Waiting
  <2>3. QED
    BY <1>1, <1>3, <1>4, <2>1, <2>2, Calling
<1>7. QED
  BY <1>5, <1>6

LEMMA HoistOtherStep ==
  ASSUME IInv, NEW d, NEW r, Calls(d, r), HoistOther
  PROVE  IInv'
<1>1. PICK fr \in Fit(d) : fr = Top /\ Text = d[fr.file] /\ Disk(d) /\ fr.file \in File
  BY TopFit
<1>2. PICK item : item = d[fr.file][fr.at]
  OBVIOUS
<1>3. /\ fr.phase = "hoist" /\ fr.at \in DOMAIN d[fr.file] /\ item.op \in {"fn", "let", "export"}
      /\ Advance({})
  BY <1>1, <1>2 DEF HoistOther, AtItem, In, Now
<1>4. Added(d, fr.file, item) = {}
  BY <1>3 DEF Added
<1>5. [fr EXCEPT !.at = @ + 1, !.known = @ \cup {}] \in Fit(d)
  BY <1>1, <1>2, <1>3, <1>4, HoistNext
<1>6. QED
  BY <1>1, <1>3, <1>5, Advancing

LEMMA HoistImportedStep ==
  ASSUME IInv, NEW d, NEW r, Calls(d, r), HoistImported
  PROVE  IInv'
<1>1. PICK fr \in Fit(d) : /\ fr = Top /\ Text = d[fr.file] /\ Disk(d) /\ d = disk
                           /\ fr.file \in File /\ fr.file \in Reach(d, r)
  BY TopFit
<1>2. PICK item : item = d[fr.file][fr.at]
  OBVIOUS
<1>3. fr.phase = "hoist" /\ answer # "awaited" /\ Now = item
  BY <1>1, <1>2 DEF HoistImported, Answered, Now
<1>4. PICK g \in File : /\ <<fr, g>> \in Waiting(d)
                        /\ answer = "some" => Good(d, g)
                        /\ answer = "none" => ~Sound(d, g)
  BY <1>1, <1>3, Awaited
<1>5. g = item.name /\ item.op = "import" /\ g \in ImportsOf(d, fr.file) /\ fr.at <= Len(d[fr.file])
  BY <1>2, <1>3, <1>4 DEF Waiting
<1>6. fr.at \in DOMAIN d[fr.file]
  <2>1. PICK n \in Nat, k \in Nat \ {0} : n = Len(d[fr.file]) /\ k = fr.at /\ DOMAIN d[fr.file] = 1 .. n
    BY <1>1, <1>3, FitParts
  <2>2. k <= n
    BY <1>5, <2>1
  <2>3. k \in 1 .. n
    BY <2>1, <2>2
  <2>4. QED
    BY <2>1, <2>3
<1>7. CASE answer = "none" /\ Stops("panics")
  <2>1. r \in File /\ ~Sound(d, g)
    BY <1>4, <1>7 DEF Calls
  <2>2. g \in Reach(d, r)
    BY <1>1, <1>5, <2>1, ReachGoes
  <2>3. Verdict(d, r, "panics")
    BY <2>1, <2>2 DEF Verdict
  <2>4. QED
    BY <1>7, <2>3, Stopping
<1>8. CASE /\ answer = "some" /\ ~Exported(disk[Now.name])
           /\ stack' = Front(stack)
           /\ IF Len(stack) = 1 THEN outcome' = "none" /\ answer' = "awaited"
              ELSE answer' = "none" /\ UNCHANGED outcome
           /\ UNCHANGED <<disk, root>>
  <2>1. Sound(d, g) /\ ~Exported(d[g])
    BY <1>1, <1>3, <1>4, <1>5, <1>8 DEF Good, Reach
  <2>2. KindOf(d, g) = "nothing"
    BY <1>1, <2>1, ExportsFound DEF Sound
  <2>3. ~Sound(d, fr.file)
    BY <1>1, <1>2, <1>3, <1>5, <1>6, <2>2, HoistStops
  <2>4. IF Len(stack) = 1 THEN outcome' = "none" /\ answer' \in {"awaited", "some", "none"}
        ELSE answer' = "none" /\ UNCHANGED outcome
    BY <1>8
  <2>5. QED
    BY <1>1, <1>8, <2>3, <2>4, Returning
<1>9. CASE /\ answer = "some" /\ Exported(disk[Now.name])
           /\ Advance(IF Declares(disk[Now.name], "class") THEN {Now.name} ELSE {})
  <2>1. Good(d, g) /\ Sound(d, g) /\ Exported(d[g])
    BY <1>1, <1>3, <1>4, <1>5, <1>9 DEF Good, Reach
  <2>2. KindOf(d, g) # "nothing" /\ (Declares(d[g], "class") <=> KindOf(d, g) = "class")
    BY <1>1, <2>1, ExportsFound DEF Sound
  <2>3. Advance(Added(d, fr.file, item))
    BY <1>1, <1>3, <1>5, <1>9, <2>2 DEF Added
  <2>4. [fr EXCEPT !.at = @ + 1, !.known = @ \cup Added(d, fr.file, item)] \in Fit(d)
    BY <1>1, <1>2, <1>3, <1>5, <1>6, <2>1, <2>2, HoistNext
  <2>5. QED
    BY <1>1, <2>3, <2>4, Advancing
<1>10. QED
  BY <1>7, <1>8, <1>9 DEF HoistImported

LEMMA EndHoistStep ==
  ASSUME IInv, NEW d, NEW r, Calls(d, r), EndHoist
  PROVE  IInv'
<1>1. PICK fr \in Fit(d) : fr = Top /\ Text = d[fr.file] /\ Disk(d)
  BY TopFit
<1>2. fr.phase = "hoist" /\ fr.at > Len(d[fr.file]) /\ answer = "awaited"
  BY <1>1 DEF EndHoist, AtEnd, In
<1>3. PICK to : to = [fr EXCEPT !.phase = "check", !.at = 1]
  OBVIOUS
<1>4. to \in Fit(d) /\ to.file = fr.file
  BY <1>1, <1>2, <1>3, HoistDone DEF Fit, Frames
<1>5. Becomes(to)
  BY <1>1, <1>3 DEF EndHoist
<1>6. QED
  BY <1>1, <1>2, <1>4, <1>5, Becoming

LEMMA CheckStep ==
  ASSUME IInv, NEW d, NEW r, Calls(d, r), Check
  PROVE  IInv'
<1>1. PICK fr \in Fit(d) : fr = Top /\ Text = d[fr.file] /\ Disk(d)
  BY TopFit
<1>2. fr.phase = "check" /\ fr.at \in DOMAIN d[fr.file] /\ Now = d[fr.file][fr.at]
  BY <1>1 DEF Check, AtItem, In, Now
<1>3. CASE Resolves(Now, Top.known)
  <2>1. Advance({}) /\ d[fr.file][fr.at].types \subseteq fr.known
    BY <1>1, <1>2, <1>3 DEF Check, Resolves
  <2>2. [fr EXCEPT !.at = @ + 1, !.known = @ \cup {}] \in Fit(d)
    BY <1>1, <1>2, <2>1, CheckNext
  <2>3. QED
    BY <1>1, <2>1, <2>2, Advancing
<1>4. CASE ~Resolves(Now, Top.known)
  <2>1. Return("none") /\ ~(d[fr.file][fr.at].types \subseteq fr.known)
    BY <1>1, <1>2, <1>4 DEF Check, Resolves
  <2>2. ~Sound(d, fr.file)
    BY <1>1, <1>2, <2>1, CheckStops
  <2>3. QED
    BY <1>1, <2>1, <2>2, Returned
<1>5. QED
  BY <1>3, <1>4

LEMMA EndCheckStep ==
  ASSUME IInv, NEW d, NEW r, Calls(d, r), EndCheck
  PROVE  IInv'
<1>1. PICK fr \in Fit(d) : fr = Top /\ Text = d[fr.file] /\ Disk(d) /\ fr.file \in Reach(d, r)
  BY TopFit
<1>2. fr.phase = "check" /\ fr.at > Len(d[fr.file]) /\ answer = "awaited"
  BY <1>1 DEF EndCheck, AtEnd, In
<1>3. CASE \E i \in DOMAIN Text : Text[i].op = "export"
  <2>1. Stops("panics")
    BY <1>3 DEF EndCheck
  <2>2. ~Sound(d, fr.file)
    BY <1>1, <1>3 DEF Sound
  <2>3. Verdict(d, r, "panics")
    BY <1>1, <2>2 DEF Verdict
  <2>4. QED
    BY <2>1, <2>3, Stopping
<1>4. CASE ~ \E i \in DOMAIN Text : Text[i].op = "export"
  <2>1. PICK to : to = [fr EXCEPT !.phase = "infer", !.at = 1]
    OBVIOUS
  <2>2. \A i \in DOMAIN d[fr.file] : d[fr.file][i].op # "export"
    BY <1>1, <1>4
  <2>3. to \in Fit(d) /\ to.file = fr.file
    BY <1>1, <1>2, <2>1, <2>2, CheckDone DEF Fit, Frames
  <2>4. Becomes(to)
    BY <1>1, <1>4, <2>1 DEF EndCheck
  <2>5. QED
    BY <1>1, <1>2, <2>3, <2>4, Becoming
<1>5. QED
  BY <1>3, <1>4

LEMMA InferStep ==
  ASSUME Deep, IInv, NEW d, NEW r, Calls(d, r), Infer
  PROVE  IInv'
<1>1. PICK fr \in Fit(d) : fr = Top /\ Text = d[fr.file] /\ Disk(d) /\ d = disk /\ fr.file \in File
  BY TopFit
<1>2. PICK item : item = d[fr.file][fr.at]
  OBVIOUS
<1>3. fr.phase = "infer" /\ fr.at \in DOMAIN d[fr.file] /\ Now = item /\ answer = "awaited"
  BY <1>1, <1>2 DEF Infer, AtItem, In, Now
<1>4. PICK n \in Nat, k \in Nat \ {0} : n = Len(d[fr.file]) /\ k = fr.at /\ DOMAIN d[fr.file] = 1 .. n
  BY <1>1, <1>3, FitParts
<1>5. k <= n /\ d[fr.file] \notin {Missing, Broken}
  BY <1>1, <1>3, <1>4, FitParts
<1>6. fr.at <= Len(d[fr.file])
  BY <1>4, <1>5
<1>7. CASE item.op = "let" /\ Imports(item.name) /\ d[item.name] # Missing
  <2>1. Call(item.name)
    BY <1>1, <1>3, <1>7 DEF Infer
  <2>2. PICK i \in 1 .. (k - 1) : d[fr.file][i].op = "import" /\ d[fr.file][i].name = item.name
    BY <1>1, <1>4, <1>7 DEF Imports
  <2>3. i \in DOMAIN d[fr.file]
    BY <1>4, <1>5
  <2>4. item.name \in File /\ item.name \in ImportsOf(d, fr.file)
    BY <1>1, <1>5, <2>2, <2>3, Imported
  <2>5. <<fr, item.name>> \in Waiting(d)
    BY <1>2, <1>3, <1>6, <1>7, <2>4 DEF Waiting
  <2>6. QED
    BY <1>1, <1>3, <2>1, <2>4, <2>5, Calling
<1>8. CASE ~(item.op = "let" /\ Imports(item.name) /\ d[item.name] # Missing)
  <2>1. Advance({})
    BY <1>1, <1>3, <1>8 DEF Infer
  <2>2. [fr EXCEPT !.at = @ + 1, !.known = @ \cup {}] \in Fit(d)
    BY <1>1, <1>3, <1>6, InferNext
  <2>3. QED
    BY <1>1, <2>1, <2>2, Advancing
<1>9. QED
  BY <1>7, <1>8

LEMMA InferredStep ==
  ASSUME IInv, NEW d, NEW r, Calls(d, r), Inferred
  PROVE  IInv'
<1>1. PICK fr \in Fit(d) : fr = Top /\ Disk(d)
  BY TopFit
<1>2. fr.phase = "infer" /\ answer # "awaited" /\ Advance({})
  BY <1>1 DEF Inferred, Answered
<1>3. fr.at <= Len(d[fr.file])
  BY <1>1, <1>2, Awaited DEF Waiting
<1>4. [fr EXCEPT !.at = @ + 1, !.known = @ \cup {}] \in Fit(d)
  BY <1>1, <1>2, <1>3, InferNext
<1>5. QED
  BY <1>1, <1>2, <1>4, Advancing

LEMMA EndInferStep ==
  ASSUME IInv, NEW d, NEW r, Calls(d, r), EndInfer
  PROVE  IInv'
<1>1. PICK fr \in Fit(d) : fr = Top /\ Disk(d)
  BY TopFit
<1>2. fr.phase = "infer" /\ Return("some")
  BY <1>1 DEF EndInfer, AtEnd, In
<1>3. Good(d, fr.file)
  BY <1>1, <1>2, InferDone
<1>4. QED
  BY <1>1, <1>2, <1>3, Returned

-----------------------------------------------------------------------------
LEMMA Start ==
  ASSUME Init
  PROVE  IInv
<1>1. PICK d \in Disks, r \in File : d = disk /\ r = root /\ d[r] # Missing
  BY DEF Init
<1>2. PICK fr : fr = Frame(r)
  OBVIOUS
<1>3. fr \in Fit(d) /\ fr.file = r
  BY <1>1, <1>2 DEF Frame, Fit, Frames, Begins
<1>4. PICK s : s = <<fr>>
  OBVIOUS
<1>5. s \in Seq(Fit(d)) /\ Len(s) = 1 /\ s[1] = fr /\ s # << >>
  BY <1>3, <1>4
<1>6. s \in Chain(d, r)
  <2>1. \A i \in 1 .. Len(s) : i = 1
    BY <1>5
  <2>2. \A i, j \in 1 .. Len(s) : ~(i > 1) /\ ~(i < j)
    BY <2>1
  <2>3. r \in Reach(d, r)
    BY DEF Reach
  <2>4. QED
    BY <1>3, <1>5, <2>1, <2>2, <2>3 DEF Chain
<1>7. s = stack /\ answer = "awaited" /\ outcome = "running"
  BY <1>1, <1>2, <1>4 DEF Init
<1>8. Len(s) <= MaxDepth
  BY <1>5, CheckerAssumption
<1>9. Verdict(d, r, "running")
  BY DEF Verdict
<1>10. QED
  BY <1>1, <1>5, <1>6, <1>7, <1>8, <1>9 DEF IInv

LEMMA Invariance ==
  ASSUME Deep
  PROVE  Spec => []IInv
<1>1. Init => IInv
  BY Start
<1>2. ASSUME IInv, [Next]_vars
      PROVE  IInv'
  <2>1. CASE UNCHANGED vars
    BY <1>2, <2>1 DEF vars, IInv
  <2>2. CASE Next
    <3>1. outcome = "running"
      BY <2>2 DEF Next, Parse, HoistClass, HoistImport, HoistImported, HoistOther, EndHoist, Check, EndCheck, Infer,
                  Inferred, EndInfer, AtItem, AtEnd, In, Answered
    <3>2. PICK d, r : Calls(d, r)
      BY <1>2, <3>1, InCalls
    <3>3. QED
      BY <1>2, <2>2, <3>2, ParseStep, HoistClassStep, HoistImportStep, HoistImportedStep, HoistOtherStep, EndHoistStep,
         CheckStep, EndCheckStep, InferStep, InferredStep, EndInferStep DEF Next
  <2>3. QED
    BY <1>2, <2>1, <2>2
<1>3. QED
  BY <1>1, <1>2, PTL DEF Spec

(* There is an index exactly if no file in reach has a mistake and none     *)
(* reaches itself; there is none only for a mistake of the file itself; and *)
(* the process goes down only for the mistake of a file in reach, or, if a  *)
(* call for each file fits on the stack, for files that import each other.  *)
(* Of any files, of any texts (type_checker.rs and get_symbol_index).       *)
THEOREM Deserved ==
  ASSUME Deep
  PROVE  Spec => []VerdictDeserved
<1>1. ASSUME IInv
      PROVE  VerdictDeserved
  <2>1. PICK d \in Disks, r \in File : /\ d = disk /\ r = root
                                       /\ \E how \in {"running", "some", "none", "overflows", "panics"} :
                                            outcome = how /\ Verdict(d, r, how)
    BY <1>1 DEF IInv
  <2>2. PICK how : outcome = how /\ Verdict(d, r, how)
    BY <2>1
  <2>3. how = "some" => ~Cyclic(d, r) /\ \A f \in Reach(d, r) : Sound(d, f)
    BY <2>2 DEF Verdict, Good, Cyclic
  <2>4. QED
    BY <2>1, <2>2, <2>3 DEF Verdict, VerdictDeserved
<1>2. Spec => []IInv
  BY Invariance
<1>3. QED
  BY <1>1, <1>2, PTL

=============================================================================
