---------------------------- MODULE ControlProofs ----------------------------
(***************************************************************************)
(* Proofs about Control for every set of values and every depth of levels: *)
(* scopes nest as the syntax does, a marked scope begins nothing more, a   *)
(* call is a frontier, and the value a return left in a call arrives.      *)
(***************************************************************************)
EXTENDS Control, Integers, SequenceTheorems, FiniteSetTheorems, TLAPS

-----------------------------------------------------------------------------
(***************************************************************************)
(* Facts about a sequence used as a stack, its innermost element last.     *)
(***************************************************************************)

(* What is left of a stack when its innermost element is removed. *)
LEMMA FrontLast ==
  ASSUME NEW S, NEW s \in Seq(S), s # << >>
  PROVE  /\ Len(s) \in Nat /\ Len(s) >= 1
         /\ Last(s) \in S /\ Last(s) = s[Len(s)]
         /\ Front(s) \in Seq(S) /\ Len(Front(s)) = Len(s) - 1
         /\ \A i \in 1 .. Len(s) - 1 : Front(s)[i] = s[i]
<1>1. Len(s) \in Nat /\ Len(s) >= 1 /\ Len(s) \in 1 .. Len(s)
  BY LenProperties, EmptySeq
<1>2. Front(s) = SubSeq(s, 1, Len(s) - 1) /\ Last(s) = s[Len(s)]
  BY DEF Front, Last
<1>3. \A i \in 1 .. Len(s) : s[i] \in S
  BY ElementOfSeq
<1> DEFINE n == Len(s) - 1
           t == SubSeq(s, 1, n)
<1>4. n \in Nat /\ 1 \in Int /\ n \in Int /\ \A i \in 1 .. n : s[i] \in S
  BY <1>1, <1>3
<1> HIDE DEF n
<1>5. /\ t \in Seq(S)
      /\ Len(t) = IF 1 <= n THEN n - 1 + 1 ELSE 0
      /\ \A i \in 1 .. n - 1 + 1 : t[i] = s[1 + i - 1]
  BY <1>4, SubSeqProperties
<1>6. Len(t) = n
  BY <1>4, <1>5
<1>7. \A i \in 1 .. n : t[i] = s[i]
  <2> SUFFICES ASSUME NEW i \in 1 .. n
               PROVE  t[i] = s[i]
    OBVIOUS
  <2>1. i \in 1 .. n - 1 + 1 /\ 1 + i - 1 = i
    BY <1>4
  <2>2. QED
    BY <1>5, <2>1
<1>8. QED
  BY <1>1, <1>2, <1>3, <1>5, <1>6, <1>7 DEF n

Stmt == {"none", "expression", "return", "block", "head", "over"}

(***************************************************************************)
(* Levels.                                                                 *)
(***************************************************************************)

(* A stack of levels, in the terms the provers use. *)
LEMMA NestedLevels ==
  ASSUME NEW ls, Nested(ls)
  PROVE  /\ Len(ls) \in Nat /\ Len(ls) >= 1 /\ DOMAIN ls = 1 .. Len(ls)
         /\ \A i \in 1 .. Len(ls) : ls[i] \in Level
         /\ Last(ls) = ls[Len(ls)]
         /\ \A i \in 1 .. Len(ls) - 1 : Holds(ls[i], ls[i + 1])
<1>1. ls \in Seq(Level) /\ ls # << >>
  BY DEF Nested
<1>2. Len(ls) \in Nat /\ Len(ls) >= 1 /\ DOMAIN ls = 1 .. Len(ls)
      /\ Last(ls) = ls[Len(ls)]
  BY <1>1, FrontLast, LenProperties
<1>3. \A i \in 1 .. Len(ls) : ls[i] \in Level
  BY <1>1, ElementOfSeq
<1>4. \A i \in 1 .. Len(ls) - 1 : i \in DOMAIN ls /\ i + 1 \in DOMAIN ls
  BY <1>2
<1>5. QED
  BY <1>2, <1>3, <1>4 DEF Nested

(* What lies under another level is in the middle of a statement.          *)
LEMMA UnderTop ==
  ASSUME NEW ls, Nested(ls), NEW i \in 1 .. Len(ls) - 1
  PROVE  ls[i].stmt # "none"
<1>1. Holds(ls[i], ls[i + 1])
  BY NestedLevels
<1>2. QED
  BY <1>1 DEF Holds

(* A new scope over a statement that can hold it.                          *)
LEMMA PushNested ==
  ASSUME NEW ls, Nested(ls), NEW kind \in {"Call", "Loop", "Regular"},
         NEW stmt \in {"none", "head"}, stmt = "head" => kind = "Loop",
         Holds(Last(ls), Enter(kind, stmt))
  PROVE  /\ Nested(Append(ls, Enter(kind, stmt)))
         /\ Len(Append(ls, Enter(kind, stmt))) = Len(ls) + 1
         /\ \A i \in 1 .. Len(ls) : Append(ls, Enter(kind, stmt))[i] = ls[i]
         /\ Append(ls, Enter(kind, stmt))[Len(ls) + 1] = Enter(kind, stmt)
<1> DEFINE e == Enter(kind, stmt)
           t == Append(ls, e)
<1>1. ls \in Seq(Level) /\ e \in Level /\ e.kind = kind /\ e.stmt = stmt
  BY DEF Nested, Enter, Level
<1>2. Holds(Last(ls), e)
  OBVIOUS
<1> HIDE DEF e
<1>3. /\ t \in Seq(Level) /\ Len(t) = Len(ls) + 1 /\ DOMAIN t = 1 .. Len(ls) + 1
      /\ \A i \in 1 .. Len(ls) : t[i] = ls[i]
      /\ t[Len(ls) + 1] = e
  BY <1>1, AppendProperties, LenProperties
<1> HIDE DEF t
<1>4. Len(ls) \in Nat /\ Len(ls) >= 1 /\ DOMAIN ls = 1 .. Len(ls)
      /\ Last(ls) = ls[Len(ls)]
      /\ \A i \in 1 .. Len(ls) - 1 : Holds(ls[i], ls[i + 1])
  BY NestedLevels
<1>5. t # << >> /\ t[1].kind = "Program"
  BY <1>3, <1>4, EmptySeq DEF Nested
<1>6. ASSUME NEW i \in DOMAIN t, i + 1 \in DOMAIN t
      PROVE  Holds(t[i], t[i + 1])
  <2>1. CASE i = Len(ls)
    BY <1>2, <1>3, <1>4, <2>1
  <2>2. CASE i # Len(ls)
    <3>1. i \in 1 .. Len(ls) - 1 /\ i \in 1 .. Len(ls) /\ i + 1 \in 1 .. Len(ls)
      BY <1>3, <1>4, <1>6, <2>2
    <3>2. QED
      BY <1>3, <1>4, <3>1
  <2>3. QED
    BY <2>1, <2>2
<1>7. ASSUME NEW i \in DOMAIN t, t[i].stmt = "head"
      PROVE  t[i].kind = "Loop"
  BY <1>1, <1>3, <1>4, <1>7 DEF Nested
<1>8. QED
  BY <1>3, <1>5, <1>6, <1>7 DEF Nested, t, e

(* The innermost scope is left.                                            *)
LEMMA PopNested ==
  ASSUME NEW ls, Nested(ls), Last(ls).kind # "Program"
  PROVE  /\ Nested(Front(ls))
         /\ Len(Front(ls)) = Len(ls) - 1
         /\ \A i \in 1 .. Len(ls) - 1 : Front(ls)[i] = ls[i]
<1> DEFINE f == Front(ls)
<1>1. ls \in Seq(Level) /\ ls # << >> /\ ls[1].kind = "Program"
  BY DEF Nested
<1>2. /\ Len(ls) \in Nat /\ Len(ls) >= 1 /\ Last(ls) = ls[Len(ls)]
      /\ f \in Seq(Level) /\ Len(f) = Len(ls) - 1
      /\ \A i \in 1 .. Len(ls) - 1 : f[i] = ls[i]
  BY <1>1, FrontLast
<1>3. DOMAIN f = 1 .. Len(ls) - 1 /\ DOMAIN ls = 1 .. Len(ls)
  BY <1>1, <1>2, LenProperties
<1>4. Len(ls) >= 2
  BY <1>1, <1>2
<1> HIDE DEF f
<1>5. f # << >> /\ f[1].kind = "Program"
  BY <1>1, <1>2, <1>4, EmptySeq
<1>6. \A i \in DOMAIN f : i \in DOMAIN ls /\ f[i] = ls[i]
  BY <1>2, <1>3
<1>7. QED
  BY <1>2, <1>5, <1>6 DEF Nested, f

(* The innermost level's statement goes on to another.                     *)
LEMMA AtNested ==
  ASSUME NEW ls, Nested(ls), NEW stmt \in Stmt, stmt = "head" => Last(ls).kind = "Loop"
  PROVE  /\ Nested(At(ls, stmt))
         /\ Len(At(ls, stmt)) = Len(ls)
         /\ \A i \in 1 .. Len(ls) - 1 : At(ls, stmt)[i] = ls[i]
         /\ Last(At(ls, stmt)).stmt = stmt
         /\ Last(At(ls, stmt)).kind = Last(ls).kind
         /\ Last(At(ls, stmt)).interrupted = Last(ls).interrupted
<1> DEFINE n == Len(ls)
           e == [ls[n] EXCEPT !.stmt = stmt]
           t == At(ls, stmt)
<1>1. t = [ls EXCEPT ![n] = e]
  BY DEF At
<1>2. /\ ls \in Seq(Level) /\ n \in Nat /\ n >= 1 /\ DOMAIN ls = 1 .. n
      /\ ls[n] \in Level /\ n \in 1 .. n
      /\ \A i \in 1 .. n - 1 : Holds(ls[i], ls[i + 1])
  BY NestedLevels DEF Nested
<1>3. Last(ls) = ls[n]
  BY NestedLevels
<1>4. /\ e \in Level /\ e.stmt = stmt /\ e.kind = ls[n].kind
      /\ e.interrupted = ls[n].interrupted
  BY <1>2 DEF Level, Stmt
<1> HIDE DEF e, t
<1>5. /\ t \in Seq(Level) /\ Len(t) = n
      /\ \A i \in 1 .. n : t[i] = IF i = n THEN e ELSE ls[i]
  BY <1>1, <1>2, <1>4, ExceptSeq
<1>6. t # << >> /\ DOMAIN t = 1 .. n
  <2>1. n # 0
    BY <1>2
  <2>2. DOMAIN t = 1 .. n
    BY <1>5, LenProperties
  <2>3. t # << >>
    BY <1>5, <2>1, EmptySeq
  <2>4. QED
    BY <2>2, <2>3
<1>7. Last(t) = e
  BY <1>2, <1>5, <1>6, FrontLast
<1>8. \A i \in 1 .. n : t[i].kind = ls[i].kind
  BY <1>4, <1>5
<1>9. t[1].kind = "Program"
  BY <1>2, <1>8 DEF Nested
<1>10. ASSUME NEW i \in DOMAIN t, i + 1 \in DOMAIN t
       PROVE  Holds(t[i], t[i + 1])
  <2>1. i \in 1 .. n /\ i + 1 \in 1 .. n
    BY <1>6, <1>10
  <2>2. i \in 1 .. n - 1 /\ i # n
    BY <1>2, <2>1
  <2>3. t[i] = ls[i] /\ t[i + 1].kind = ls[i + 1].kind
    BY <1>5, <1>8, <2>1, <2>2
  <2>4. Holds(ls[i], ls[i + 1])
    BY <1>2, <2>2
  <2>5. QED
    BY <2>3, <2>4 DEF Holds
<1>11. ASSUME NEW i \in DOMAIN t, t[i].stmt = "head"
       PROVE  t[i].kind = "Loop"
  BY <1>2, <1>3, <1>4, <1>5, <1>6, <1>11 DEF Nested
<1>12. Nested(t)
  BY <1>5, <1>6, <1>9, <1>10, <1>11 DEF Nested
<1>13. \A i \in 1 .. n - 1 : t[i] = ls[i]
  <2> SUFFICES ASSUME NEW i \in 1 .. n - 1
               PROVE  t[i] = ls[i]
    OBVIOUS
  <2>1. n \in Nat
    BY <1>2
  <2>2. i \in 1 .. n /\ i # n
    BY <2>1
  <2>3. QED
    BY <1>5, <2>2
<1>14. QED
  <2>1. Last(t).stmt = stmt /\ Last(t).kind = Last(ls).kind
    BY <1>3, <1>4, <1>7
  <2>2. Last(t).interrupted = Last(ls).interrupted
    BY <1>3, <1>4, <1>7
  <2>3. Len(t) = Len(ls)
    BY <1>5
  <2>4. QED
    BY <1>12, <1>13, <2>1, <2>2, <2>3 DEF t

(* Marking a scope leaves everything else where it is.                     *)
LEMMA MarkNested ==
  ASSUME Nested(levels), NEW k \in DOMAIN levels, NEW v \in Value
  PROVE  /\ Nested(Mark(k, v))
         /\ Len(Mark(k, v)) = Len(levels)
         /\ \A i \in DOMAIN levels : Mark(k, v)[i].stmt = levels[i].stmt
         /\ \A i \in DOMAIN levels : Mark(k, v)[i].kind = levels[i].kind
         /\ \A i \in DOMAIN levels : i # k => Mark(k, v)[i] = levels[i]
<1> DEFINE n == Len(levels)
           e == [levels[k] EXCEPT !.interrupted = v]
           t == [levels EXCEPT ![k] = e]
<1>1. Mark(k, v) = t
  BY DEF Mark
<1>2. /\ levels \in Seq(Level) /\ n \in Nat /\ n >= 1 /\ DOMAIN levels = 1 .. n
      /\ levels[k] \in Level
      /\ \A i \in 1 .. n - 1 : Holds(levels[i], levels[i + 1])
  BY NestedLevels DEF Nested
<1>3. e \in Level /\ e.stmt = levels[k].stmt /\ e.kind = levels[k].kind
  BY <1>2 DEF Level
<1> HIDE DEF e
<1>4. /\ t \in Seq(Level) /\ Len(t) = n
      /\ \A i \in 1 .. n : t[i] = IF i = k THEN e ELSE levels[i]
  BY <1>2, <1>3, ExceptSeq
<1> HIDE DEF t
<1>5. DOMAIN t = 1 .. n /\ t # << >>
  BY <1>2, <1>4, LenProperties, EmptySeq
<1>6. \A i \in 1 .. n : t[i].stmt = levels[i].stmt /\ t[i].kind = levels[i].kind
  BY <1>3, <1>4
<1>7. t[1].kind = "Program"
  BY <1>2, <1>6 DEF Nested
<1>8. ASSUME NEW i \in DOMAIN t, i + 1 \in DOMAIN t
      PROVE  Holds(t[i], t[i + 1])
  <2>1. /\ i \in 1 .. n - 1
        /\ t[i].stmt = levels[i].stmt /\ t[i + 1].kind = levels[i + 1].kind
    BY <1>2, <1>5, <1>6, <1>8
  <2>2. Holds(levels[i], levels[i + 1])
    BY <1>2, <2>1
  <2>3. QED
    BY <2>1, <2>2 DEF Holds
<1>9. ASSUME NEW i \in DOMAIN t, t[i].stmt = "head"
      PROVE  t[i].kind = "Loop"
  BY <1>2, <1>5, <1>6, <1>9 DEF Nested
<1>10. Nested(t)
  BY <1>4, <1>5, <1>7, <1>8, <1>9 DEF Nested
<1>11. QED
  BY <1>1, <1>2, <1>4, <1>6, <1>10

(***************************************************************************)
(* The end of a body, and the invariants.                                  *)
(***************************************************************************)

(* However a body ends, the levels under it stay and its own, if it stays,  *)
(* begins no statement; only a call hands its value over.                  *)
LEMMA BodyEnds ==
  ASSUME NEW ls, Nested(ls), result \in Value, NEW v \in Value, EndBody(ls, v)
  PROVE  /\ TypeOK'
         /\ Len(levels') \in {Len(ls) - 1, Len(ls)}
         /\ \A i \in 1 .. Len(ls) - 1 : levels'[i] = ls[i]
         /\ Len(levels') = Len(ls) => levels'[Len(ls)].stmt # "none"
         /\ Last(ls).kind = "Call" => result' = v
<1>1. Len(ls) \in Nat /\ Len(ls) >= 1 /\ Last(ls) \in Level
  BY NestedLevels
<1>2. CASE Last(ls).kind \in {"Regular", "Call"}
  <2>1. levels' = Front(ls) /\ result' \in Value
        /\ (Last(ls).kind = "Call" => result' = v)
    BY <1>2 DEF EndBody
  <2>2. Nested(levels') /\ Len(levels') = Len(ls) - 1
        /\ \A i \in 1 .. Len(ls) - 1 : levels'[i] = ls[i]
    BY <1>2, <2>1, PopNested
  <2>3. QED
    BY <1>1, <2>1, <2>2 DEF TypeOK, Nested
<1>3. CASE Last(ls).kind \in {"Loop", "Program"}
  <2>1. PICK stmt \in {"head", "over"} :
          /\ levels' = At(ls, stmt) /\ result' \in Value
          /\ stmt = "head" => Last(ls).kind = "Loop"
    BY <1>3 DEF EndBody
  <2>2. stmt \in Stmt /\ stmt # "none" /\ Last(ls).kind # "Call"
    BY <1>3 DEF Stmt
  <2>3. /\ Nested(levels') /\ Len(levels') = Len(ls)
        /\ \A i \in 1 .. Len(ls) - 1 : levels'[i] = ls[i]
        /\ Last(levels').stmt = stmt
    BY <2>1, <2>2, AtNested
  <2>4. Last(levels') = levels'[Len(ls)]
    BY <2>3 DEF Last
  <2>5. QED
    BY <2>1, <2>2, <2>3, <2>4 DEF TypeOK, Nested
<1>4. QED
  BY <1>1, <1>2, <1>3 DEF Level

(* Only the innermost scope may be marked and at the start of a statement.  *)
LEMMA TopDecides ==
  ASSUME NEW ls, Nested(ls),
         ls[Len(ls)].interrupted # Unmarked => ls[Len(ls)].stmt # "none"
  PROVE  \A i \in DOMAIN ls : ls[i].interrupted # Unmarked => ls[i].stmt # "none"
<1>1. Len(ls) \in Nat /\ DOMAIN ls = 1 .. Len(ls)
  BY NestedLevels
<1>2. \A i \in 1 .. Len(ls) - 1 : ls[i].stmt # "none"
  BY UnderTop
<1>3. SUFFICES ASSUME NEW i \in 1 .. Len(ls)
               PROVE  ls[i].interrupted # Unmarked => ls[i].stmt # "none"
  BY <1>1
<1>4. i = Len(ls) \/ i \in 1 .. Len(ls) - 1
  <2>1. Len(ls) \in Nat
    BY <1>1
  <2>2. QED
    BY <2>1
<1>5. QED
  BY <1>2, <1>4

(* What every step keeps, shown below for one action after the other.      *)
StepOK == TypeOK' /\ MarkedStops' /\ Frontiers /\ Arrives

(* The levels under the innermost one are those under every call.          *)
LEMMA UnderKept ==
  ASSUME TypeOK, TypeOK', Len(levels') >= Len(levels) - 1,
         NEW k \in 1 .. Len(levels), \A call \in Indices("Call") : call <= k,
         \A i \in 1 .. k - 1 : levels'[i] = levels[i]
  PROVE  Frontiers
<1>1. Len(levels) \in Nat /\ DOMAIN levels = 1 .. Len(levels)
  BY NestedLevels DEF TypeOK
<1>2. Len(levels') \in Nat /\ DOMAIN levels' = 1 .. Len(levels')
  BY NestedLevels DEF TypeOK
<1>3. SUFFICES ASSUME NEW call \in Indices("Call"), NEW i \in 1 .. call - 1
               PROVE  i \in DOMAIN levels' /\ levels'[i] = levels[i]
  BY DEF Frontiers
<1>4. call <= k /\ call \in 1 .. Len(levels)
  BY <1>1 DEF Indices
<1>5. i \in 1 .. k - 1 /\ i \in 1 .. Len(levels')
  BY <1>1, <1>2, <1>4
<1>6. QED
  BY <1>2, <1>5

LEMMA CallsBelow ==
  ASSUME TypeOK
  PROVE  /\ Len(levels) \in 1 .. Len(levels)
         /\ \A call \in Indices("Call") : call <= Len(levels)
<1>1. Len(levels) \in Nat /\ Len(levels) >= 1 /\ DOMAIN levels = 1 .. Len(levels)
  BY NestedLevels DEF TypeOK
<1>2. QED
  BY <1>1 DEF Indices

(* What a body that has ended leaves of ls, a stack that may differ from    *)
(* levels in the mark of the scope k.                                       *)
LEMMA EndIsOK ==
  ASSUME TypeOK, NEW ls, Nested(ls), Len(ls) = Len(levels), Last(ls).kind = Top.kind,
         NEW k \in 1 .. Len(levels), \A call \in Indices("Call") : call <= k,
         \A i \in 1 .. k - 1 : ls[i] = levels[i],
         NEW v \in Value, EndBody(ls, v),
         Marked(Len(levels)) => v = Top.interrupted
  PROVE  StepOK
<1>1. Len(ls) \in Nat /\ Len(ls) >= 1
  BY NestedLevels
<1>2. /\ TypeOK'
      /\ Len(levels') \in {Len(ls) - 1, Len(ls)}
      /\ \A i \in 1 .. Len(ls) - 1 : levels'[i] = ls[i]
      /\ Len(levels') = Len(ls) => levels'[Len(ls)].stmt # "none"
      /\ Last(ls).kind = "Call" => result' = v
  BY BodyEnds DEF TypeOK
<1>3. Nested(levels') /\ Len(levels') \in Nat /\ Len(levels') >= 1
  BY <1>2, NestedLevels DEF TypeOK
<1>4. levels'[Len(levels')].stmt # "none"
  <2>1. CASE Len(levels') = Len(ls)
    BY <1>2, <2>1
  <2>2. CASE Len(levels') = Len(ls) - 1
    <3>1. Len(ls) - 1 \in 1 .. Len(ls) - 1
      BY <1>1, <1>3, <2>2
    <3>2. ls[Len(ls) - 1].stmt # "none"
      BY <3>1, UnderTop
    <3>3. QED
      BY <1>2, <2>2, <3>1, <3>2
  <2>3. QED
    BY <1>2, <2>1, <2>2
<1>5. MarkedStops'
  BY <1>3, <1>4, TopDecides DEF MarkedStops, Marked
<1>6. Frontiers
  <2>1. Len(levels') >= Len(levels) - 1
    BY <1>1, <1>2
  <2>2. ASSUME NEW i \in 1 .. k - 1
        PROVE  levels'[i] = levels[i]
    <3>1. i \in 1 .. Len(ls) - 1
      BY <1>1
    <3>2. QED
      BY <1>2, <3>1
  <2>3. QED
    BY <1>2, <2>1, <2>2, UnderKept
<1>7. Arrives
  BY <1>2 DEF Arrives
<1>8. QED
  BY <1>2, <1>5, <1>6, <1>7 DEF StepOK

LEMMA EndUnmarked ==
  ASSUME TypeOK, NEW v \in Value, EndBody(levels, v),
         Marked(Len(levels)) => v = Top.interrupted
  PROVE  StepOK
BY CallsBelow, EndIsOK DEF TypeOK, Top

LEMMA EndMarked ==
  ASSUME TypeOK, ~Marked(Len(levels)), NEW v \in Value, NEW k \in DOMAIN levels,
         \A call \in Indices("Call") : call <= k, EndBody(Mark(k, v), v)
  PROVE  StepOK
<1>1. /\ Nested(levels) /\ Len(levels) \in Nat /\ Len(levels) >= 1
      /\ DOMAIN levels = 1 .. Len(levels)
  BY NestedLevels DEF TypeOK
<1>2. /\ Nested(Mark(k, v)) /\ Len(Mark(k, v)) = Len(levels)
      /\ \A i \in DOMAIN levels : Mark(k, v)[i].kind = levels[i].kind
      /\ \A i \in DOMAIN levels : i # k => Mark(k, v)[i] = levels[i]
  BY <1>1, MarkNested
<1>3. Last(Mark(k, v)).kind = Top.kind
  BY <1>1, <1>2 DEF Top, Last
<1>4. \A i \in 1 .. k - 1 : i \in DOMAIN levels /\ i # k
  BY <1>1
<1>5. QED
  BY <1>1, <1>2, <1>3, <1>4, EndIsOK

(* The innermost statement goes on; a body only if it is not marked.       *)
LEMMA AtIsOK ==
  ASSUME TypeOK, NEW stmt \in Stmt, stmt = "head" => Top.kind = "Loop",
         stmt = "none" => ~Marked(Len(levels)),
         levels' = At(levels, stmt), UNCHANGED result
  PROVE  StepOK
<1>1. Nested(levels) /\ Len(levels) \in Nat /\ Top = levels[Len(levels)]
  BY NestedLevels DEF TypeOK, Top
<1>2. /\ Nested(levels') /\ Len(levels') = Len(levels)
      /\ \A i \in 1 .. Len(levels) - 1 : levels'[i] = levels[i]
      /\ Last(levels').stmt = stmt
      /\ Last(levels').interrupted = Top.interrupted
  BY <1>1, AtNested DEF Top
<1>3. TypeOK'
  BY <1>2 DEF TypeOK
<1>4. Last(levels') = levels'[Len(levels')]
  BY DEF Last
<1>5. MarkedStops'
  BY <1>1, <1>2, <1>4, TopDecides DEF MarkedStops, Marked
<1>6. Frontiers
  <2>1. Len(levels') >= Len(levels) - 1
    BY <1>1, <1>2
  <2>2. QED
    BY <1>2, <1>3, <2>1, CallsBelow, UnderKept
<1>7. Arrives
  BY <1>1, <1>2 DEF Arrives
<1>8. QED
  BY <1>3, <1>5, <1>6, <1>7 DEF StepOK

(* A scope is entered over levels that differ from those of before in the   *)
(* innermost statement at most.                                             *)
LEMMA EnterIsOK ==
  ASSUME TypeOK, MarkedStops, NEW ls, Nested(ls), Len(ls) = Len(levels),
         \A i \in 1 .. Len(levels) - 1 : ls[i] = levels[i],
         NEW kind \in {"Call", "Loop", "Regular"}, NEW stmt \in {"none", "head"},
         stmt = "head" => kind = "Loop",
         Holds(Last(ls), Enter(kind, stmt)),
         levels' = Append(ls, Enter(kind, stmt)), UNCHANGED result
  PROVE  StepOK
<1>1. Nested(levels) /\ Len(levels) \in Nat /\ Len(levels) >= 1
  BY NestedLevels DEF TypeOK
<1>2. /\ Nested(levels') /\ Len(levels') = Len(levels) + 1
      /\ \A i \in 1 .. Len(ls) : levels'[i] = ls[i]
      /\ levels'[Len(ls) + 1] = Enter(kind, stmt)
  BY PushNested
<1>3. TypeOK'
  BY <1>2 DEF TypeOK
<1>4. MarkedStops'
  <2>1. levels'[Len(levels')].interrupted = Unmarked
    BY <1>2 DEF Enter
  <2>2. QED
    BY <1>2, <2>1, TopDecides DEF MarkedStops, Marked
<1>5. Frontiers
  <2>1. ASSUME NEW i \in 1 .. Len(levels) - 1
        PROVE  levels'[i] = levels[i]
    <3>1. i \in 1 .. Len(ls)
      BY <1>1
    <3>2. QED
      BY <1>2, <3>1
  <2>2. Len(levels') >= Len(levels) - 1
    BY <1>1, <1>2
  <2>3. QED
    BY <1>3, <2>1, <2>2, CallsBelow, UnderKept
<1>6. Arrives
  BY <1>1, <1>2 DEF Arrives
<1>7. QED
  BY <1>3, <1>4, <1>5, <1>6 DEF StepOK

(* Nothing happens.                                                         *)
LEMMA StutterIsOK ==
  ASSUME TypeOK, MarkedStops, UNCHANGED vars
  PROVE  StepOK
<1>1. TypeOK' /\ MarkedStops'
  BY DEF TypeOK, MarkedStops, Marked, vars
<1>2. Len(levels) \in Nat
  BY NestedLevels DEF TypeOK
<1>3. Len(levels') >= Len(levels) - 1 /\ ~(Len(levels') < Len(levels))
  BY <1>2 DEF vars
<1>4. \A i \in 1 .. Len(levels) - 1 : levels'[i] = levels[i]
  BY DEF vars
<1>5. Frontiers
  BY <1>1, <1>3, <1>4, CallsBelow, UnderKept
<1>6. QED
  BY <1>1, <1>3, <1>5 DEF StepOK, Arrives

(* Every step of the program.                                               *)
LEMMA Steps ==
  ASSUME TypeOK, MarkedStops, Next
  PROVE  StepOK
<1>1. /\ Nested(levels) /\ levels \in Seq(Level) /\ result \in Value
      /\ Len(levels) \in Nat /\ Len(levels) >= 1 /\ DOMAIN levels = 1 .. Len(levels)
      /\ Top = levels[Len(levels)] /\ Top \in Level
  BY NestedLevels DEF TypeOK, Nested, Top
<1>2. Len(levels) \in DOMAIN levels
  BY <1>1
<1>3. Marked(Len(levels)) => Top.interrupted \in Value /\ Top.stmt # "none"
  BY <1>1, <1>2 DEF Marked, MarkedStops, Level
<1>4. Top.stmt = "head" => Top.kind = "Loop"
  BY <1>1, <1>2 DEF Nested
<1>5. Void \in Value
  BY ValueAssumption
<1>6. ASSUME NEW stmt \in {"expression", "return"}, Start(stmt)
      PROVE  StepOK
  <2>1. stmt \in Stmt /\ stmt # "head" /\ stmt # "none"
    BY DEF Stmt
  <2>2. QED
    BY <1>6, <2>1, AtIsOK DEF Start
<1>7. CASE Complete
  <2>1. CASE Marked(Len(levels))
    <3>1. EndBody(levels, Top.interrupted)
      BY <1>7, <2>1 DEF Complete
    <3>2. QED
      BY <1>3, <2>1, <3>1, EndUnmarked
  <2>2. CASE ~Marked(Len(levels))
    <3>1. levels' = At(levels, "none") /\ UNCHANGED result
      BY <1>7, <2>2 DEF Complete
    <3>2. QED
      BY <2>2, <3>1, AtIsOK DEF Stmt
  <2>3. QED
    BY <2>1, <2>2
<1>8. CASE Break
  <2>1. Top.stmt = "none" /\ ~Marked(Len(levels))
    BY <1>3, <1>8 DEF Break
  <2>2. CASE Breakable = {}
    BY <1>8, <2>1, <2>2, StutterIsOK DEF Break
  <2>3. CASE Breakable # {}
    <3>1. PICK k \in Breakable : EndBody(Mark(k, Void), Void)
      BY <1>8, <2>1, <2>3 DEF Break
    <3>2. k \in DOMAIN levels /\ \A call \in Indices("Call") : call <= k
      <4>1. k \in DOMAIN levels /\ \A call \in Indices("Call") : call < k
        BY <3>1 DEF Breakable, Innermost, Indices
      <4>2. \A call \in Indices("Call") : call \in Nat
        BY <1>1 DEF Indices
      <4>3. QED
        BY <1>1, <4>1, <4>2
    <3>3. QED
      BY <1>5, <2>1, <3>1, <3>2, EndMarked
  <2>4. QED
    BY <2>2, <2>3
<1>9. CASE Finish
  <2>1. EndBody(levels, Void) /\ ~Marked(Len(levels))
    BY <1>3, <1>9 DEF Finish
  <2>2. QED
    BY <1>5, <2>1, EndUnmarked
<1>10. ASSUME NEW v \in Value, Return(v)
       PROVE  StepOK
  <2>1. CASE Marked(Len(levels))
    <3>1. EndBody(levels, Top.interrupted)
      BY <1>10, <2>1 DEF Return
    <3>2. QED
      BY <1>3, <2>1, <3>1, EndUnmarked
  <2>2. CASE ~Marked(Len(levels)) /\ Indices("Call") = {}
    <3>1. levels' = At(levels, "none") /\ UNCHANGED result
      BY <1>10, <2>2 DEF Return
    <3>2. QED
      BY <2>2, <3>1, AtIsOK DEF Stmt
  <2>3. CASE ~Marked(Len(levels)) /\ Indices("Call") # {}
    <3>1. PICK k \in Innermost("Call") : EndBody(Mark(k, v), v)
      BY <1>10, <2>3 DEF Return
    <3>2. k \in DOMAIN levels /\ \A call \in Indices("Call") : call <= k
      BY <3>1 DEF Innermost, Indices
    <3>3. QED
      BY <2>3, <3>1, <3>2, EndMarked
  <2>4. QED
    BY <2>1, <2>2, <2>3
<1>11. CASE CallFunction
  <2>1. Holds(Last(levels), Enter("Call", "none"))
    BY <1>11 DEF CallFunction, Room, Top, Enter, Holds
  <2>2. levels' = Append(levels, Enter("Call", "none")) /\ UNCHANGED result
    BY <1>11 DEF CallFunction
  <2>3. QED
    BY <1>1, <2>1, <2>2, EnterIsOK
<1>12. ASSUME NEW kind \in {"Regular", "Loop"}, NEW stmt \in {"none", "head"},
              stmt = "head" => kind = "Loop",
              levels' = Append(At(levels, "block"), Enter(kind, stmt)), UNCHANGED result
       PROVE  StepOK
  <2>1. /\ Nested(At(levels, "block")) /\ Len(At(levels, "block")) = Len(levels)
        /\ \A i \in 1 .. Len(levels) - 1 : At(levels, "block")[i] = levels[i]
        /\ Last(At(levels, "block")).stmt = "block"
    BY <1>1, AtNested DEF Stmt
  <2>2. Holds(Last(At(levels, "block")), Enter(kind, stmt))
    BY <2>1 DEF Enter, Holds
  <2>3. QED
    BY <1>12, <2>1, <2>2, EnterIsOK
<1>13. CASE EnterBlock
  BY <1>12, <1>13 DEF EnterBlock
<1>14. CASE EnterLoop
  BY <1>12, <1>14 DEF EnterLoop
<1>15. CASE Iterate
  BY <1>15, AtIsOK DEF Iterate, Stmt
<1>16. CASE LeaveLoop
  <2>1. Top.kind = "Loop" /\ levels' = Front(levels) /\ UNCHANGED result
    BY <1>4, <1>16 DEF LeaveLoop
  <2>2. /\ Nested(levels') /\ Len(levels') = Len(levels) - 1
        /\ \A i \in 1 .. Len(levels) - 1 : levels'[i] = levels[i]
    BY <1>1, <2>1, PopNested DEF Top
  <2>3. TypeOK'
    BY <1>1, <2>1, <2>2 DEF TypeOK
  <2>4. MarkedStops'
    <3>1. Len(levels') \in 1 .. Len(levels) - 1
      BY <1>1, <2>2, NestedLevels
    <3>2. levels'[Len(levels')].stmt # "none"
      BY <1>1, <2>2, <3>1, UnderTop
    <3>3. QED
      BY <2>2, <3>2, TopDecides DEF MarkedStops, Marked
  <2>5. Frontiers
    <3>1. Len(levels') >= Len(levels) - 1
      BY <1>1, <2>2
    <3>2. QED
      BY <2>2, <2>3, <3>1, CallsBelow, UnderKept
  <2>6. Arrives
    BY <2>1 DEF Arrives
  <2>7. QED
    BY <2>3, <2>4, <2>5, <2>6 DEF StepOK
<1>17. CASE Fail
  BY <1>17, AtIsOK DEF Fail, Stmt
<1>18. CASE Exited
  BY <1>18, StutterIsOK DEF Exited
<1>19. QED
  BY <1>6, <1>7, <1>8, <1>9, <1>10, <1>11, <1>13, <1>14, <1>15, <1>16, <1>17, <1>18
     DEF Next

(***************************************************************************)
(* The theorems.                                                           *)
(***************************************************************************)

(* The program's scope is there before the first statement.                 *)
LEMMA InitiallyOK == Init => TypeOK /\ MarkedStops
<1> SUFFICES ASSUME Init
             PROVE  TypeOK /\ MarkedStops
  OBVIOUS
<1> DEFINE e == Enter("Program", "none")
<1>1. e \in Level /\ e.kind = "Program" /\ e.stmt = "none" /\ e.interrupted = Unmarked
  BY DEF Enter, Level
<1>2. levels = <<e>> /\ result = Void
  BY DEF Init
<1> HIDE DEF e
<1>3. /\ levels \in Seq(Level) /\ levels # << >> /\ Len(levels) = 1
      /\ DOMAIN levels = 1 .. 1 /\ levels[1] = e
  BY <1>1, <1>2
<1>4. Nested(levels)
  BY <1>1, <1>3 DEF Nested
<1>5. MarkedStops
  BY <1>1, <1>3 DEF MarkedStops, Marked
<1>6. QED
  BY <1>2, <1>4, <1>5, ValueAssumption DEF TypeOK

(* The inductive invariant of the module: its two parts need each other.    *)
LEMMA Invariance == Spec => [](TypeOK /\ MarkedStops)
<1>1. TypeOK /\ MarkedStops /\ [Next]_vars => (TypeOK /\ MarkedStops)'
  BY Steps, StutterIsOK DEF StepOK
<1>2. QED
  BY <1>1, InitiallyOK, PTL DEF Spec

(* For all values and all depths of nesting: scopes nest as the syntax      *)
(* does, so that exit_scope finds the scope its enter_scope pushed.         *)
THEOREM TypeCorrect == Spec => []TypeOK
BY Invariance, PTL

(* A marked scope never begins another statement or iteration.              *)
THEOREM Stopping == Spec => []MarkedStops
BY Invariance, PTL

(* What a function does never reaches the scopes of its callers.            *)
THEOREM Frontier == Spec => CallsAreFrontiers
<1>1. TypeOK /\ MarkedStops /\ [Next]_vars => [Frontiers]_vars
  BY Steps DEF StepOK
<1>2. QED
  BY <1>1, Invariance, PTL DEF Spec, CallsAreFrontiers

(* The value that a nested return left in a call is the value it returns.   *)
THEOREM Arrival == Spec => ReturnArrives
<1>1. TypeOK /\ MarkedStops /\ [Next]_vars => [Arrives]_vars
  BY Steps DEF StepOK
<1>2. QED
  BY <1>1, Invariance, PTL DEF Spec, ReturnArrives

=============================================================================
