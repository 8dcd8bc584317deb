-------------------------- MODULE DocumentsProofs --------------------------
(***************************************************************************)
(* Proofs about Documents for any documents, texts and files, any number   *)
(* of handlers at a time, any room in the outbox and any number of         *)
(* messages: that the handlers see the edits sent before them, that the    *)
(* server catches up with the client, what the client is shown of a save,  *)
(* and what ends the server.                                               *)
(***************************************************************************)
EXTENDS
  Documents, SequenceTheorems, FiniteSetTheorems, WellFoundedInduction, TLAPS

-----------------------------------------------------------------------------
(***************************************************************************)
(* Facts about a sequence used as a stack, its innermost element last,     *)
(* and about numbers.                                                      *)
(***************************************************************************)

(* What is left of a stack when its innermost element is removed. *)
LEMMA FrontLast ==
  ASSUME NEW S, NEW s \in Seq(S), s # << >>
  PROVE  /\ Len(s) \in Nat /\ Len(s) >= 1
         /\ Last(s) \in S /\ Last(s) = s[Len(s)]
         /\ Front(s) \in Seq(S) /\ Len(Front(s)) = Len(s) - 1
         /\ \A i \in 1 .. Len(s) - 1 : Front(s)[i] = s[i]
<1>1. Len(s) \in Nat /\ Len(s) >= 1 /\ Len(s) \in 1 .. Len(s)
  BY LenProperties, EmptySeq
<1>2. Front(s) = SubSeq(s, 1, Len(s) - 1) /\ Last(s) = s[Len(s)]
  BY DEF Front, Last
<1>3. \A i \in 1 .. Len(s) : s[i] \in S
  BY ElementOfSeq
<1> DEFINE n == Len(s) - 1
           t == SubSeq(s, 1, n)
<1>4. n \in Nat /\ 1 \in Int /\ n \in Int /\ \A i \in 1 .. n : s[i] \in S
  BY <1>1, <1>3
<1> HIDE DEF n
<1>5. /\ t \in Seq(S)
      /\ Len(t) = IF 1 <= n THEN n - 1 + 1 ELSE 0
      /\ \A i \in 1 .. n - 1 + 1 : t[i] = s[1 + i - 1]
  BY <1>4, SubSeqProperties
<1>6. Len(t) = n
  BY <1>4, <1>5
<1>7. \A i \in 1 .. n : t[i] = s[i]
  <2> SUFFICES ASSUME NEW i \in 1 .. n
               PROVE  t[i] = s[i]
    OBVIOUS
  <2>1. i \in 1 .. n - 1 + 1 /\ 1 + i - 1 = i
    BY <1>4
  <2>2. QED
    BY <1>5, <2>1
<1>8. QED
  BY <1>1, <1>2, <1>3, <1>5, <1>6, <1>7 DEF n

(* What becomes of a stack when an element of it is replaced. *)
LEMMA ElementReplaced ==
  ASSUME NEW S, NEW s \in Seq(S), NEW k \in 1 .. Len(s), NEW e \in S,
         NEW t, t = [s EXCEPT ![k] = e]
  PROVE  /\ t \in Seq(S) /\ t # << >>
         /\ Len(t) = Len(s) /\ DOMAIN t = 1 .. Len(s)
         /\ Last(t) = t[Len(s)]
         /\ t[k] = e
         /\ \A i \in 1 .. Len(s) : i # k => t[i] = s[i]
<1>1. Len(s) \in Nat /\ Len(s) >= 1
  BY LenProperties
<1>2. /\ t \in Seq(S) /\ Len(t) = Len(s)
      /\ \A j \in 1 .. Len(s) : t[j] = IF j = k THEN e ELSE s[j]
  BY ExceptSeq
<1>3. t # << >>
  <2>1. Len(<< >>) = 0
    OBVIOUS
  <2>2. QED
    BY <1>1, <1>2, <2>1
<1>4. DOMAIN t = 1 .. Len(s) /\ Last(t) = t[Len(s)]
  BY <1>2, <1>3, LenProperties, FrontLast
<1>5. t[k] = e /\ \A i \in 1 .. Len(s) : i # k => t[i] = s[i]
  BY <1>2
<1>6. QED
  BY <1>2, <1>3, <1>4, <1>5

(* The least element of a set of naturals: what induction is done with.    *)
LEMMA LeastNatural ==
  ASSUME NEW T, T \subseteq Nat, T # {}
  PROVE  \E m \in T : \A n \in T : m <= n
<1> DEFINE R == {p \in Nat \X Nat : p[1] < p[2]}
<1>1. IsWellFoundedOn(R, Nat)
  BY NatLessThanWellFounded DEF OpToRel
<1> HIDE DEF R
<1>2. PICK m \in T : \A n \in T : <<n, m>> \notin R
  BY <1>1, WFMin
<1>3. \A n \in T : ~(n < m)
  BY <1>2 DEF R
<1>4. QED
  BY <1>3

-----------------------------------------------------------------------------
(***************************************************************************)
(* Queues.                                                                 *)
(***************************************************************************)

(* What is removed from a queue is one element, and the others close up. *)
LEMMA RemovedAt ==
  ASSUME NEW S, NEW s \in Seq(S), NEW p \in 1 .. Len(s)
  PROVE  /\ RemoveAt(s, p) \in Seq(S)
         /\ DOMAIN RemoveAt(s, p) = 1 .. Len(s) - 1
         /\ \A k \in 1 .. Len(s) - 1 : RemoveAt(s, p)[k] = IF k < p THEN s[k] ELSE s[k + 1]
<1> DEFINE n == Len(s)
           a == SubSeq(s, 1, p - 1)
           b == SubSeq(s, p + 1, n)
<1>1. n \in Nat /\ n >= 1 /\ p \in 1 .. n /\ \A k \in 1 .. n : s[k] \in S
  BY LenProperties, ElementOfSeq
<1> HIDE DEF n
<1>2. /\ a \in Seq(S) /\ Len(a) = p - 1
      /\ \A k \in 1 .. p - 1 : a[k] = s[k]
  <2>1. /\ a \in Seq(S)
        /\ Len(a) = IF 1 <= p - 1 THEN p - 1 - 1 + 1 ELSE 0
        /\ \A k \in 1 .. p - 1 - 1 + 1 : a[k] = s[1 + k - 1]
    <3>1. 1 \in Int /\ p - 1 \in Int /\ \A k \in 1 .. p - 1 : s[k] \in S
      BY <1>1
    <3>2. QED
      BY <3>1, SubSeqProperties
  <2>2. Len(a) = p - 1 /\ p - 1 - 1 + 1 = p - 1 /\ \A k \in 1 .. p - 1 : 1 + k - 1 = k
    BY <1>1, <2>1
  <2>3. QED
    BY <2>1, <2>2
<1>3. /\ b \in Seq(S) /\ Len(b) = n - p
      /\ \A k \in 1 .. n - p : b[k] = s[p + k]
  <2>1. /\ b \in Seq(S)
        /\ Len(b) = IF p + 1 <= n THEN n - (p + 1) + 1 ELSE 0
        /\ \A k \in 1 .. n - (p + 1) + 1 : b[k] = s[p + 1 + k - 1]
    <3>1. p + 1 \in Int /\ n \in Int /\ \A k \in p + 1 .. n : s[k] \in S
      BY <1>1
    <3>2. QED
      BY <3>1, SubSeqProperties
  <2>2. Len(b) = n - p /\ n - (p + 1) + 1 = n - p /\ \A k \in 1 .. n - p : p + 1 + k - 1 = p + k
    BY <1>1, <2>1
  <2>3. QED
    BY <2>1, <2>2
<1> HIDE DEF a, b
<1>4. /\ a \o b \in Seq(S) /\ Len(a \o b) = n - 1
      /\ \A k \in 1 .. n - 1 : (a \o b)[k] = IF k <= p - 1 THEN a[k] ELSE b[k - (p - 1)]
  BY <1>1, <1>2, <1>3, ConcatProperties
<1>5. RemoveAt(s, p) = a \o b
  BY DEF RemoveAt, a, b, n
<1>6. ASSUME NEW k \in 1 .. n - 1
      PROVE  (a \o b)[k] = IF k < p THEN s[k] ELSE s[k + 1]
  <2>1. CASE k < p
    BY <1>1, <1>2, <1>4, <2>1
  <2>2. CASE ~(k < p)
    <3>1. k - (p - 1) \in 1 .. n - p /\ p + (k - (p - 1)) = k + 1 /\ ~(k <= p - 1)
      BY <1>1, <2>2
    <3>2. b[k - (p - 1)] = s[k + 1]
      BY <1>3, <3>1
    <3>3. QED
      BY <1>4, <2>2, <3>1, <3>2
  <2>3. QED
    BY <2>1, <2>2
<1>7. DOMAIN (a \o b) = 1 .. n - 1
  BY <1>4, LenProperties
<1>8. QED
  BY <1>4, <1>5, <1>6, <1>7 DEF n

(* The first occurrence is the one that is removed. *)
LEMMA RemovedFirst ==
  ASSUME NEW S, NEW s \in Seq(S), NEW e
  PROVE  \/ e \notin Range(s) /\ RemoveFirst(s, e) = s
         \/ \E p \in 1 .. Len(s) : s[p] = e /\ RemoveFirst(s, e) = RemoveAt(s, p)
<1>1. Len(s) \in Nat /\ DOMAIN s = 1 .. Len(s)
  BY LenProperties
<1>2. CASE \E k \in 1 .. Len(s) : s[k] = e
  <2> DEFINE I == {k \in 1 .. Len(s) : s[k] = e}
             p == CHOOSE x \in I : \A y \in I : x =< y
  <2>1. I \subseteq Nat /\ I # {}
    BY <1>1, <1>2
  <2>2. \E x \in I : \A y \in I : x =< y
    BY <2>1, LeastNatural
  <2>3. p \in I
    BY <2>2
  <2>4. RemoveFirst(s, e) = RemoveAt(s, p)
    BY <1>2, <2>1 DEF RemoveFirst, SelectInSeq, Min
  <2>5. QED
    BY <2>3, <2>4
<1>3. CASE ~\E k \in 1 .. Len(s) : s[k] = e
  BY <1>1, <1>3 DEF RemoveFirst, Range
<1>4. QED
  BY <1>2, <1>3

(* Every member of F has the greater ones behind it in the queue q. *)
Behind(q, F) == \A k, l \in DOMAIN q : q[k] \in F /\ q[k] < q[l] => k < l

(* One leaves the queue. *)
LEMMA Leaves ==
  ASSUME NEW s \in Seq(Nat), IsInjective(s), NEW e, NEW F, Behind(s, F),
         NEW t, t = RemoveFirst(s, e)
  PROVE  /\ t \in Seq(Nat) /\ IsInjective(t) /\ Range(t) = Range(s) \ {e}
         /\ Behind(t, F)
<1>1. Len(s) \in Nat /\ DOMAIN s = 1 .. Len(s)
  BY LenProperties
<1>2. CASE e \notin Range(s) /\ t = s
  BY <1>2
<1>3. ASSUME NEW p \in 1 .. Len(s), s[p] = e, t = RemoveAt(s, p)
      PROVE  /\ t \in Seq(Nat) /\ IsInjective(t) /\ Range(t) = Range(s) \ {e}
             /\ Behind(t, F)
  <2> DEFINE old(k) == IF k < p THEN k ELSE k + 1
  <2>1. t \in Seq(Nat) /\ DOMAIN t = 1 .. Len(s) - 1
    BY <1>3, RemovedAt
  <2>2. \A k \in DOMAIN t : t[k] = s[old(k)]
    BY <1>3, <2>1, RemovedAt
  <2>3. \A k \in DOMAIN t : old(k) \in DOMAIN s /\ old(k) # p
    BY <1>1, <2>1
  <2>4. \A k, l \in DOMAIN t : (old(k) = old(l) => k = l) /\ (old(k) < old(l) => k < l)
    <3> SUFFICES ASSUME NEW k \in DOMAIN t, NEW l \in DOMAIN t
                 PROVE  (old(k) = old(l) => k = l) /\ (old(k) < old(l) => k < l)
      OBVIOUS
    <3>1. k \in Nat /\ l \in Nat /\ p \in Nat
      BY <1>1, <2>1
    <3>2. QED
      BY <3>1
  <2>5. \A x \in DOMAIN s : x # p => \E k \in DOMAIN t : old(k) = x
    <3> SUFFICES ASSUME NEW x \in DOMAIN s, x # p
                 PROVE  \E k \in DOMAIN t : old(k) = x
      OBVIOUS
    <3>1. CASE x < p
      BY <1>1, <2>1, <3>1
    <3>2. CASE ~(x < p)
      <4>1. x - 1 \in DOMAIN t /\ old(x - 1) = x
        BY <1>1, <2>1, <3>2
      <4>2. QED
        BY <4>1
    <3>3. QED
      BY <3>1, <3>2
  <2> HIDE DEF old
  <2>6. p \in DOMAIN s /\ \A x \in DOMAIN s : s[x] = e => x = p
    BY <1>1, <1>3 DEF IsInjective
  <2>7. Range(t) = Range(s) \ {e}
    <3>1. \A k \in DOMAIN t : t[k] \in Range(s) /\ t[k] # e
      BY <2>2, <2>3, <2>6 DEF Range
    <3>2. \A x \in DOMAIN s : s[x] # e => \E k \in DOMAIN t : t[k] = s[x]
      BY <1>3, <2>2, <2>5
    <3>3. QED
      BY <3>1, <3>2 DEF Range
  <2>8. IsInjective(t)
    BY <2>2, <2>3, <2>4 DEF IsInjective
  <2>9. Behind(t, F)
    BY <2>2, <2>3, <2>4 DEF Behind
  <2>10. QED
    BY <2>1, <2>7, <2>8, <2>9
<1>4. QED
  BY <1>2, <1>3, RemovedFirst

(* One joins the queue: no member of F, or greater than all that are there. *)
LEMMA Joins ==
  ASSUME NEW s \in Seq(Nat), IsInjective(s), NEW e \in Nat, e \notin Range(s),
         NEW F, Behind(s, F), e \in F => \A x \in Range(s) : x < e,
         NEW t, t = Append(s, e)
  PROVE  /\ t \in Seq(Nat) /\ IsInjective(t) /\ Range(t) = Range(s) \cup {e}
         /\ Behind(t, F)
<1>1. Len(s) \in Nat /\ DOMAIN s = 1 .. Len(s) /\ \A k \in DOMAIN s : s[k] \in Nat
  BY LenProperties, ElementOfSeq
<1>2. /\ t \in Seq(Nat) /\ DOMAIN t = 1 .. Len(s) + 1
      /\ \A k \in DOMAIN s : t[k] = s[k]
      /\ t[Len(s) + 1] = e
  BY <1>1, AppendProperties, LenProperties
<1>3. \A k \in DOMAIN t : (k \in DOMAIN s /\ t[k] = s[k]) \/ (k = Len(s) + 1 /\ t[k] = e)
  BY <1>1, <1>2
<1>4. \A k \in DOMAIN s : k \in DOMAIN t /\ k < Len(s) + 1 /\ s[k] \in Range(s) /\ s[k] # e
  BY <1>1, <1>2 DEF Range
<1>5. Range(t) = Range(s) \cup {e}
  BY <1>1, <1>2, <1>3, <1>4 DEF Range
<1>6. IsInjective(t)
  BY <1>3, <1>4 DEF IsInjective
<1>7. Behind(t, F)
  <2> SUFFICES ASSUME NEW k \in DOMAIN t, NEW l \in DOMAIN t, t[k] \in F, t[k] < t[l]
               PROVE  k < l
    BY DEF Behind
  <2>1. CASE k \in DOMAIN s /\ l \in DOMAIN s
    BY <1>2, <2>1 DEF Behind
  <2>2. CASE k \in DOMAIN s /\ l = Len(s) + 1
    BY <1>4, <2>2
  <2>3. CASE k = Len(s) + 1
    <3>1. t[l] \in Range(s) \/ t[l] = e
      BY <1>3, <1>4
    <3>2. QED
      BY <1>1, <1>2, <1>3, <1>4, <2>3, <3>1
  <2>4. QED
    BY <1>3, <2>1, <2>2, <2>3
<1>8. QED
  BY <1>2, <1>5, <1>6, <1>7

(* The elements of a sequence that is empty, has one element, or loses its  *)
(* head.                                                                    *)
LEMMA EmptyRange == << >> \in Seq(Uri) /\ Range(<< >>) = {}
<1>1. << >> \in Seq(Uri) /\ Len(<< >>) = 0
  BY EmptySeq
<1>2. DOMAIN << >> = {}
  BY <1>1, LenProperties
<1>3. QED
  BY <1>1, <1>2 DEF Range

LEMMA OneRange ==
  ASSUME NEW v \in Uri
  PROVE  <<v>> \in Seq(Uri) /\ Range(<<v>>) = {v}
BY DEF Range

LEMMA HeadTailRange ==
  ASSUME NEW s \in Seq(Uri), s # << >>
  PROVE  /\ Head(s) \in Range(s)
         /\ Tail(s) \in Seq(Uri) /\ Range(Tail(s)) \subseteq Range(s)
<1>1. /\ Len(s) \in Nat /\ Len(s) >= 1 /\ DOMAIN s = 1 .. Len(s)
      /\ Head(s) = s[1] /\ Tail(s) \in Seq(Uri) /\ Len(Tail(s)) = Len(s) - 1
      /\ \A k \in 1 .. Len(Tail(s)) : Tail(s)[k] = s[k + 1]
  BY HeadTailProperties, LenProperties, EmptySeq
<1>2. DOMAIN Tail(s) = 1 .. Len(s) - 1
  BY <1>1, LenProperties
<1>3. \A k \in DOMAIN Tail(s) : k + 1 \in DOMAIN s /\ Tail(s)[k] = s[k + 1]
  BY <1>1, <1>2
<1>4. QED
  BY <1>1, <1>3 DEF Range

(* Who is at the head of a queue has none before it. *)
LEMMA Heads ==
  ASSUME NEW s \in Seq(Nat), NEW e \in Range(s), Head(s) = e
  PROVE  1 \in DOMAIN s /\ s[1] = e /\ \A k \in DOMAIN s : ~(k < 1)
BY LenProperties, HeadTailProperties, EmptySeq DEF Range

-----------------------------------------------------------------------------
(***************************************************************************)
(* The inductive invariant.                                                *)
(***************************************************************************)

Saves(j, u) == tasks[j].kind = "save" /\ tasks[j].uri = u
EditsOf(j, u) == tasks[j].kind \in Edits /\ tasks[j].uri = u
Done(j) == tasks[j].pc = "done"
Envelope == [uri : SUBSET Uri, errors : BOOLEAN]

(* How far the handlers of each kind can be. *)
Stages ==
  /\ queue \in Seq(Nat) /\ outbox \in Seq(Envelope)
  /\ parked \in Seq(Nat) /\ Range(parked) \subseteq DOMAIN tasks
  /\ \A i \in DOMAIN tasks :
       /\ tasks[i].kind \in Edits => tasks[i].pc \in {"apply", "done"}
       /\ tasks[i].kind = "save" => tasks[i].pc \in {"clear", "read", "report", "done"}
       /\ tasks[i].kind \in Requests => tasks[i].pc \in {"read", "probe", "fetch", "show", "done"}
       /\ tasks[i].pc \in {"probe", "fetch"} => tasks[i].todo # <<>>

(* In the queue since it was sent: an edit, or a request that has read      *)
(* nothing yet.                                                             *)
Fresh(i) == At(i, "apply") \/ (At(i, "read") /\ tasks[i].kind \in Requests)

(* What is fresh has everything that came later behind it in the queue, and *)
(* the edits that came later are not applied.                               *)
InTurn ==
  /\ Behind(queue, {i \in DOMAIN tasks : Fresh(i)})
  /\ \A i, j \in DOMAIN tasks :
       Fresh(i) /\ tasks[j].kind \in Edits /\ i < j => ~Done(j)

(* A document has the text of the last edit of it that was applied. *)
Applied ==
  \A u \in Uri :
    /\ documents[u].by # 0 => /\ documents[u].by \in DOMAIN tasks
                              /\ EditsOf(documents[u].by, u) /\ Done(documents[u].by)
                              /\ documents[u].text = tasks[documents[u].by].text
    /\ \A j \in DOMAIN tasks : EditsOf(j, u) /\ Done(j) => j <= documents[u].by

(* The client has the text of the last edit of it that was sent. *)
Sent ==
  \A u \in Uri :
    /\ editor[u].by # 0 => /\ editor[u].by \in DOMAIN tasks /\ EditsOf(editor[u].by, u)
                           /\ editor[u].text = tasks[editor[u].by].text
    /\ \A j \in DOMAIN tasks : EditsOf(j, u) => j <= editor[u].by
    /\ editor[u].by = 0 => documents[u] = editor[u]

(* What is no opening was sent when the document was open. *)
SentOpen ==
  \A i \in DOMAIN tasks : tasks[i].kind # "open" =>
    LET u == tasks[i].uri
        earlier == {j \in 1 .. i - 1 : EditsOf(j, u)}
    IN  /\ earlier = {} /\ documents[u].by = 0 => documents[u].text # Closed
        /\ \A j \in earlier : (\A k \in earlier : k <= j) => tasks[j].text # Closed

(* A request that has read its document: the edits before it are applied,   *)
(* and its imports were in files.                                           *)
PastReading ==
  \A i \in DOMAIN tasks : tasks[i].pc \in {"probe", "fetch"} =>
    /\ \A j \in 1 .. i - 1 : tasks[j].kind \in Edits => Done(j)
    /\ \A u \in Range(tasks[i].todo) : disk[u] # Closed
    /\ tasks[i].pc = "fetch" /\ documents[Head(tasks[i].todo)].text = Closed =>
         documents[Head(tasks[i].todo)].by > i

(* What the client shows for u when it has received everything. *)
Foretold(box, now, u, errors) ==
  \/ (\A k \in DOMAIN box : u \notin box[k].uri) /\ now[u] = errors
  \/ \E k \in DOMAIN box : /\ u \in box[k].uri /\ box[k].errors = errors
                           /\ \A l \in DOMAIN box : l > k => u \notin box[l].uri

(* The last save of a document, if the one before it was over, decides. *)
SavesFollow ==
  \A i \in DOMAIN tasks : tasks[i].kind = "save" /\ tasks[i].alone =>
    LET u == tasks[i].uri
    IN  /\ \A j \in 1 .. i - 1 : Saves(j, u) => Done(j)
        /\ (\A j \in DOMAIN tasks : j > i => ~Saves(j, u)) =>
             Foretold(outbox, shown, u,
                      tasks[i].pc \in {"report", "done"} /\ Errors(tasks[i].text))

IInv == /\ TypeOK /\ Stages /\ InTurn /\ Applied /\ Sent /\ SentOpen
        /\ PastReading /\ SavesFollow /\ CrashCauses

-----------------------------------------------------------------------------
(***************************************************************************)
(* The outbox.                                                             *)
(***************************************************************************)

(* A message decides what will be shown, or leaves it. *)
LEMMA Announced ==
  ASSUME NEW box \in Seq(Envelope), NEW now, NEW m \in Envelope, NEW u, NEW e \in BOOLEAN,
         IF u \in m.uri THEN m.errors = e ELSE Foretold(box, now, u, e)
  PROVE  Foretold(Append(box, m), now, u, e)
<1> DEFINE all == Append(box, m)
<1>1. /\ Len(box) \in Nat /\ DOMAIN box = 1 .. Len(box) /\ DOMAIN all = 1 .. Len(box) + 1
      /\ \A k \in DOMAIN box : all[k] = box[k]
      /\ all[Len(box) + 1] = m
  BY AppendProperties, LenProperties
<1> HIDE DEF all
<1>2. \A k \in DOMAIN all : k \in DOMAIN box \/ k = Len(box) + 1
  BY <1>1
<1>3. \A k \in DOMAIN box : k \in DOMAIN all
  BY <1>1
<1>4. CASE u \in m.uri
  <2>1. Len(box) + 1 \in DOMAIN all /\ \A k \in DOMAIN all : ~(k > Len(box) + 1)
    BY <1>1
  <2>2. QED
    BY <1>1, <1>4, <2>1 DEF Foretold, all
<1>5. CASE u \notin m.uri
  <2>1. Foretold(box, now, u, e)
    BY <1>5
  <2>2. CASE (\A k \in DOMAIN box : u \notin box[k].uri) /\ now[u] = e
    BY <1>1, <1>2, <1>5, <2>2 DEF Foretold, all
  <2>3. ASSUME NEW k \in DOMAIN box, u \in box[k].uri, box[k].errors = e,
               \A l \in DOMAIN box : l > k => u \notin box[l].uri
        PROVE  Foretold(Append(box, m), now, u, e)
    BY <1>1, <1>2, <1>3, <1>5, <2>3 DEF Foretold, all
  <2>4. QED
    BY <2>1, <2>2, <2>3 DEF Foretold
<1>6. QED
  BY <1>4, <1>5

(* What the client has received, it shows. *)
LEMMA Received ==
  ASSUME NEW box \in Seq(Envelope), box # << >>, NEW now, NEW u, NEW e \in BOOLEAN,
         Foretold(box, now, u, e), NEW then,
         then[u] = IF u \in Head(box).uri THEN Head(box).errors ELSE now[u]
  PROVE  Foretold(Tail(box), then, u, e)
<1> DEFINE rest == Tail(box)
<1>1. /\ Len(box) \in Nat /\ Len(box) >= 1 /\ DOMAIN box = 1 .. Len(box)
      /\ Head(box) = box[1] /\ DOMAIN rest = 1 .. Len(box) - 1
      /\ \A k \in 1 .. Len(box) - 1 : rest[k] = box[k + 1]
  BY HeadTailProperties, LenProperties, EmptySeq
<1> HIDE DEF rest
<1>2. \A k \in DOMAIN rest : k + 1 \in DOMAIN box /\ rest[k] = box[k + 1] /\ k + 1 > 1
  BY <1>1
<1>3. CASE (\A k \in DOMAIN box : u \notin box[k].uri) /\ now[u] = e
  <2>1. u \notin Head(box).uri /\ \A k \in DOMAIN rest : u \notin rest[k].uri
    BY <1>1, <1>2, <1>3
  <2>2. QED
    BY <1>3, <2>1 DEF Foretold, rest
<1>4. ASSUME NEW k \in DOMAIN box, u \in box[k].uri, box[k].errors = e,
             \A l \in DOMAIN box : l > k => u \notin box[l].uri
      PROVE  Foretold(Tail(box), then, u, e)
  <2>1. CASE k = 1
    <3>1. \A l \in DOMAIN rest : u \notin rest[l].uri
      BY <1>2, <1>4, <2>1
    <3>2. then[u] = e
      BY <1>1, <1>4, <2>1
    <3>3. QED
      BY <3>1, <3>2 DEF Foretold, rest
  <2>2. CASE k # 1
    <3>1. k - 1 \in DOMAIN rest /\ rest[k - 1] = box[k]
      <4>1. k - 1 \in 1 .. Len(box) - 1 /\ k - 1 + 1 = k
        BY <1>1, <2>2
      <4>2. QED
        BY <1>1, <4>1
    <3>2. \A l \in DOMAIN rest : l > k - 1 => u \notin rest[l].uri
      <4>1. \A l \in DOMAIN rest : l > k - 1 => l + 1 > k
        BY <1>1
      <4>2. QED
        BY <1>2, <1>4, <4>1
    <3>3. QED
      BY <1>4, <3>1, <3>2 DEF Foretold, rest
  <2>3. QED
    BY <2>1, <2>2
<1>5. QED
  BY <1>3, <1>4 DEF Foretold

(* The sender of a message may have to wait. *)
LEMMA Published ==
  ASSUME Stages, NEW i \in Nat, NEW m \in Envelope, Publish(i, m)
  PROVE  /\ outbox' = Append(outbox, m) /\ outbox' \in Seq(Envelope)
         /\ parked' \in Seq(Nat) /\ Range(parked') \subseteq Range(parked) \cup {i}
<1>1. /\ parked' \in Seq(Nat) /\ Range(parked') \subseteq Range(parked) \cup {i}
  <2>1. parked \in Seq(Nat) /\ DOMAIN parked = 1 .. Len(parked) /\ Len(parked) \in Nat
    BY LenProperties DEF Stages
  <2>2. CASE parked' = parked
    BY <2>1, <2>2
  <2>3. CASE parked' = Append(parked, i)
    <3>1. /\ parked' \in Seq(Nat) /\ DOMAIN parked' = 1 .. Len(parked) + 1
          /\ parked'[Len(parked) + 1] = i
          /\ \A k \in 1 .. Len(parked) : parked'[k] = parked[k]
      BY <2>1, <2>3, AppendProperties, LenProperties
    <3>2. \A k \in DOMAIN parked' : k \in DOMAIN parked \/ k = Len(parked) + 1
      BY <2>1, <3>1
    <3>3. QED
      BY <2>1, <3>1, <3>2 DEF Range
  <2>4. QED
    BY <2>2, <2>3 DEF Publish
<1>2. outbox' = Append(outbox, m) /\ outbox' \in Seq(Envelope)
  BY AppendProperties DEF Publish, Stages
<1>3. QED
  BY <1>1, <1>2

-----------------------------------------------------------------------------
(***************************************************************************)
(* A handler goes on: task i becomes t.                                    *)
(***************************************************************************)

Waits == {"apply", "read", "probe", "fetch"}

(* The handler of i goes on, and stays what it is. *)
Becomes(i, t) ==
  /\ tasks' = [tasks EXCEPT ![i] = t]
  /\ t.kind = tasks[i].kind /\ t.uri = tasks[i].uri /\ t.alone = tasks[i].alone
  /\ t.kind \in Edits => t.text = tasks[i].text
  /\ t.pc # "apply" /\ ~(t.pc = "read" /\ t.kind \in Requests)

LEMMA Updated ==
  ASSUME TypeOK, NEW i \in DOMAIN tasks, NEW t \in Task, Becomes(i, t)
  PROVE  /\ Len(tasks) \in Nat /\ DOMAIN tasks = 1 .. Len(tasks)
         /\ tasks' \in Seq(Task) /\ Len(tasks') = Len(tasks) /\ DOMAIN tasks' = DOMAIN tasks
         /\ tasks'[i] = t /\ \A j \in DOMAIN tasks : j # i => tasks'[j] = tasks[j]
         /\ \A j \in DOMAIN tasks : tasks[j] \in Task
         /\ \A j \in DOMAIN tasks : /\ tasks'[j].kind = tasks[j].kind
                                    /\ tasks'[j].uri = tasks[j].uri
                                    /\ tasks'[j].alone = tasks[j].alone
                                    /\ tasks[j].kind \in Edits => tasks'[j].text = tasks[j].text
<1>1. tasks \in Seq(Task) /\ i \in 1 .. Len(tasks)
  BY LenProperties DEF TypeOK
<1>2. /\ tasks' \in Seq(Task) /\ Len(tasks') = Len(tasks) /\ DOMAIN tasks' = 1 .. Len(tasks)
      /\ tasks'[i] = t /\ \A j \in 1 .. Len(tasks) : j # i => tasks'[j] = tasks[j]
  BY <1>1, ElementReplaced DEF Becomes
<1>3. /\ Len(tasks) \in Nat /\ DOMAIN tasks = 1 .. Len(tasks)
      /\ \A j \in DOMAIN tasks : tasks[j] \in Task
  BY <1>1, LenProperties, ElementOfSeq
<1>4. QED
  BY <1>2, <1>3 DEF Becomes

(* The ways in which the queue changes, or not, with it. *)
Moves(i, t) ==
  \/ queue' = queue /\ tasks[i].pc \notin Waits /\ t.pc \notin Waits
  \/ queue' = RemoveFirst(queue, i) /\ t.pc \notin Waits
  \/ queue' = Append(RemoveFirst(queue, i), i) /\ t.pc \in Waits
  \/ queue' = Append(queue, i) /\ tasks[i].pc \notin Waits /\ t.pc \in Waits

LEMMA Moved ==
  ASSUME TypeOK, Stages, InTurn, NEW i \in DOMAIN tasks, NEW t \in Task,
         Becomes(i, t), Moves(i, t)
  PROVE  /\ queue' \in Seq(Nat) /\ IsInjective(queue')
         /\ Range(queue') = {j \in DOMAIN tasks' : tasks'[j].pc \in Waits}
         /\ Behind(queue', {j \in DOMAIN tasks' : Fresh(j)'})
<1> DEFINE F == {j \in DOMAIN tasks' : Fresh(j)'}
           W == {j \in DOMAIN tasks : tasks[j].pc \in Waits}
           W1 == {j \in DOMAIN tasks' : tasks'[j].pc \in Waits}
<1>1. /\ DOMAIN tasks' = DOMAIN tasks /\ tasks'[i] = t
      /\ \A j \in DOMAIN tasks : j # i => tasks'[j] = tasks[j]
      /\ i \in Nat
  BY Updated
<1>2. i \notin F
  BY <1>1 DEF Fresh, At, Becomes
<1>3. Behind(queue, F)
  <2>1. F \subseteq {j \in DOMAIN tasks : Fresh(j)}
    BY <1>1, <1>2 DEF Fresh, At
  <2>2. QED
    BY <2>1 DEF InTurn, Behind
<1>4. /\ queue \in Seq(Nat) /\ IsInjective(queue) /\ Range(queue) = W
  BY DEF TypeOK, Stages, Waits
<1>5. W1 = (W \ {i}) \cup (IF t.pc \in Waits THEN {i} ELSE {})
  BY <1>1
<1> DEFINE left == RemoveFirst(queue, i)
<1> HIDE DEF F
<1>6. /\ left \in Seq(Nat) /\ IsInjective(left) /\ Range(left) = W \ {i}
      /\ Behind(left, F)
  BY <1>3, <1>4, Leaves
<1>7. CASE queue' = queue /\ tasks[i].pc \notin Waits /\ t.pc \notin Waits
  BY <1>3, <1>4, <1>5, <1>7 DEF F
<1>8. CASE queue' = left /\ t.pc \notin Waits
  BY <1>5, <1>6, <1>8 DEF F
<1> HIDE DEF left, W, W1
<1>9. CASE queue' = Append(left, i) /\ t.pc \in Waits
  <2>1. i \notin Range(left)
    BY <1>6
  <2>2. /\ queue' \in Seq(Nat) /\ IsInjective(queue') /\ Range(queue') = (W \ {i}) \cup {i}
        /\ Behind(queue', F)
    BY <1>1, <1>2, <1>6, <1>9, <2>1, Joins
  <2>3. QED
    BY <1>5, <1>9, <2>2 DEF F, W1
<1>10. CASE queue' = Append(queue, i) /\ tasks[i].pc \notin Waits /\ t.pc \in Waits
  <2>1. i \notin Range(queue)
    BY <1>4, <1>10 DEF W
  <2>2. /\ queue' \in Seq(Nat) /\ IsInjective(queue') /\ Range(queue') = W \cup {i}
        /\ Behind(queue', F)
    BY <1>1, <1>2, <1>3, <1>4, <1>10, <2>1, Joins
  <2>3. QED
    BY <1>5, <1>10, <2>2 DEF F, W, W1
<1>11. QED
  BY <1>7, <1>8, <1>9, <1>10 DEF Moves, left

(* What the edits leave behind stays as it is when another handler goes on. *)
LEMMA EditsKept ==
  ASSUME TypeOK, InTurn, Applied, Sent, SentOpen,
         NEW i \in DOMAIN tasks, NEW t \in Task, Becomes(i, t), Moves(i, t),
         tasks[i].kind \notin Edits, Stages,
         documents' = documents, editor' = editor
  PROVE  InTurn' /\ Applied' /\ Sent' /\ SentOpen'
<1>1. /\ DOMAIN tasks' = DOMAIN tasks /\ tasks'[i] = t /\ DOMAIN tasks = 1 .. Len(tasks)
      /\ \A j \in DOMAIN tasks : j # i => tasks'[j] = tasks[j]
      /\ \A j \in DOMAIN tasks : /\ tasks'[j].kind = tasks[j].kind
                                 /\ tasks'[j].uri = tasks[j].uri
                                 /\ tasks[j].kind \in Edits => tasks'[j].text = tasks[j].text
                                 /\ tasks[j].kind \in Edits => (Done(j)' <=> Done(j))
      /\ Len(tasks) \in Nat
  BY Updated DEF Done
<1>2. \A j \in DOMAIN tasks, u \in Uri : EditsOf(j, u)' <=> EditsOf(j, u)
  BY <1>1 DEF EditsOf
<1>3. InTurn'
  <2>1. Behind(queue', {j \in DOMAIN tasks' : Fresh(j)'})
    BY Moved
  <2>2. \A j \in DOMAIN tasks' : Fresh(j)' => j \in DOMAIN tasks /\ Fresh(j)
    BY <1>1 DEF Fresh, At, Becomes
  <2>3. \A j, k \in DOMAIN tasks' : Fresh(j)' /\ tasks'[k].kind \in Edits /\ j < k => ~Done(k)'
    BY <1>1, <2>2 DEF InTurn
  <2>4. QED
    BY <2>1, <2>3 DEF InTurn
<1>4. Applied'
  BY <1>1, <1>2 DEF Applied, EditsOf
<1>5. Sent'
  BY <1>1, <1>2 DEF Sent, EditsOf
<1>6. SentOpen'
  <2> SUFFICES ASSUME NEW k \in DOMAIN tasks, tasks[k].kind # "open", NEW u, u = tasks[k].uri
               PROVE  LET earlier == {j \in 1 .. k - 1 : EditsOf(j, u)'}
                      IN  /\ earlier = {} /\ documents[u].by = 0 => documents[u].text # Closed
                          /\ \A j \in earlier : (\A l \in earlier : l <= j) => tasks'[j].text # Closed
    BY <1>1 DEF SentOpen, EditsOf
  <2>1. u \in Uri
    BY Updated DEF Task
  <2>2. \A j \in 1 .. k - 1 : j \in DOMAIN tasks
    BY <1>1
  <2>3. {j \in 1 .. k - 1 : EditsOf(j, u)'} = {j \in 1 .. k - 1 : EditsOf(j, u)}
    BY <1>2, <2>1, <2>2
  <2>4. \A j \in 1 .. k - 1 : EditsOf(j, u) => tasks'[j].text = tasks[j].text
    BY <1>1, <2>2 DEF EditsOf
  <2>5. QED
    BY <2>3, <2>4 DEF SentOpen
<1>7. QED
  BY <1>3, <1>4, <1>5, <1>6

(* What a save reports and what is left over of it stay as they are when a  *)
(* handler goes on that neither reads nor finishes one.                     *)
LEMMA SavesKept ==
  ASSUME TypeOK, Stages, SavesFollow,
         NEW i \in DOMAIN tasks, NEW t \in Task, Becomes(i, t),
         tasks[i].kind = "save" =>
           /\ t.pc \in {"report", "done"} <=> tasks[i].pc \in {"report", "done"}
           /\ t.text = tasks[i].text,
         tasks[i].pc = "done" => t.pc = "done",
         \/ outbox' = outbox
         \/ outbox' = Append(outbox, Message),
         shown' = shown
  PROVE  SavesFollow'
<1>1. /\ DOMAIN tasks' = DOMAIN tasks /\ tasks'[i] = t /\ DOMAIN tasks = 1 .. Len(tasks)
      /\ \A j \in DOMAIN tasks : j # i => tasks'[j] = tasks[j]
      /\ \A j \in DOMAIN tasks : /\ tasks'[j].kind = tasks[j].kind
                                 /\ tasks'[j].uri = tasks[j].uri
                                 /\ tasks'[j].alone = tasks[j].alone
      /\ Len(tasks) \in Nat
  BY Updated
<1>2. \A j \in DOMAIN tasks : \A u : Saves(j, u)' <=> Saves(j, u)
  BY <1>1 DEF Saves
<1>3. \A j \in DOMAIN tasks : Done(j) => Done(j)'
  BY <1>1 DEF Done
<1>4. ASSUME NEW u, NEW e \in BOOLEAN, Foretold(outbox, shown, u, e)
      PROVE  Foretold(outbox', shown', u, e)
  <2>1. Message \in Envelope /\ Message.uri = {}
    BY DEF Message, Envelope
  <2>2. CASE outbox' = outbox
    BY <1>4, <2>2
  <2>3. CASE outbox' = Append(outbox, Message)
    BY <1>4, <2>1, <2>3, Announced DEF Stages
  <2>4. QED
    BY <2>2, <2>3
<1>5. ASSUME NEW k \in DOMAIN tasks, tasks[k].kind = "save", tasks[k].alone,
             NEW u, u = tasks[k].uri
      PROVE  /\ \A j \in 1 .. k - 1 : Saves(j, u)' => Done(j)'
             /\ (\A j \in DOMAIN tasks : j > k => ~Saves(j, u)') =>
                  Foretold(outbox', shown', u,
                           tasks'[k].pc \in {"report", "done"} /\ Errors(tasks'[k].text))
  <2> DEFINE e == tasks[k].pc \in {"report", "done"} /\ Errors(tasks[k].text)
  <2>1. \A j \in 1 .. k - 1 : j \in DOMAIN tasks
    BY <1>1
  <2>2. e \in BOOLEAN
    OBVIOUS
  <2>3. (tasks'[k].pc \in {"report", "done"} /\ Errors(tasks'[k].text)) = e
    <3>1. CASE k = i
      BY <1>1, <1>5, <3>1
    <3>2. CASE k # i
      BY <1>1, <3>2
    <3>3. QED
      BY <3>1, <3>2
  <2>4. (\A j \in DOMAIN tasks : j > k => ~Saves(j, u)) => Foretold(outbox, shown, u, e)
    BY <1>5 DEF SavesFollow
  <2>5. \A j \in 1 .. k - 1 : Saves(j, u)' => Done(j)'
    BY <1>2, <1>3, <1>5, <2>1 DEF SavesFollow
  <2> HIDE DEF e
  <2>6. (\A j \in DOMAIN tasks : j > k => ~Saves(j, u)') => Foretold(outbox', shown', u, e)
    BY <1>2, <1>4, <2>2, <2>4
  <2>7. QED
    BY <2>3, <2>5, <2>6
<1>6. QED
  BY <1>1, <1>5 DEF SavesFollow, Saves

(* A handler that is no edit goes on, and the texts stay what they are. *)
LEMMA HandlerGoesOn ==
  ASSUME IInv, NEW i \in DOMAIN tasks, NEW t \in Task, Becomes(i, t), Moves(i, t),
         tasks[i].kind \notin Edits, crash = None,
         tasks[i].pc = "done" => t.pc = "done",
         documents' = documents, editor' = editor, disk' = disk, shown' = shown, crash' = crash,
         t.kind = "save" => t.pc \in {"clear", "read", "report", "done"},
         t.kind \in Requests => t.pc \in {"read", "probe", "fetch", "show", "done"},
         t.pc \in {"probe", "fetch"} =>
           /\ t.todo # << >>
           /\ \A j \in 1 .. i - 1 : tasks[j].kind \in Edits => Done(j)
           /\ \A u \in Range(t.todo) : disk[u] # Closed
           /\ t.pc = "fetch" /\ documents[Head(t.todo)].text = Closed =>
                documents[Head(t.todo)].by > i,
         outbox' \in Seq(Envelope), parked' \in Seq(Nat),
         \A j \in Range(parked') : \/ j = i /\ t.pc \notin Waits
                                   \/ j # i /\ j \in Range(parked),
         SavesFollow'
  PROVE  IInv'
<1>1. /\ Len(tasks) \in Nat /\ DOMAIN tasks = 1 .. Len(tasks)
      /\ tasks' \in Seq(Task) /\ Len(tasks') = Len(tasks) /\ DOMAIN tasks' = DOMAIN tasks
      /\ tasks'[i] = t /\ \A j \in DOMAIN tasks : j # i => tasks'[j] = tasks[j]
      /\ \A j \in DOMAIN tasks : /\ tasks'[j].kind = tasks[j].kind
                                 /\ tasks'[j].uri = tasks[j].uri
                                 /\ tasks[j].kind \in Edits => (Done(j)' <=> Done(j))
  BY Updated DEF IInv, Done
<1>2. /\ queue' \in Seq(Nat) /\ IsInjective(queue')
      /\ Range(queue') = {j \in DOMAIN tasks' : tasks'[j].pc \in Waits}
  BY Moved DEF IInv
<1>3. \A j \in Range(parked') : j \in DOMAIN tasks /\ tasks'[j].pc \in {"clear", "report", "show", "done"}
  <2>1. t.pc \notin Waits => t.pc \in {"clear", "report", "show", "done"}
    BY DEF Task, Waits
  <2>2. QED
    BY <1>1, <2>1 DEF IInv, Stages, TypeOK
<1>4. TypeOK'
  BY <1>1, <1>2, <1>3 DEF IInv, TypeOK, Waits
<1>5. Stages'
  <2>1. \A j \in DOMAIN tasks' :
          /\ tasks'[j].kind \in Edits => tasks'[j].pc \in {"apply", "done"}
          /\ tasks'[j].kind = "save" => tasks'[j].pc \in {"clear", "read", "report", "done"}
          /\ tasks'[j].kind \in Requests => tasks'[j].pc \in {"read", "probe", "fetch", "show", "done"}
          /\ tasks'[j].pc \in {"probe", "fetch"} => tasks'[j].todo # << >>
    BY <1>1 DEF IInv, Stages
  <2>2. QED
    BY <1>1, <1>2, <1>3, <2>1 DEF Stages
<1>6. InTurn' /\ Applied' /\ Sent' /\ SentOpen'
  BY EditsKept DEF IInv
<1>7. PastReading'
  <2> SUFFICES ASSUME NEW k \in DOMAIN tasks, tasks'[k].pc \in {"probe", "fetch"}
               PROVE  /\ \A j \in 1 .. k - 1 : tasks'[j].kind \in Edits => Done(j)'
                      /\ \A u \in Range(tasks'[k].todo) : disk[u] # Closed
                      /\ tasks'[k].pc = "fetch" /\ documents[Head(tasks'[k].todo)].text = Closed =>
                           documents[Head(tasks'[k].todo)].by > k
    BY <1>1 DEF PastReading
  <2>1. \A j \in 1 .. k - 1 : j \in DOMAIN tasks
    BY <1>1
  <2>2. CASE k = i
    BY <1>1, <2>1, <2>2
  <2>3. CASE k # i
    BY <1>1, <2>1, <2>3 DEF IInv, PastReading
  <2>4. QED
    BY <2>2, <2>3
<1>8. CrashCauses'
  BY DEF CrashCauses, Running
<1>9. QED
  BY <1>4, <1>5, <1>6, <1>7, <1>8 DEF IInv

-----------------------------------------------------------------------------
(***************************************************************************)
(* What a handler finds when it has the lock.                              *)
(***************************************************************************)

(* A task is what its kind and stage allow. *)
LEMMA TaskFacts ==
  ASSUME TypeOK, NEW i \in DOMAIN tasks
  PROVE  /\ i \in Nat /\ i >= 1 /\ tasks[i] \in Task /\ tasks[i].uri \in Uri
         /\ Len(tasks) \in Nat /\ DOMAIN tasks = 1 .. Len(tasks)
<1>1. /\ Len(tasks) \in Nat /\ DOMAIN tasks = 1 .. Len(tasks) /\ i \in 1 .. Len(tasks)
      /\ tasks[i] \in Task
  BY LenProperties, ElementOfSeq DEF TypeOK
<1>2. QED
  BY <1>1 DEF Task

(* A reader that has the lock finds every edit sent before it applied. *)
LEMMA Unblocked ==
  ASSUME IInv, NEW i \in DOMAIN tasks, Granted(i), ~At(i, "apply")
  PROVE  \A j \in 1 .. i - 1 : tasks[j].kind \in Edits => Done(j)
<1> SUFFICES ASSUME NEW j \in 1 .. i - 1, tasks[j].kind \in Edits, ~Done(j)
             PROVE  FALSE
  OBVIOUS
<1>1. j \in DOMAIN tasks /\ i \in Nat /\ j < i
  BY TaskFacts DEF IInv
<1>2. At(j, "apply")
  BY <1>1 DEF IInv, Stages, Done, At
<1>3. j \in Range(queue)
  BY <1>1, <1>2 DEF IInv, TypeOK, At
<1>4. PICK k \in DOMAIN queue : queue[k] = j
  BY <1>3 DEF Range
<1>5. PICK l \in 1 .. k : queue[l] = i
  BY <1>2, <1>4 DEF Granted
<1>6. l \in DOMAIN queue /\ k \in Nat /\ l \in Nat /\ l <= k
  BY <1>4, <1>5, LenProperties DEF IInv, Stages
<1>7. k < l
  BY <1>1, <1>2, <1>4, <1>5, <1>6 DEF IInv, InTurn, Behind, Fresh
<1>8. QED
  BY <1>6, <1>7

(* Who has waited at the head has nothing fresh before it. *)
LEMMA AtHead ==
  ASSUME IInv, NEW i \in DOMAIN tasks, Granted(i), At(i, "apply")
  PROVE  \A j \in DOMAIN tasks : Fresh(j) => ~(j < i)
<1>1. i \in Range(queue) /\ Head(queue) = i
  BY DEF Granted
<1>2. 1 \in DOMAIN queue /\ queue[1] = i /\ \A k \in DOMAIN queue : ~(k < 1)
  BY <1>1, Heads DEF IInv, Stages
<1>3. ASSUME NEW j \in DOMAIN tasks, Fresh(j), j < i
      PROVE  FALSE
  <2>1. j \in Range(queue)
    BY <1>3 DEF IInv, TypeOK, Fresh, At
  <2>2. PICK k \in DOMAIN queue : queue[k] = j
    BY <2>1 DEF Range
  <2>3. k < 1
    BY <1>2, <1>3, <2>2 DEF IInv, InTurn, Behind
  <2>4. QED
    BY <1>2, <2>3
<1>4. QED
  BY <1>3

(* A document that was open when a message about it was sent, and whose     *)
(* edits until then are applied, can only have been closed since.           *)
LEMMA StillOpen ==
  ASSUME IInv, NEW i \in DOMAIN tasks, tasks[i].kind # "open",
         \A j \in 1 .. i - 1 : tasks[j].kind \in Edits => Done(j),
         tasks[i].kind \in Edits => ~Done(i),
         NEW u, u = tasks[i].uri, documents[u].text = Closed
  PROVE  ClosedSince(i, u)
<1> DEFINE e == documents[u].by
           earlier == {j \in 1 .. i - 1 : EditsOf(j, u)}
<1>1. u \in Uri /\ i \in Nat /\ i >= 1 /\ DOMAIN tasks = 1 .. Len(tasks) /\ Len(tasks) \in Nat
  BY TaskFacts DEF IInv
<1>2. e \in Nat
  BY <1>1, BoundAssumption DEF IInv, TypeOK, Id
<1>3. \A j \in earlier : j \in DOMAIN tasks /\ j <= e
  <2>1. \A j \in earlier : j \in DOMAIN tasks /\ EditsOf(j, u) /\ Done(j)
    BY <1>1 DEF EditsOf
  <2>2. QED
    BY <1>1, <2>1 DEF IInv, Applied
<1>4. e # 0
  <2>1. e = 0 => earlier = {}
    BY <1>2, <1>3
  <2>2. QED
    BY <2>1 DEF IInv, SentOpen
<1>5. e \in DOMAIN tasks /\ EditsOf(e, u) /\ Done(e) /\ documents[u].text = tasks[e].text
  BY <1>1, <1>4 DEF IInv, Applied
<1>6. ~(e < i)
  <2>1. e < i => e \in earlier
    BY <1>1, <1>5
  <2>2. QED
    BY <1>3, <1>5, <2>1 DEF IInv, SentOpen
<1>7. e # i
  BY <1>5 DEF EditsOf
<1>8. QED
  BY <1>1, <1>2, <1>6, <1>7 DEF ClosedSince

(* Nothing that was sent later is applied before what is fresh. *)
LEMMA NothingLater ==
  ASSUME IInv, NEW i \in DOMAIN tasks, Fresh(i), NEW u \in Uri
  PROVE  ~ClosedSince(i, u)
<1>1. documents[u].by \in Nat /\ i \in Nat
  BY TaskFacts, BoundAssumption DEF IInv, TypeOK, Id
<1>2. ASSUME documents[u].by > i
      PROVE  FALSE
  <2>1. documents[u].by # 0
    BY <1>1, <1>2
  <2>2. /\ documents[u].by \in DOMAIN tasks /\ Done(documents[u].by)
        /\ tasks[documents[u].by].kind \in Edits
    BY <2>1 DEF IInv, Applied, EditsOf
  <2>3. QED
    BY <1>1, <1>2, <2>2 DEF IInv, InTurn
<1>3. QED
  BY <1>2 DEF ClosedSince

-----------------------------------------------------------------------------
(***************************************************************************)
(* The steps of the handlers.                                              *)
(***************************************************************************)

(* The end of the server changes nothing else. *)
LEMMA PanicKeeps ==
  ASSUME IInv, NEW i \in DOMAIN tasks, Panic(i), Cause(i)
  PROVE  IInv'
<1>1. /\ crash' = i /\ tasks' = tasks /\ editor' = editor /\ documents' = documents
      /\ disk' = disk /\ queue' = queue /\ outbox' = outbox /\ parked' = parked /\ shown' = shown
  BY DEF Panic
<1>2. TypeOK'
  BY <1>1 DEF IInv, TypeOK
<1>3. Stages' /\ InTurn' /\ Applied' /\ Sent'
  BY <1>1 DEF IInv, Stages, InTurn, Applied, Sent, Fresh, At, Done, EditsOf
<1>4. SentOpen' /\ PastReading' /\ SavesFollow'
  BY <1>1 DEF IInv, SentOpen, PastReading, SavesFollow, Done, EditsOf, Saves
<1>5. CrashCauses'
  <2>1. Cause(i)'
    <3>1. ASSUME NEW t
          PROVE  BadImport(t)' <=> BadImport(t)
      BY <1>1 DEF BadImport, Blamed, Below, Mistaken, ImportsOf
    <3>2. QED
      BY <1>1, <3>1 DEF Cause, ClosedSince, Contents
  <2>2. QED
    BY <1>1, <2>1 DEF CrashCauses
<1>6. QED
  BY <1>2, <1>3, <1>4, <1>5 DEF IInv

(* The client receives a message. *)
LEMMA DeliverKeeps ==
  ASSUME IInv, Deliver
  PROVE  IInv'
<1>1. /\ tasks' = tasks /\ editor' = editor /\ documents' = documents /\ disk' = disk
      /\ queue' = queue /\ crash' = crash /\ outbox # << >> /\ outbox' = Tail(outbox)
      /\ parked' = parked \/ (parked # << >> /\ parked' = Tail(parked))
      /\ shown' = [u \in Uri |-> IF u \in Head(outbox).uri THEN Head(outbox).errors ELSE shown[u]]
  BY DEF Deliver
<1>2. parked' \in Seq(Nat) /\ Range(parked') \subseteq Range(parked)
  <2>1. parked \in Seq(Nat) /\ DOMAIN parked = 1 .. Len(parked) /\ Len(parked) \in Nat
    BY LenProperties DEF IInv, Stages
  <2>2. CASE parked # << >> /\ parked' = Tail(parked)
    <3>1. /\ parked' \in Seq(Nat) /\ Len(parked') = Len(parked) - 1
          /\ \A k \in 1 .. Len(parked') : parked'[k] = parked[k + 1]
      BY <2>1, <2>2, HeadTailProperties
    <3>2. DOMAIN parked' = 1 .. Len(parked) - 1
      BY <3>1, LenProperties
    <3>3. \A k \in DOMAIN parked' : k + 1 \in DOMAIN parked /\ parked'[k] = parked[k + 1]
      BY <2>1, <3>1, <3>2
    <3>4. QED
      BY <3>1, <3>3 DEF Range
  <2>3. QED
    BY <1>1, <2>1, <2>2
<1>3. Head(outbox) \in Envelope /\ outbox' \in Seq(Envelope)
  BY <1>1, HeadTailProperties DEF IInv, Stages
<1>4. TypeOK'
  <2>1. shown' \in [Uri -> BOOLEAN]
    BY <1>1, <1>3 DEF IInv, TypeOK, Envelope
  <2>2. QED
    BY <1>1, <1>2, <2>1 DEF IInv, TypeOK
<1>5. Stages' /\ InTurn' /\ Applied' /\ Sent'
  BY <1>1, <1>2, <1>3 DEF IInv, Stages, InTurn, Applied, Sent, Fresh, At, Done, EditsOf
<1>6. SentOpen' /\ PastReading'
  BY <1>1 DEF IInv, SentOpen, PastReading, Done, EditsOf
<1>7. SavesFollow'
  <2>1. ASSUME NEW u \in Uri, NEW e \in BOOLEAN, Foretold(outbox, shown, u, e)
        PROVE  Foretold(outbox', shown', u, e)
    BY <1>1, <2>1, Received DEF IInv, Stages
  <2>2. ASSUME NEW k \in DOMAIN tasks, tasks[k].kind = "save", tasks[k].alone,
               NEW u, u = tasks[k].uri
        PROVE  /\ \A j \in 1 .. k - 1 : Saves(j, u) => Done(j)
               /\ (\A j \in DOMAIN tasks : j > k => ~Saves(j, u)) =>
                    Foretold(outbox', shown', u,
                             tasks[k].pc \in {"report", "done"} /\ Errors(tasks[k].text))
    <3> DEFINE e == tasks[k].pc \in {"report", "done"} /\ Errors(tasks[k].text)
    <3>1. u \in Uri /\ e \in BOOLEAN
      BY <2>2, TaskFacts DEF IInv
    <3>2. /\ \A j \in 1 .. k - 1 : Saves(j, u) => Done(j)
          /\ (\A j \in DOMAIN tasks : j > k => ~Saves(j, u)) => Foretold(outbox, shown, u, e)
      BY <2>2 DEF IInv, SavesFollow
    <3> HIDE DEF e
    <3>3. QED
      BY <2>1, <3>1, <3>2 DEF e
  <2>3. QED
    BY <1>1, <2>2 DEF SavesFollow, Saves, Done
<1>8. CrashCauses'
  BY <1>1 DEF IInv, CrashCauses, Running, Cause, ClosedSince, Contents,
     BadImport, Blamed, Below, Mistaken, ImportsOf
<1>9. QED
  BY <1>4, <1>5, <1>6, <1>7, <1>8 DEF IInv

(* A task without what a step assigns to it is the task itself. *)
LEMMA SameFields ==
  ASSUME NEW i \in DOMAIN tasks, tasks[i] \in Task, NEW pc, NEW todo
  PROVE  /\ [tasks EXCEPT ![i].pc = pc] =
              [tasks EXCEPT ![i] = [tasks[i] EXCEPT !.pc = pc, !.text = tasks[i].text,
                                                    !.todo = tasks[i].todo]]
         /\ [tasks EXCEPT ![i].pc = pc, ![i].todo = todo] =
              [tasks EXCEPT ![i] = [tasks[i] EXCEPT !.pc = pc, !.text = tasks[i].text,
                                                    !.todo = todo]]
<1>1. /\ [tasks[i] EXCEPT !.pc = pc] =
           [tasks[i] EXCEPT !.pc = pc, !.text = tasks[i].text, !.todo = tasks[i].todo]
      /\ [tasks[i] EXCEPT !.pc = pc, !.todo = todo] =
           [tasks[i] EXCEPT !.pc = pc, !.text = tasks[i].text, !.todo = todo]
  BY DEF Task
<1>2. QED
  BY <1>1

(* A save that has cleared the diagnostics asks for the lock. *)
LEMMA ClearedKeeps ==
  ASSUME IInv, NEW i \in DOMAIN tasks, Cleared(i)
  PROVE  IInv'
<1>1. /\ tasks[i].pc = "clear" /\ crash = None /\ i \notin Range(parked)
      /\ queue' = Append(queue, i) /\ documents' = documents /\ editor' = editor
      /\ disk' = disk /\ outbox' = outbox /\ parked' = parked /\ shown' = shown /\ crash' = crash
      /\ tasks' = [tasks EXCEPT ![i].pc = Wanted(tasks[i].kind)]
  BY DEF Cleared, Resumes, At, Running, Goto
<1>2. tasks[i] \in Task /\ tasks[i].kind = "save"
  BY <1>1, TaskFacts DEF IInv, Stages, Task
<1> DEFINE t == [tasks[i] EXCEPT !.pc = "read", !.text = tasks[i].text, !.todo = tasks[i].todo]
<1>3. Wanted(tasks[i].kind) = "read" /\ tasks' = [tasks EXCEPT ![i] = t]
  BY <1>1, <1>2, SameFields DEF Wanted, Edits
<1>4. tasks[i].text \in Texts \cup {Closed} /\ tasks[i].todo \in Seq(Uri)
  BY <1>2 DEF Task
<1>5. /\ t \in Task /\ t.pc = "read" /\ t.text = tasks[i].text /\ t.kind = "save"
      /\ t.uri = tasks[i].uri /\ t.alone = tasks[i].alone
  BY <1>2, <1>4 DEF Task
<1> HIDE DEF t
<1>6. Becomes(i, t) /\ Moves(i, t)
  BY <1>1, <1>2, <1>3, <1>5 DEF Becomes, Moves, Waits, Requests
<1>7. SavesFollow'
  BY <1>1, <1>5, <1>6, SavesKept DEF IInv
<1>8. QED
  <2>1. tasks[i].kind \notin Edits /\ t.kind \notin Requests
    BY <1>2, <1>5 DEF Edits, Requests
  <2>2. outbox' \in Seq(Envelope) /\ parked' \in Seq(Nat)
    BY <1>1 DEF IInv, Stages
  <2>3. \A j \in Range(parked') : j # i /\ j \in Range(parked)
    BY <1>1
  <2>4. QED
    BY <1>1, <1>5, <1>6, <1>7, <2>1, <2>2, <2>3, HandlerGoesOn

(* A handler ends, after a message or when it is dropped, its work done. *)
LEMMA EndsKeep ==
  ASSUME IInv, NEW i \in DOMAIN tasks, crash = None, tasks[i].kind \notin Edits,
         tasks[i].kind = "save" => tasks[i].pc = "report",
         NEW todo \in Seq(Uri),
         \/ tasks' = [tasks EXCEPT ![i].pc = "done"]
         \/ tasks' = [tasks EXCEPT ![i].pc = "done", ![i].todo = todo],
         \/ queue' = queue /\ tasks[i].pc \notin Waits
         \/ queue' = RemoveFirst(queue, i),
         UNCHANGED <<editor, documents, disk, outbox, parked, shown, crash>>
  PROVE  IInv'
<1>1. tasks[i] \in Task
  BY TaskFacts DEF IInv
<1>2. PICK last \in Seq(Uri) :
        tasks' = [tasks EXCEPT ![i] = [tasks[i] EXCEPT !.pc = "done", !.text = tasks[i].text,
                                                       !.todo = last]]
  <2>1. tasks[i].todo \in Seq(Uri)
    BY <1>1 DEF Task
  <2>2. QED
    BY <1>1, <2>1, SameFields
<1> DEFINE t == [tasks[i] EXCEPT !.pc = "done", !.text = tasks[i].text, !.todo = last]
<1>3. /\ t \in Task /\ t.pc = "done" /\ t.text = tasks[i].text /\ t.kind = tasks[i].kind
      /\ t.uri = tasks[i].uri /\ t.alone = tasks[i].alone
  BY <1>1 DEF Task
<1> HIDE DEF t
<1>4. Becomes(i, t) /\ Moves(i, t)
  BY <1>2, <1>3 DEF Becomes, Moves, Waits, t
<1>5. SavesFollow'
  BY <1>3, <1>4, SavesKept DEF IInv
<1>6. outbox' \in Seq(Envelope) /\ parked' \in Seq(Nat)
  BY DEF IInv, Stages
<1>7. \A j \in Range(parked') : \/ j = i /\ t.pc \notin Waits
                                \/ j # i /\ j \in Range(parked)
  BY <1>3 DEF Waits
<1>8. QED
  BY <1>3, <1>4, <1>5, <1>6, <1>7, HandlerGoesOn DEF Requests

LEMMA ReportedKeeps ==
  ASSUME IInv, NEW i \in DOMAIN tasks, Reported(i)
  PROVE  IInv'
<1>1. /\ tasks[i].pc = "report" /\ crash = None /\ queue' = queue
      /\ tasks' = [tasks EXCEPT ![i].pc = "done"]
      /\ UNCHANGED <<editor, documents, disk, outbox, parked, shown, crash>>
  BY DEF Reported, Resumes, At, Running, Goto
<1>2. tasks[i].kind \notin Edits /\ << >> \in Seq(Uri)
  BY <1>1 DEF IInv, Stages
<1>3. QED
  BY <1>1, <1>2, EndsKeep DEF Waits

LEMMA ShownKeeps ==
  ASSUME IInv, NEW i \in DOMAIN tasks, Shown(i)
  PROVE  IInv'
<1>1. /\ tasks[i].pc = "show" /\ crash = None /\ queue' = queue
      /\ tasks' = [tasks EXCEPT ![i].pc = "done"]
      /\ UNCHANGED <<editor, documents, disk, outbox, parked, shown, crash>>
  BY DEF Shown, Resumes, At, Running, Goto
<1>2. tasks[i].kind \notin Edits /\ tasks[i].kind # "save" /\ << >> \in Seq(Uri)
  BY <1>1 DEF IInv, Stages
<1>3. QED
  BY <1>1, <1>2, EndsKeep DEF Waits

LEMMA CancelKeeps ==
  ASSUME IInv, NEW i \in DOMAIN tasks, Cancel(i)
  PROVE  IInv'
<1>1. /\ tasks[i].kind \in Requests /\ crash = None /\ queue' = RemoveFirst(queue, i)
      /\ tasks' = [tasks EXCEPT ![i].pc = "done", ![i].todo = << >>]
      /\ UNCHANGED <<editor, documents, disk, outbox, parked, shown, crash>>
  BY DEF Cancel, Took, Running
<1>2. tasks[i].kind \notin Edits /\ tasks[i].kind # "save" /\ << >> \in Seq(Uri)
  BY <1>1 DEF Requests, Edits
<1>3. QED
  BY <1>1, <1>2, EndsKeep

(* A request goes on to its next import. *)
LEMMA ContinueKeeps ==
  ASSUME IInv, NEW i \in DOMAIN tasks, crash = None, tasks[i].kind \in Requests,
         tasks[i].pc \in Waits, Granted(i),
         NEW todo \in Seq(Uri), \A u \in Range(todo) : disk[u] # Closed,
         Continue(i, todo),
         UNCHANGED <<editor, documents, disk, outbox, parked, shown, crash>>
  PROVE  IInv'
<1>1. /\ tasks[i] \in Task /\ tasks[i].kind \notin Edits /\ tasks[i].kind # "save"
      /\ tasks[i].text \in Texts \cup {Closed} /\ << >> \in Seq(Uri)
  BY TaskFacts DEF IInv, Requests, Edits, Task
<1>2. CASE todo = << >>
  BY <1>1, <1>2, EndsKeep DEF Continue, Took
<1>3. CASE todo # << >>
  <2> DEFINE t == [tasks[i] EXCEPT !.pc = "probe", !.text = tasks[i].text, !.todo = todo]
  <2>1. /\ tasks' = [tasks EXCEPT ![i] = t]
        /\ queue' = Append(RemoveFirst(queue, i), i)
    BY <1>1, <1>3, SameFields DEF Continue
  <2>2. /\ t \in Task /\ t.pc = "probe" /\ t.todo = todo /\ t.text = tasks[i].text
        /\ t.kind = tasks[i].kind /\ t.uri = tasks[i].uri /\ t.alone = tasks[i].alone
    BY <1>1 DEF Task
  <2> HIDE DEF t
  <2>3. Becomes(i, t) /\ Moves(i, t)
    BY <2>1, <2>2 DEF Becomes, Moves, Waits
  <2>4. tasks[i].pc # "done"
    BY DEF Waits
  <2>5. SavesFollow'
    BY <1>1, <2>2, <2>3, <2>4, SavesKept DEF IInv
  <2>6. outbox' \in Seq(Envelope) /\ parked' \in Seq(Nat)
    BY DEF IInv, Stages
  <2>7. \A j \in Range(parked') : j # i /\ j \in Range(parked)
    BY DEF IInv, TypeOK, Waits
  <2>8. \A j \in 1 .. i - 1 : tasks[j].kind \in Edits => Done(j)
    <3>1. ~At(i, "apply")
      BY <1>1 DEF IInv, Stages, At
    <3>2. QED
      BY <3>1, Unblocked
  <2>9. QED
    BY <1>1, <1>3, <2>2, <2>3, <2>4, <2>5, <2>6, <2>7, <2>8, HandlerGoesOn
<1>4. QED
  BY <1>2, <1>3

(* A save has read its document: what it reports decides what is shown. *)
LEMMA SaveDecides ==
  ASSUME TypeOK, Stages, SavesFollow,
         NEW i \in DOMAIN tasks, NEW t \in Task, Becomes(i, t),
         tasks[i].kind = "save", tasks[i].pc = "read", t.pc \in {"report", "done"},
         NEW u, u = tasks[i].uri,
         IF Errors(t.text) THEN outbox' = Append(outbox, Diagnostics(u, TRUE))
         ELSE outbox' = outbox \/ outbox' = Append(outbox, Message),
         shown' = shown
  PROVE  SavesFollow'
<1>1. /\ DOMAIN tasks' = DOMAIN tasks /\ tasks'[i] = t /\ DOMAIN tasks = 1 .. Len(tasks)
      /\ \A j \in DOMAIN tasks : j # i => tasks'[j] = tasks[j]
      /\ \A j \in DOMAIN tasks : /\ tasks'[j].kind = tasks[j].kind
                                 /\ tasks'[j].uri = tasks[j].uri
                                 /\ tasks'[j].alone = tasks[j].alone
      /\ Len(tasks) \in Nat /\ u \in Uri
  BY Updated, TaskFacts
<1>2. \A j \in DOMAIN tasks : \A v : Saves(j, v)' <=> Saves(j, v)
  BY <1>1 DEF Saves
<1>3. \A j \in DOMAIN tasks : Done(j) => Done(j)'
  BY <1>1 DEF Done
<1>4. outbox \in Seq(Envelope) /\ Message \in Envelope /\ Message.uri = {}
  BY DEF Message, Envelope, Stages
<1> DEFINE m == Diagnostics(u, TRUE)
<1>5. /\ m \in Envelope /\ m.uri = {u} /\ m.errors = TRUE
      /\ Errors(t.text) => outbox' = Append(outbox, m)
      /\ \/ outbox' = outbox
         \/ outbox' = Append(outbox, Message)
         \/ outbox' = Append(outbox, m)
  BY <1>1 DEF Diagnostics, Envelope
<1> HIDE DEF m
<1>6. ASSUME NEW v, v # u, NEW e \in BOOLEAN, Foretold(outbox, shown, v, e)
      PROVE  Foretold(outbox', shown', v, e)
  <2>1. v \notin m.uri /\ v \notin Message.uri
    BY <1>4, <1>5, <1>6
  <2>2. CASE outbox' = outbox
    BY <1>6, <2>2
  <2>3. CASE outbox' = Append(outbox, Message)
    BY <1>4, <1>6, <2>1, <2>3, Announced
  <2>4. CASE outbox' = Append(outbox, m)
    BY <1>4, <1>5, <1>6, <2>1, <2>4, Announced
  <2>5. QED
    BY <1>5, <2>2, <2>3, <2>4
<1>7. ASSUME Foretold(outbox, shown, u, FALSE)
      PROVE  Foretold(outbox', shown', u, Errors(t.text))
  <2>1. CASE Errors(t.text)
    <3>1. Foretold(outbox', shown', u, TRUE)
      <4>1. outbox' = Append(outbox, m) /\ u \in m.uri /\ shown' = shown
        BY <1>5, <2>1
      <4>2. \A e \in BOOLEAN : m.errors = e => Foretold(Append(outbox, m), shown, u, e)
        BY <1>4, <1>5, <4>1, Announced
      <4>3. Foretold(Append(outbox, m), shown, u, TRUE)
        BY <1>5, <4>2
      <4>4. QED
        BY <4>1, <4>3
    <3>2. Errors(t.text) = TRUE
      BY <2>1 DEF Errors
    <3>3. QED
      BY <3>1, <3>2
  <2>2. CASE ~Errors(t.text)
    <3>1. Foretold(outbox', shown', u, FALSE)
      BY <1>4, <1>7, <2>2, Announced
    <3>2. Errors(t.text) = FALSE
      BY <2>2 DEF Errors
    <3>3. QED
      BY <3>1, <3>2
  <2>3. QED
    BY <2>1, <2>2
<1>8. ASSUME NEW k \in DOMAIN tasks, tasks[k].kind = "save", tasks[k].alone,
             NEW v, v = tasks[k].uri
      PROVE  /\ \A j \in 1 .. k - 1 : Saves(j, v)' => Done(j)'
             /\ (\A j \in DOMAIN tasks : j > k => ~Saves(j, v)') =>
                  Foretold(outbox', shown', v,
                           tasks'[k].pc \in {"report", "done"} /\ Errors(tasks'[k].text))
  <2> DEFINE e == tasks[k].pc \in {"report", "done"} /\ Errors(tasks[k].text)
  <2>1. \A j \in 1 .. k - 1 : j \in DOMAIN tasks
    BY <1>1
  <2>2. /\ \A j \in 1 .. k - 1 : Saves(j, v) => Done(j)
        /\ (\A j \in DOMAIN tasks : j > k => ~Saves(j, v)) => Foretold(outbox, shown, v, e)
    BY <1>8 DEF SavesFollow
  <2>3. \A j \in 1 .. k - 1 : Saves(j, v)' => Done(j)'
    BY <1>2, <1>3, <2>1, <2>2
  <2>4. CASE k = i
    <3>1. e = FALSE
      BY <2>4
    <3>2. (tasks'[k].pc \in {"report", "done"} /\ Errors(tasks'[k].text)) = Errors(t.text)
      BY <1>1, <2>4 DEF Errors
    <3>3. v = u
      BY <1>8, <2>4
    <3> HIDE DEF e
    <3>4. (\A j \in DOMAIN tasks : j > k => ~Saves(j, v)') => Foretold(outbox', shown', u, Errors(t.text))
      BY <1>2, <1>7, <2>2, <3>1, <3>3
    <3>5. QED
      BY <2>3, <3>2, <3>3, <3>4
  <2>5. CASE k # i /\ v = u
    <3>1. Saves(i, v) /\ ~Done(i) /\ i \in Nat /\ k \in Nat
      BY <1>1, <2>5 DEF Saves, Done
    <3>2. ~(i < k)
      BY <1>1, <2>2, <3>1
    <3>3. i > k
      BY <2>5, <3>1, <3>2
    <3>4. QED
      BY <1>2, <2>3, <3>1, <3>3
  <2>6. CASE k # i /\ v # u
    <3>1. e \in BOOLEAN /\ tasks'[k] = tasks[k]
      BY <1>1, <2>6
    <3>2. (tasks'[k].pc \in {"report", "done"} /\ Errors(tasks'[k].text)) = e
      BY <3>1
    <3> HIDE DEF e
    <3>3. (\A j \in DOMAIN tasks : j > k => ~Saves(j, v)') => Foretold(outbox', shown', v, e)
      BY <1>2, <1>6, <2>2, <2>6, <3>1
    <3>4. QED
      BY <2>3, <3>2, <3>3
  <2>7. QED
    BY <2>4, <2>5, <2>6
<1>9. QED
  BY <1>1, <1>8 DEF SavesFollow, Saves

(* A save reads its document and reports. *)
LEMMA ReadSaveKeeps ==
  ASSUME IInv, NEW i \in DOMAIN tasks, ReadSave(i)
  PROVE  IInv'
<1> DEFINE u == tasks[i].uri
           text == documents[u].text
<1>1. /\ tasks[i].pc = "read" /\ tasks[i].kind = "save" /\ Granted(i) /\ crash = None
  BY DEF ReadSave, At, Granted, Running
<1>2. /\ tasks[i] \in Task /\ u \in Uri /\ i \in Nat
      /\ tasks[i].kind \notin Edits /\ tasks[i].kind \notin Requests
  BY <1>1, TaskFacts DEF IInv, Edits, Requests
<1>3. text \in Texts \cup {Closed}
  BY <1>2 DEF IInv, TypeOK
<1>4. CASE text \in {Closed} \cup Unplaced \cup FatalToSave /\ Panic(i)
  <2>1. \A j \in 1 .. i - 1 : tasks[j].kind \in Edits => Done(j)
    BY <1>1, Unblocked DEF At
  <2>2. text = Closed => ClosedSince(i, u)
    BY <1>1, <1>2, <2>1, StillOpen
  <2>3. Cause(i)
    BY <1>1, <1>4, <2>2 DEF Cause
  <2>4. QED
    BY <1>4, <2>3, PanicKeeps
<1>5. ASSUME NEW pc \in {"report", "done"},
             tasks' = [tasks EXCEPT ![i].pc = pc, ![i].text = text],
             Took(i), UNCHANGED <<editor, documents, disk, shown, crash>>,
             outbox' \in Seq(Envelope), parked' \in Seq(Nat),
             Range(parked') \subseteq Range(parked) \cup {i},
             IF Errors(text) THEN outbox' = Append(outbox, Diagnostics(u, TRUE))
             ELSE outbox' = outbox \/ outbox' = Append(outbox, Message)
      PROVE  IInv'
  <2> DEFINE t == [tasks[i] EXCEPT !.pc = pc, !.text = text]
  <2>1. tasks' = [tasks EXCEPT ![i] = t]
    BY <1>5
  <2>2. /\ t \in Task /\ t.pc = pc /\ t.text = text
        /\ t.kind = tasks[i].kind /\ t.uri = tasks[i].uri /\ t.alone = tasks[i].alone
    BY <1>2, <1>3 DEF Task
  <2> HIDE DEF t, text
  <2>3. Becomes(i, t) /\ Moves(i, t)
    BY <1>1, <1>2, <1>5, <2>1, <2>2 DEF Becomes, Moves, Waits, Took
  <2>4. SavesFollow'
    BY <1>1, <1>5, <2>2, <2>3, SaveDecides DEF IInv
  <2>5. \A j \in Range(parked') : \/ j = i /\ t.pc \notin Waits
                                  \/ j # i /\ j \in Range(parked)
    BY <1>5, <2>2 DEF Waits
  <2>6. QED
    BY <1>1, <1>2, <1>5, <2>2, <2>3, <2>4, <2>5, HandlerGoesOn
<1>6. CASE /\ tasks' = [tasks EXCEPT ![i].pc = "report", ![i].text = text]
           /\ Publish(i, IF Errors(text) THEN Diagnostics(u, TRUE) ELSE Message)
           /\ Took(i)
           /\ UNCHANGED <<editor, documents, disk, shown, crash>>
  <2> DEFINE m == IF Errors(text) THEN Diagnostics(u, TRUE) ELSE Message
  <2>1. m \in Envelope
    BY <1>2 DEF Diagnostics, Message, Envelope
  <2>2. /\ outbox' = Append(outbox, m) /\ outbox' \in Seq(Envelope)
        /\ parked' \in Seq(Nat) /\ Range(parked') \subseteq Range(parked) \cup {i}
    BY <1>2, <1>6, <2>1, Published DEF IInv
  <2>3. QED
    BY <1>5, <1>6, <2>2
<1>7. CASE /\ ~Errors(text)
           /\ tasks' = [tasks EXCEPT ![i].pc = "done", ![i].text = text]
           /\ Took(i)
           /\ UNCHANGED <<editor, documents, disk, outbox, parked, shown, crash>>
  <2>1. outbox' \in Seq(Envelope) /\ parked' \in Seq(Nat) /\ Range(parked') \subseteq Range(parked) \cup {i}
    BY <1>7 DEF IInv, Stages
  <2>2. QED
    BY <1>5, <1>7, <2>1
<1>8. QED
  BY <1>4, <1>6, <1>7 DEF ReadSave

-----------------------------------------------------------------------------
(***************************************************************************)
(* Files without an index: whom they have below them, and who is to blame. *)
(***************************************************************************)

(* What is below an import of a file is below the file. *)
LEMMA BelowFacts ==
  ASSUME TypeOK, NEW u \in Uri
  PROVE  /\ Below(u) \in SUBSET Uri /\ IsFiniteSet(Below(u))
         /\ \A w \in {u} \cup Below(u) : ImportsOf(w) \subseteq Below(u)
         /\ \A w \in Below(u) : Below(w) \subseteq Below(u)
<1>1. \A w \in Uri : ImportsOf(w) \subseteq Uri
  BY TextAssumption DEF TypeOK, ImportsOf
<1>2. Below(u) \in SUBSET Uri
  BY DEF Below
<1>3. IsFiniteSet(Below(u))
  BY <1>2, TextAssumption, FS_Subset
<1>4. ASSUME NEW w \in {u} \cup Below(u), NEW x \in ImportsOf(w)
      PROVE  x \in Below(u)
  <2>1. x \in Uri
    BY <1>1, <1>2, <1>4
  <2>2. ASSUME NEW S \in SUBSET Uri, \A y \in S \cup {u} : ImportsOf(y) \subseteq S
        PROVE  x \in S
    <3>1. w \in S \cup {u}
      BY <1>4, <2>2 DEF Below
    <3>2. QED
      BY <1>4, <2>2, <3>1
  <2>3. QED
    BY <2>1, <2>2 DEF Below
<1>5. ASSUME NEW w \in Below(u)
      PROVE  Below(w) \subseteq Below(u)
  <2>1. \A y \in Below(u) \cup {w} : ImportsOf(y) \subseteq Below(u)
    BY <1>4, <1>5
  <2>2. \A x \in Below(w) : \A S \in SUBSET Uri :
          (\A y \in S \cup {w} : ImportsOf(y) \subseteq S) => x \in S
    BY DEF Below
  <2>3. QED
    BY <1>2, <2>1, <2>2
<1>6. QED
  BY <1>2, <1>3, <1>4, <1>5

(* A file without a mistake of its own has an index, or imports one that    *)
(* has none.                                                                *)
LEMMA BlameOthers ==
  ASSUME NEW u \in Uri, ~Mistaken(u), NEW S, ~Sound(disk[u], S)
  PROVE  \E w \in ImportsOf(u) : w \notin S
<1>1. /\ disk[u] \notin {Closed} \cup Broken \cup Mistyped \cup FatalToIndex
      /\ \A w \in ImportsOf(u) : disk[w] \notin Bare
  BY DEF Mistaken
<1>2. ImportsOf(u) = Imports[disk[u]]
  BY <1>1 DEF ImportsOf
<1>3. QED
  BY <1>1, <1>2 DEF Sound

(* A file that has no index, has a mistake or a cycle at or below it. *)
LEMMA Unindexed ==
  ASSUME TypeOK, NEW v \in Uri, v \notin Indexed
  PROVE  Blamed(v)
<1> SUFFICES ASSUME ~Blamed(v)
             PROVE  FALSE
  OBVIOUS
<1>1. PICK S \in SUBSET Uri : (\A u \in Uri : Sound(disk[u], S) => u \in S) /\ v \notin S
  BY DEF Indexed
<1> DEFINE T == ({v} \cup Below(v)) \ S
           Sizes == {Cardinality(Below(u)) : u \in T}
<1>2. T \subseteq Uri /\ v \in T
  BY <1>1, BelowFacts
<1>3. \A u \in T : ~Mistaken(u) /\ u \notin Below(u)
  BY DEF Blamed
<1>4. ASSUME NEW u \in T
      PROVE  \E w \in T : w \in Below(u)
  <2>1. u \in Uri /\ ~Mistaken(u) /\ ~Sound(disk[u], S)
    BY <1>1, <1>2, <1>3, <1>4
  <2>2. PICK w \in ImportsOf(u) : w \notin S
    BY <2>1, BlameOthers
  <2>3. w \in Below(u)
    BY <2>1, <2>2, BelowFacts
  <2>4. w \in Below(v)
    BY <1>4, <2>2, BelowFacts
  <2>5. QED
    BY <2>2, <2>3, <2>4
<1>5. \A u \in T : IsFiniteSet(Below(u)) /\ Cardinality(Below(u)) \in Nat
  BY <1>2, BelowFacts, FS_CardinalityType
<1>6. Sizes \subseteq Nat /\ Sizes # {}
  BY <1>2, <1>5
<1>7. PICK m \in Sizes : \A n \in Sizes : m <= n
  BY <1>6, LeastNatural
<1>8. PICK u \in T : m = Cardinality(Below(u))
  BY <1>7
<1>9. PICK w \in T : w \in Below(u)
  BY <1>4, <1>8
<1>10. Below(w) \subseteq Below(u) /\ w \notin Below(w)
  BY <1>2, <1>3, <1>9, BelowFacts
<1>11. /\ Cardinality(Below(w)) <= Cardinality(Below(u))
       /\ Cardinality(Below(u)) = Cardinality(Below(w)) => Below(u) = Below(w)
  BY <1>5, <1>10, FS_Subset
<1>12. Cardinality(Below(u)) <= Cardinality(Below(w))
  BY <1>7, <1>8, <1>9
<1>13. Cardinality(Below(u)) \in Nat /\ Cardinality(Below(w)) \in Nat
  BY <1>5
<1>14. Cardinality(Below(u)) = Cardinality(Below(w))
  BY <1>11, <1>12, <1>13
<1>15. QED
  BY <1>9, <1>10, <1>11, <1>14

(* What has an index is on the disk. *)
LEMMA IndexedOnDisk == \A v \in Indexed : v \in Uri /\ disk[v] # Closed
<1> SUFFICES ASSUME NEW v \in Indexed
             PROVE  v \in Uri /\ disk[v] # Closed
  OBVIOUS
<1> DEFINE S == {u \in Uri : disk[u] # Closed}
<1>1. S \in SUBSET Uri /\ \A u \in Uri : Sound(disk[u], S) => u \in S
  BY DEF Sound
<1> HIDE DEF S
<1>2. v \in S
  BY <1>1 DEF Indexed
<1>3. QED
  BY <1>2 DEF S

(* The analysis of a text ends the server because of the text, or because   *)
(* of a file that it imports.                                               *)
LEMMA CrashBlamed ==
  ASSUME TypeOK, NEW text \in Texts, Crashes(text, Indexed)
  PROVE  text \in FatalToIndex \/ BadImport(text)
<1>1. CASE text \in FatalToIndex
  BY <1>1
<1>2. ASSUME NEW v \in Imports[text], disk[v] # Closed, v \notin Indexed
      PROVE  BadImport(text)
  <2>1. v \in Uri
    BY TextAssumption
  <2>2. Blamed(v)
    BY <1>2, <2>1, Unindexed
  <2>3. QED
    BY <1>2, <2>2 DEF BadImport
<1>3. QED
  BY <1>1, <1>2 DEF Crashes

-----------------------------------------------------------------------------
(* A request reads its document. *)
LEMMA ReadRequestKeeps ==
  ASSUME IInv, NEW i \in DOMAIN tasks, ReadRequest(i)
  PROVE  IInv'
<1> DEFINE u == tasks[i].uri
           text == Contents(u)
<1>1. /\ tasks[i].pc = "read" /\ tasks[i].kind \in Requests /\ Granted(i) /\ crash = None
  BY DEF ReadRequest, At, Granted, Running
<1>2. /\ tasks[i] \in Task /\ u \in Uri /\ i \in Nat
      /\ tasks[i].kind \notin Edits /\ tasks[i].kind # "save"
  BY <1>1, TaskFacts DEF IInv, Edits, Requests
<1>3. text \in Texts \cup {Closed}
  BY <1>2 DEF IInv, TypeOK, Contents
<1>4. text # Closed
  <2> SUFFICES ASSUME text = Closed
               PROVE  FALSE
    OBVIOUS
  <2>1. documents[u].text = Closed
    BY DEF Contents
  <2>2. \A j \in 1 .. i - 1 : tasks[j].kind \in Edits => Done(j)
    BY <1>1, Unblocked DEF At
  <2>3. ClosedSince(i, u)
    BY <1>1, <1>2, <2>1, <2>2, StillOpen DEF Requests
  <2>4. Fresh(i)
    BY <1>1 DEF Fresh, At
  <2>5. QED
    BY <1>2, <2>3, <2>4, NothingLater
<1>5. Uses[text] \in Seq(Uri) /\ << >> \in Seq(Uri) /\ Range(<< >>) = {}
  BY <1>3, <1>4, TextAssumption, EmptyRange
<1>6. CASE /\ \/ u \in Core \/ text = Closed
              \/ Crashes(text, Indexed)
           /\ Panic(i)
  <2>1. Crashes(text, Indexed) => text \in FatalToIndex \/ BadImport(text)
    BY <1>3, <1>4, CrashBlamed DEF IInv
  <2>2. Cause(i)
    BY <1>1, <1>2, <1>4, <1>6, <2>1 DEF Cause
  <2>3. QED
    BY <1>6, <2>2, PanicKeeps
<1>7. CASE /\ Continue(i, << >>)
           /\ UNCHANGED <<editor, documents, disk, outbox, parked, shown, crash>>
  BY <1>1, <1>5, <1>7, ContinueKeeps DEF Waits
<1>8. ASSUME Sound(text, Indexed), NEW todo \in Pointed(tasks[i].kind, text)
      PROVE  todo \in Seq(Uri) /\ \A v \in Range(todo) : disk[v] # Closed
  <2>1. \A v \in Range(Uses[text]) : disk[v] # Closed
    <3>1. \A v \in Indexed : v \in Uri /\ disk[v] # Closed
      BY IndexedOnDisk
    <3>2. Range(Uses[text]) \subseteq Imports[text]
      BY <1>3, <1>4, TextAssumption
    <3>3. QED
      BY <1>8, <3>1, <3>2 DEF Sound
  <2>2. todo \in Seq(Uri) /\ Range(todo) \subseteq Range(Uses[text])
    <3>1. CASE todo = Uses[text] \/ todo = << >>
      BY <1>5, <3>1
    <3>2. ASSUME NEW v \in Range(Uses[text]), todo = <<v>>
          PROVE  todo \in Seq(Uri) /\ Range(todo) \subseteq Range(Uses[text])
      <4>1. v \in Uri
        BY <1>5, ElementOfSeq, LenProperties DEF Range
      <4>2. todo \in Seq(Uri) /\ Range(todo) = {v}
        BY <3>2, <4>1, OneRange
      <4>3. QED
        BY <4>2
    <3>3. QED
      BY <1>8, <3>1, <3>2 DEF Pointed
  <2>3. QED
    BY <2>1, <2>2
<1>9. CASE /\ Sound(text, Indexed)
           /\ \E todo \in Pointed(tasks[i].kind, text) :
                /\ ~(todo = << >> /\ tasks[i].kind = "completion")
                /\ Continue(i, todo)
           /\ UNCHANGED <<editor, documents, disk, outbox, parked, shown, crash>>
  BY <1>1, <1>8, <1>9, ContinueKeeps DEF Waits
<1>10. CASE /\ Goto(i, "show") /\ Publish(i, Message) /\ Took(i)
            /\ UNCHANGED <<editor, documents, disk, shown, crash>>
  <2> DEFINE t == [tasks[i] EXCEPT !.pc = "show"]
  <2>1. tasks' = [tasks EXCEPT ![i] = t]
    BY <1>10 DEF Goto
  <2>2. /\ t \in Task /\ t.pc = "show" /\ t.text = tasks[i].text
        /\ t.kind = tasks[i].kind /\ t.uri = tasks[i].uri /\ t.alone = tasks[i].alone
    BY <1>2 DEF Task
  <2> HIDE DEF t
  <2>3. Becomes(i, t) /\ Moves(i, t)
    BY <1>1, <1>2, <1>10, <2>1, <2>2 DEF Becomes, Moves, Waits, Took
  <2>4. Message \in Envelope
    BY DEF Message, Envelope
  <2>5. /\ outbox' = Append(outbox, Message) /\ outbox' \in Seq(Envelope)
        /\ parked' \in Seq(Nat) /\ Range(parked') \subseteq Range(parked) \cup {i}
    BY <1>2, <1>10, <2>4, Published DEF IInv
  <2>6. SavesFollow'
    BY <1>1, <1>2, <1>10, <2>2, <2>3, <2>5, SavesKept DEF IInv
  <2>7. \A j \in Range(parked') : \/ j = i /\ t.pc \notin Waits
                                  \/ j # i /\ j \in Range(parked)
    BY <2>2, <2>5 DEF Waits
  <2>8. QED
    BY <1>1, <1>2, <1>10, <2>2, <2>3, <2>5, <2>6, <2>7, HandlerGoesOn
<1>11. QED
  BY <1>6, <1>7, <1>9, <1>10 DEF ReadRequest

(* The next import is found, or it is not. *)
LEMMA ResolvedKeeps ==
  ASSUME IInv, NEW i \in DOMAIN tasks, crash = None, Granted(i),
         tasks[i].pc \in {"probe", "fetch"},
         NEW text, text = Contents(Head(tasks[i].todo)), Resolved(i, text)
  PROVE  IInv'
<1>1. /\ tasks[i] \in Task /\ tasks[i].kind \in Requests /\ tasks[i].kind # "save"
      /\ tasks[i].pc # "read" /\ tasks[i].todo \in Seq(Uri) /\ tasks[i].todo # << >>
  BY TaskFacts DEF IInv, Stages, Task, Edits, Requests
<1> DEFINE rest == Tail(tasks[i].todo)
<1>2. /\ Head(tasks[i].todo) \in Range(tasks[i].todo) /\ << >> \in Seq(Uri) /\ Range(<< >>) = {}
      /\ rest \in Seq(Uri) /\ Range(rest) \subseteq Range(tasks[i].todo)
  BY <1>1, HeadTailRange, EmptyRange
<1>3. \A u \in Range(tasks[i].todo) : disk[u] # Closed
  BY DEF IInv, PastReading
<1>4. text # Closed
  BY <1>2, <1>3 DEF Contents
<1>5. CASE /\ Panic(i)
           /\ \/ Crashes(text, Indexed)
              \/ (Fails(text, Indexed) \/ text \in Bare) /\ Insists(tasks[i].kind)
  <2>1. text \in Texts
    <3>1. Head(tasks[i].todo) \in Uri
      BY <1>1, HeadTailProperties
    <3>2. QED
      BY <1>4, <3>1 DEF IInv, TypeOK, Contents
  <2>2. Crashes(text, Indexed) => text \in FatalToIndex \/ BadImport(text)
    BY <2>1, CrashBlamed DEF IInv
  <2>3. Fails(text, Indexed) \/ text \in Bare =>
          \/ text \in Broken \cup Mistyped \cup Bare
          \/ \E v \in Imports[text] : disk[v] \in {Closed} \cup Bare
    BY <1>4 DEF Fails
  <2>4. Insists(tasks[i].kind) => tasks[i].kind \in {"tokens", "completion"}
    BY DEF Insists
  <2>5. Cause(i)
    BY <1>1, <1>5, <2>2, <2>3, <2>4 DEF Cause
  <2>6. QED
    BY <1>5, <2>5, PanicKeeps
<1>6. ASSUME NEW todo \in {rest, << >>}, Continue(i, todo),
             UNCHANGED <<editor, documents, disk, outbox, parked, shown, crash>>
      PROVE  IInv'
  <2>1. todo \in Seq(Uri) /\ \A u \in Range(todo) : disk[u] # Closed
    BY <1>2, <1>3
  <2>2. QED
    BY <1>1, <1>6, <2>1, ContinueKeeps DEF Waits
<1>7. QED
  BY <1>5, <1>6 DEF Resolved

(* The import is looked up among the documents. *)
LEMMA ProbeKeeps ==
  ASSUME IInv, NEW i \in DOMAIN tasks, Probe(i)
  PROVE  IInv'
<1> DEFINE u == Head(tasks[i].todo)
<1>1. tasks[i].pc = "probe" /\ Granted(i) /\ crash = None
  BY DEF Probe, At, Granted, Running
<1>2. CASE documents[u].text = Closed /\ Resolved(i, disk[u])
  BY <1>1, <1>2, ResolvedKeeps DEF Contents
<1>3. CASE /\ documents[u].text # Closed
           /\ Goto(i, "fetch") /\ queue' = Append(RemoveFirst(queue, i), i)
           /\ UNCHANGED <<editor, documents, disk, outbox, parked, shown, crash>>
  <2>1. /\ tasks[i] \in Task /\ tasks[i].kind \notin Edits /\ tasks[i].kind # "save"
    BY <1>1, TaskFacts DEF IInv, Stages
  <2> DEFINE t == [tasks[i] EXCEPT !.pc = "fetch"]
  <2>2. tasks' = [tasks EXCEPT ![i] = t]
    BY <1>3 DEF Goto
  <2>3. /\ t \in Task /\ t.pc = "fetch" /\ t.text = tasks[i].text /\ t.todo = tasks[i].todo
        /\ t.kind = tasks[i].kind /\ t.uri = tasks[i].uri /\ t.alone = tasks[i].alone
    BY <2>1 DEF Task
  <2> HIDE DEF t
  <2>4. Becomes(i, t) /\ Moves(i, t)
    BY <1>3, <2>1, <2>2, <2>3 DEF Becomes, Moves, Waits
  <2>5. SavesFollow'
    BY <1>1, <1>3, <2>1, <2>3, <2>4, SavesKept DEF IInv
  <2>6. outbox' \in Seq(Envelope) /\ parked' \in Seq(Nat)
    BY <1>3 DEF IInv, Stages
  <2>7. \A j \in Range(parked') : j # i /\ j \in Range(parked)
    BY <1>1, <1>3 DEF IInv, TypeOK
  <2>8. /\ t.todo # << >>
        /\ \A j \in 1 .. i - 1 : tasks[j].kind \in Edits => Done(j)
        /\ \A v \in Range(t.todo) : disk[v] # Closed
        /\ documents[Head(t.todo)].text # Closed
    BY <1>1, <1>3, <2>3 DEF IInv, Stages, PastReading
  <2>9. QED
    BY <1>1, <1>3, <2>1, <2>3, <2>4, <2>5, <2>6, <2>7, <2>8, HandlerGoesOn
<1>4. QED
  BY <1>2, <1>3 DEF Probe

(* The text of the import is fetched. *)
LEMMA FetchKeeps ==
  ASSUME IInv, NEW i \in DOMAIN tasks, Fetch(i)
  PROVE  IInv'
<1> DEFINE u == Head(tasks[i].todo)
<1>1. tasks[i].pc = "fetch" /\ Granted(i) /\ crash = None
  BY DEF Fetch, At, Granted, Running
<1>2. CASE /\ documents[u].text = Closed /\ (u \in Core \/ disk[u] = Closed)
           /\ Panic(i)
  <2>1. /\ tasks[i].kind # "save" /\ tasks[i].todo \in Seq(Uri) /\ tasks[i].todo # << >>
    BY <1>1, TaskFacts DEF IInv, Stages, Task
  <2>2. u \in Range(tasks[i].todo)
    BY <2>1, HeadTailRange
  <2>3. disk[u] # Closed /\ ClosedSince(i, u)
    BY <1>1, <1>2, <2>2 DEF IInv, PastReading, ClosedSince
  <2>4. Cause(i)
    BY <1>1, <1>2, <2>1, <2>3 DEF Cause
  <2>5. QED
    BY <1>2, <2>4, PanicKeeps
<1>3. CASE Resolved(i, Contents(u))
  BY <1>1, <1>3, ResolvedKeeps
<1>4. QED
  BY <1>2, <1>3 DEF Fetch

(* An edit is applied: the last of its document, and not of a closed one    *)
(* that it would change.                                                    *)
LEMMA ApplyKeeps ==
  ASSUME IInv, NEW i \in DOMAIN tasks, Apply(i)
  PROVE  IInv'
<1> DEFINE t == [tasks[i] EXCEPT !.pc = "done"]
<1>1. /\ tasks[i].pc = "apply" /\ Granted(i) /\ crash = None /\ At(i, "apply") /\ Fresh(i)
      /\ tasks' = [tasks EXCEPT ![i] = t] /\ queue' = RemoveFirst(queue, i)
      /\ UNCHANGED <<editor, disk, outbox, parked, shown, crash>>
  BY DEF Apply, At, Granted, Running, Goto, Took, Fresh
<1>2. /\ tasks[i] \in Task /\ tasks[i].kind \in Edits /\ tasks[i].uri \in Uri
      /\ i \in Nat /\ i >= 1 /\ DOMAIN tasks = 1 .. Len(tasks) /\ Len(tasks) \in Nat
  BY <1>1, TaskFacts DEF IInv, Stages, Task, Edits, Requests
<1>3. PICK u \in Uri : u = tasks[i].uri
  BY <1>2
<1>4. /\ t \in Task /\ t.pc = "done" /\ t.text = tasks[i].text
      /\ t.kind = tasks[i].kind /\ t.uri = tasks[i].uri /\ t.alone = tasks[i].alone
  BY <1>2 DEF Task
<1> HIDE DEF t
<1>5. Becomes(i, t) /\ Moves(i, t)
  BY <1>1, <1>4 DEF Becomes, Moves, Waits
<1>6. /\ tasks' \in Seq(Task) /\ Len(tasks') = Len(tasks) /\ DOMAIN tasks' = DOMAIN tasks
      /\ tasks'[i] = t /\ \A j \in DOMAIN tasks : j # i => tasks'[j] = tasks[j]
      /\ \A j \in DOMAIN tasks : /\ tasks'[j].kind = tasks[j].kind
                                 /\ tasks'[j].uri = tasks[j].uri
                                 /\ tasks[j].kind \in Edits => tasks'[j].text = tasks[j].text
                                 /\ Done(j)' <=> Done(j) \/ j = i
  BY <1>1, <1>4, <1>5, Updated DEF IInv, Done
<1>7. /\ queue' \in Seq(Nat) /\ IsInjective(queue')
      /\ Range(queue') = {j \in DOMAIN tasks' : tasks'[j].pc \in Waits}
      /\ Behind(queue', {j \in DOMAIN tasks' : Fresh(j)'})
  BY <1>4, <1>5, Moved DEF IInv
<1>8. \A j \in DOMAIN tasks : Fresh(j) => ~(j < i)
  BY <1>1, AtHead
<1>9. \A j \in 1 .. i - 1 : tasks[j].kind \in Edits => Done(j)
  <2>1. \A j \in 1 .. i - 1 : j \in DOMAIN tasks /\ j < i
    BY <1>2
  <2>2. QED
    BY <1>8, <2>1 DEF IInv, Stages, Done, Fresh, At
<1>10. ~ClosedSince(i, u) /\ ~(documents[u].by > i) /\ documents[u].by \in Nat
  <2>1. documents[u].by \in Nat
    BY BoundAssumption DEF IInv, TypeOK, Id
  <2>2. documents[u].by > i => documents[u].by \in DOMAIN tasks /\ Done(documents[u].by)
                                /\ tasks[documents[u].by].kind \in Edits
    BY <1>2, <2>1 DEF IInv, Applied, EditsOf
  <2>3. ~(documents[u].by > i)
    BY <1>1, <1>2, <2>1, <2>2 DEF IInv, InTurn
  <2>4. QED
    BY <2>1, <2>3 DEF ClosedSince
<1>11. documents' = [documents EXCEPT ![u] = [text |-> tasks[i].text, by |-> i]]
  <2>1. ~Done(i)
    BY <1>1 DEF Done
  <2>2. ~(tasks[i].kind = "change" /\ documents[u].text = Closed)
    BY <1>3, <1>9, <1>10, <2>1, StillOpen
  <2>3. QED
    BY <1>3, <2>2 DEF Apply
<1>12. /\ documents' \in [Uri -> [text : Texts \cup {Closed}, by : Id]]
       /\ documents'[u].text = tasks[i].text /\ documents'[u].by = i
       /\ \A v \in Uri : v # u => documents'[v] = documents[v]
  <2>1. i \in Id /\ tasks[i].text \in Texts \cup {Closed}
    BY <1>2, BoundAssumption DEF IInv, TypeOK, Id, Task
  <2>2. QED
    BY <1>11, <2>1 DEF IInv, TypeOK
<1>13. TypeOK'
  <2>1. \A j \in Range(parked') : tasks'[j].pc \in {"clear", "report", "show", "done"}
    BY <1>1, <1>4, <1>6 DEF IInv, TypeOK, Stages
  <2>2. QED
    BY <1>1, <1>6, <1>7, <1>12, <2>1 DEF IInv, TypeOK, Waits
<1>14. Stages'
  <2>1. \A j \in DOMAIN tasks' :
          /\ tasks'[j].kind \in Edits => tasks'[j].pc \in {"apply", "done"}
          /\ tasks'[j].kind = "save" => tasks'[j].pc \in {"clear", "read", "report", "done"}
          /\ tasks'[j].kind \in Requests => tasks'[j].pc \in {"read", "probe", "fetch", "show", "done"}
          /\ tasks'[j].pc \in {"probe", "fetch"} => tasks'[j].todo # << >>
    BY <1>4, <1>6 DEF IInv, Stages
  <2>2. QED
    BY <1>1, <1>6, <1>7, <2>1 DEF IInv, Stages
<1>15. InTurn'
  <2>1. \A j \in DOMAIN tasks' : Fresh(j)' => j \in DOMAIN tasks /\ Fresh(j)
    BY <1>4, <1>6 DEF Fresh, At
  <2>2. \A j, k \in DOMAIN tasks' : Fresh(j)' /\ tasks'[k].kind \in Edits /\ j < k => ~Done(k)'
    BY <1>6, <1>8, <2>1 DEF IInv, InTurn
  <2>3. QED
    BY <1>7, <2>2 DEF InTurn
<1>16. \A j \in DOMAIN tasks, v \in Uri : EditsOf(j, v)' <=> EditsOf(j, v)
  BY <1>6 DEF EditsOf
<1>17. EditsOf(i, u) /\ EditsOf(i, u)' /\ Done(i)' /\ tasks'[i].text = tasks[i].text
  BY <1>2, <1>3, <1>4, <1>6 DEF EditsOf
<1>18. Applied'
  <2> SUFFICES ASSUME NEW v \in Uri, NEW e, e = documents'[v].by
               PROVE  /\ e # 0 => /\ e \in DOMAIN tasks /\ EditsOf(e, v)' /\ Done(e)'
                                  /\ documents'[v].text = tasks'[e].text
                      /\ \A j \in DOMAIN tasks : EditsOf(j, v)' /\ Done(j)' => j <= e
    BY <1>6 DEF Applied, EditsOf, Done
  <2>1. CASE v = u
    <3>1. \A j \in DOMAIN tasks : EditsOf(j, u) /\ Done(j) => j <= documents[u].by
      BY DEF IInv, Applied
    <3>2. \A j \in DOMAIN tasks : EditsOf(j, u)' /\ Done(j)' => j <= i
      BY <1>2, <1>6, <1>10, <1>16, <3>1
    <3>3. e = i
      BY <1>12, <2>1
    <3>4. QED
      BY <1>12, <1>17, <2>1, <3>2, <3>3
  <2>2. CASE v # u
    <3>1. \A j \in DOMAIN tasks : EditsOf(j, v) => j # i
      BY <1>3, <2>2 DEF EditsOf
    <3>2. documents'[v] = documents[v] /\ e = documents[v].by
      BY <1>12, <2>2
    <3>3. \A j \in DOMAIN tasks : EditsOf(j, v)' /\ Done(j)' => j <= e
      BY <1>6, <1>16, <3>1, <3>2 DEF IInv, Applied
    <3>4. e # 0 => /\ e \in DOMAIN tasks /\ EditsOf(e, v) /\ Done(e)
                   /\ documents[v].text = tasks[e].text
      BY <3>2 DEF IInv, Applied
    <3>5. e # 0 => /\ EditsOf(e, v)' /\ Done(e)' /\ documents[v].text = tasks'[e].text
      BY <1>6, <1>16, <3>1, <3>4 DEF EditsOf
    <3>6. QED
      BY <3>2, <3>3, <3>4, <3>5
  <2>3. QED
    BY <2>1, <2>2
<1>19. Sent'
  <2>1. editor[u].by # 0
    <3>1. editor[u].by \in Nat /\ i <= editor[u].by
      BY <1>17, BoundAssumption DEF IInv, Sent, TypeOK, Id
    <3>2. QED
      BY <1>2, <3>1
  <2>2. QED
    BY <1>1, <1>6, <1>12, <1>16, <2>1 DEF IInv, Sent, EditsOf
<1>20. SentOpen'
  <2> SUFFICES ASSUME NEW k \in DOMAIN tasks, tasks[k].kind # "open", NEW v, v = tasks[k].uri
               PROVE  LET earlier == {j \in 1 .. k - 1 : EditsOf(j, v)'}
                      IN  /\ earlier = {} /\ documents'[v].by = 0 => documents'[v].text # Closed
                          /\ \A j \in earlier : (\A l \in earlier : l <= j) => tasks'[j].text # Closed
    BY <1>6 DEF SentOpen, EditsOf
  <2>1. v \in Uri /\ \A j \in 1 .. k - 1 : j \in DOMAIN tasks
    BY <1>2, TaskFacts DEF IInv
  <2>2. {j \in 1 .. k - 1 : EditsOf(j, v)'} = {j \in 1 .. k - 1 : EditsOf(j, v)}
    BY <1>16, <2>1
  <2>3. \A j \in 1 .. k - 1 : EditsOf(j, v) => tasks'[j].text = tasks[j].text
    BY <1>6, <2>1 DEF EditsOf
  <2>4. documents'[v].by = 0 => documents'[v] = documents[v]
    BY <1>2, <1>12, <2>1
  <2>5. QED
    BY <2>2, <2>3, <2>4 DEF IInv, SentOpen
<1>21. PastReading'
  <2> SUFFICES ASSUME NEW k \in DOMAIN tasks, tasks'[k].pc \in {"probe", "fetch"},
                      NEW v, v = Head(tasks'[k].todo)
               PROVE  /\ \A j \in 1 .. k - 1 : tasks'[j].kind \in Edits => Done(j)'
                      /\ \A w \in Range(tasks'[k].todo) : disk[w] # Closed
                      /\ tasks'[k].pc = "fetch" /\ documents'[v].text = Closed => documents'[v].by > k
    BY <1>1, <1>6 DEF PastReading
  <2>1. k # i /\ tasks'[k] = tasks[k] /\ \A j \in 1 .. k - 1 : j \in DOMAIN tasks
    BY <1>2, <1>4, <1>6
  <2>2. /\ \A j \in 1 .. k - 1 : tasks[j].kind \in Edits => Done(j)
        /\ \A w \in Range(tasks[k].todo) : disk[w] # Closed
        /\ tasks[k].pc = "fetch" /\ documents[v].text = Closed => documents[v].by > k
    BY <2>1 DEF IInv, PastReading
  <2>3. i > k
    <3>1. i \notin 1 .. k - 1
      BY <1>1, <1>2, <2>2 DEF Done
    <3>2. QED
      BY <1>2, <2>1, <3>1
  <2>4. v \in Uri
    <3>1. tasks[k].todo \in Seq(Uri) /\ tasks[k].todo # << >>
      BY <2>1, TaskFacts DEF IInv, Stages, Task
    <3>2. QED
      BY <2>1, <3>1, HeadTailProperties
  <2>5. QED
    BY <1>6, <1>12, <2>1, <2>2, <2>3, <2>4
<1>22. SavesFollow'
  <2>1. tasks[i].kind # "save"
    BY <1>2 DEF Edits
  <2>2. QED
    BY <1>1, <1>4, <1>5, <2>1, SavesKept DEF IInv
<1>23. CrashCauses'
  BY <1>1 DEF CrashCauses, Running
<1>24. QED
  BY <1>13, <1>14, <1>15, <1>18, <1>19, <1>20, <1>21, <1>22, <1>23 DEF IInv

-----------------------------------------------------------------------------
(***************************************************************************)
(* The messages of the client.                                             *)
(***************************************************************************)

Kind == Edits \cup Requests \cup {"save"}

(* A message is taken up: about an open document, unless it opens one. *)
LEMMA StartKeeps ==
  ASSUME IInv, NEW kind \in Kind, NEW u \in Uri, NEW text \in Texts \cup {Closed},
         Start(kind, u, text),
         kind # "open" => editor[u].text # Closed,
         IF kind \in Edits THEN Typed(u, text) ELSE editor' = editor,
         disk' \in [Uri -> Texts \cup {Closed}],
         \A v \in Uri : disk[v] # Closed => disk'[v] # Closed
  PROVE  IInv'
<1> DEFINE i == Len(tasks) + 1
           others == {j \in Going : tasks[j].kind = "save" /\ tasks[j].uri = u}
           t == [kind |-> kind, uri |-> u, text |-> text,
                 pc |-> IF Clears(kind) THEN "clear" ELSE Wanted(kind),
                 todo |-> <<>>, alone |-> kind = "save" /\ others = {}]
<1>1. /\ crash = None /\ i <= MaxMessages /\ tasks' = Append(tasks, t)
      /\ UNCHANGED <<documents, shown, crash>>
  BY DEF Start, Running
<1>2. /\ t \in Task /\ t.kind = kind /\ t.uri = u /\ t.text = text /\ t.todo = << >>
      /\ t.alone = (kind = "save" /\ others = {})
      /\ kind \in Edits => t.pc = "apply"
      /\ kind \in Requests => t.pc = "read"
      /\ kind = "save" => t.pc = "clear"
  <2>1. << >> \in Seq(Uri)
    OBVIOUS
  <2>2. QED
    BY <2>1 DEF Task, Kind, Clears, Wanted, Edits, Requests
<1>3. /\ Len(tasks) \in Nat /\ DOMAIN tasks = 1 .. Len(tasks) /\ i \in Nat /\ i >= 1
      /\ tasks \in Seq(Task)
  BY LenProperties DEF IInv, TypeOK
<1> HIDE DEF t
<1>4. /\ tasks' \in Seq(Task) /\ Len(tasks') = i /\ DOMAIN tasks' = 1 .. i
      /\ tasks'[i] = t /\ \A j \in DOMAIN tasks : tasks'[j] = tasks[j]
  BY <1>1, <1>2, <1>3, AppendProperties, LenProperties
<1>5. PICK n \in Nat : n = i
  BY <1>3
<1>6. /\ DOMAIN tasks' = DOMAIN tasks \cup {n} /\ n \notin DOMAIN tasks /\ n >= 1
      /\ \A j \in DOMAIN tasks : j \in Nat /\ j < n
      /\ DOMAIN tasks = 1 .. n - 1
      /\ tasks'[n] = t /\ \A j \in DOMAIN tasks : tasks'[j] = tasks[j]
  BY <1>3, <1>4, <1>5
<1> DEFINE F == {j \in DOMAIN tasks' : Fresh(j)'}
<1>7. /\ queue' \in Seq(Nat) /\ IsInjective(queue') /\ Behind(queue', F)
      /\ Range(queue') = {j \in DOMAIN tasks' : tasks'[j].pc \in Waits}
  <2>1. Range(queue) = {j \in DOMAIN tasks : tasks[j].pc \in Waits} /\ IsInjective(queue)
        /\ queue \in Seq(Nat)
    BY DEF IInv, TypeOK, Stages, Waits
  <2>2. Behind(queue, F)
    <3>1. \A j \in Range(queue) : j \in F => Fresh(j)
      BY <1>6, <2>1 DEF Fresh, At
    <3>2. \A k \in DOMAIN queue : queue[k] \in Range(queue)
      BY DEF Range
    <3>3. QED
      BY <2>1, <3>1, <3>2 DEF IInv, InTurn, Behind
  <2>3. {j \in DOMAIN tasks' : tasks'[j].pc \in Waits}
          = Range(queue) \cup (IF t.pc \in Waits THEN {n} ELSE {})
    BY <1>6, <2>1
  <2>4. CASE kind = "save"
    <3>1. queue' = queue
      BY <2>4 DEF Start, Clears
    <3>2. t.pc \notin Waits
      BY <1>2, <2>4 DEF Waits
    <3>3. QED
      BY <2>1, <2>2, <2>3, <3>1, <3>2
  <2>5. CASE kind # "save"
    <3>1. queue' = Append(queue, n) /\ t.pc \in Waits
      BY <1>2, <1>5, <2>5 DEF Start, Clears, Kind, Waits
    <3>2. n \notin Range(queue) /\ \A x \in Range(queue) : x < n
      BY <1>6, <2>1
    <3> HIDE DEF F
    <3>3. QED
      BY <2>1, <2>2, <2>3, <3>1, <3>2, Joins
  <2>6. QED
    BY <2>4, <2>5
<1>8. /\ outbox' \in Seq(Envelope) /\ parked' \in Seq(Nat)
      /\ Range(parked') \subseteq Range(parked) \cup (IF kind = "save" THEN {n} ELSE {})
      /\ outbox' = IF kind = "save" THEN Append(outbox, Diagnostics(u, FALSE)) ELSE outbox
  <2>1. CASE kind = "save"
    <3>1. Publish(n, Diagnostics(u, FALSE)) /\ Diagnostics(u, FALSE) \in Envelope
      BY <1>5, <2>1 DEF Start, Clears, Diagnostics, Envelope
    <3>2. QED
      BY <2>1, <3>1, Published DEF IInv
  <2>2. CASE kind # "save"
    BY <2>2 DEF Start, Clears, IInv, Stages
  <2>3. QED
    BY <2>1, <2>2
<1>9. \A j \in Range(parked') : j \in DOMAIN tasks' /\ tasks'[j].pc \in {"clear", "report", "show", "done"}
  BY <1>2, <1>6, <1>8 DEF IInv, TypeOK, Stages
<1>10. /\ editor' \in [Uri -> [text : Texts \cup {Closed}, by : Id]]
       /\ kind \in Edits => /\ editor'[u].text = text /\ editor'[u].by = n
                            /\ \A v \in Uri : v # u => editor'[v] = editor[v]
       /\ kind \notin Edits => editor' = editor
  <2>1. n \in Id
    BY <1>1, <1>5, BoundAssumption DEF Id
  <2>2. kind \in Edits => editor' = [editor EXCEPT ![u] = [text |-> text, by |-> n]]
    BY <1>5 DEF Typed
  <2>3. QED
    BY <2>1, <2>2 DEF IInv, TypeOK
<1>11. TypeOK'
  <2>1. crash' = None /\ documents' = documents /\ shown' = shown
    BY <1>1
  <2>2. Len(tasks') <= MaxMessages
    BY <1>1, <1>4
  <2>3. QED
    BY <1>4, <1>7, <1>9, <1>10, <2>1, <2>2 DEF IInv, TypeOK, Waits
<1>12. Stages'
  <2>1. \A j \in DOMAIN tasks' :
          /\ tasks'[j].kind \in Edits => tasks'[j].pc \in {"apply", "done"}
          /\ tasks'[j].kind = "save" => tasks'[j].pc \in {"clear", "read", "report", "done"}
          /\ tasks'[j].kind \in Requests => tasks'[j].pc \in {"read", "probe", "fetch", "show", "done"}
          /\ tasks'[j].pc \in {"probe", "fetch"} => tasks'[j].todo # << >>
    BY <1>2, <1>6 DEF IInv, Stages, Kind, Edits, Requests
  <2>2. QED
    BY <1>7, <1>8, <1>9, <2>1 DEF Stages
<1>13. /\ \A j \in DOMAIN tasks, v \in Uri : EditsOf(j, v)' <=> EditsOf(j, v)
       /\ \A j \in DOMAIN tasks : Done(j)' <=> Done(j)
       /\ \A v \in Uri : EditsOf(n, v)' <=> kind \in Edits /\ v = u
       /\ ~Done(n)'
  BY <1>2, <1>6 DEF EditsOf, Done, Kind
<1>14. InTurn'
  <2>1. \A j \in DOMAIN tasks : Fresh(j)' => Fresh(j)
    BY <1>6 DEF Fresh, At
  <2>2. \A j, k \in DOMAIN tasks' : Fresh(j)' /\ tasks'[k].kind \in Edits /\ j < k => ~Done(k)'
    <3> SUFFICES ASSUME NEW j \in DOMAIN tasks', NEW k \in DOMAIN tasks', Fresh(j)',
                        tasks'[k].kind \in Edits, j < k
                 PROVE  ~Done(k)'
      OBVIOUS
    <3>1. CASE k = n
      BY <1>13, <3>1
    <3>2. CASE k # n
      <4>1. j \in DOMAIN tasks /\ k \in DOMAIN tasks
        BY <1>6, <3>2
      <4>2. QED
        BY <1>6, <1>13, <2>1, <4>1 DEF IInv, InTurn
    <3>3. QED
      BY <3>1, <3>2
  <2>3. QED
    BY <1>7, <2>2 DEF InTurn
<1>15. Applied'
  <2> SUFFICES ASSUME NEW v \in Uri, NEW e, e = documents[v].by
               PROVE  /\ e # 0 => /\ e \in DOMAIN tasks' /\ EditsOf(e, v)' /\ Done(e)'
                                  /\ documents[v].text = tasks'[e].text
                      /\ \A j \in DOMAIN tasks' : EditsOf(j, v)' /\ Done(j)' => j <= e
    BY <1>1 DEF Applied, EditsOf, Done
  <2>1. e # 0 => /\ e \in DOMAIN tasks /\ EditsOf(e, v) /\ Done(e)
                 /\ documents[v].text = tasks[e].text
    BY DEF IInv, Applied
  <2>2. \A j \in DOMAIN tasks : EditsOf(j, v) /\ Done(j) => j <= e
    BY DEF IInv, Applied
  <2>3. QED
    BY <1>6, <1>13, <2>1, <2>2
<1>16. Sent'
  <2> SUFFICES ASSUME NEW v \in Uri, NEW e, e = editor'[v].by
               PROVE  /\ e # 0 => /\ e \in DOMAIN tasks' /\ EditsOf(e, v)'
                                  /\ editor'[v].text = tasks'[e].text
                      /\ \A j \in DOMAIN tasks' : EditsOf(j, v)' => j <= e
                      /\ e = 0 => documents[v] = editor'[v]
    BY <1>1 DEF Sent, EditsOf
  <2>1. CASE kind \in Edits /\ v = u
    <3>1. e = n /\ editor'[v].text = tasks'[n].text /\ EditsOf(n, v)'
      BY <1>2, <1>6, <1>10, <1>13, <2>1
    <3>2. QED
      BY <1>6, <3>1
  <2>2. CASE ~(kind \in Edits /\ v = u)
    <3>1. editor'[v] = editor[v] /\ ~EditsOf(n, v)'
      BY <1>10, <1>13, <2>2
    <3>2. /\ e # 0 => /\ e \in DOMAIN tasks /\ EditsOf(e, v)
                      /\ editor[v].text = tasks[e].text
          /\ \A j \in DOMAIN tasks : EditsOf(j, v) => j <= e
          /\ e = 0 => documents[v] = editor[v]
      BY <3>1 DEF IInv, Sent
    <3>3. QED
      BY <1>6, <1>13, <3>1, <3>2
  <2>3. QED
    BY <2>1, <2>2
<1>17. SentOpen'
  <2> SUFFICES ASSUME NEW k \in DOMAIN tasks', tasks'[k].kind # "open", NEW v, v = tasks'[k].uri
               PROVE  LET earlier == {j \in 1 .. k - 1 : EditsOf(j, v)'}
                      IN  /\ earlier = {} /\ documents[v].by = 0 => documents[v].text # Closed
                          /\ \A j \in earlier : (\A l \in earlier : l <= j) => tasks'[j].text # Closed
    BY <1>1 DEF SentOpen, EditsOf
  <2>1. v \in Uri /\ \A j \in 1 .. k - 1 : j \in DOMAIN tasks
    <3>1. k \in 1 .. n
      BY <1>6
    <3>2. tasks'[k] \in Task
      BY <1>4, <1>5, ElementOfSeq
    <3>3. QED
      BY <1>6, <3>1, <3>2 DEF Task
  <2>2. {j \in 1 .. k - 1 : EditsOf(j, v)'} = {j \in 1 .. k - 1 : EditsOf(j, v)}
    BY <1>13, <2>1
  <2> DEFINE earlier == {j \in 1 .. k - 1 : EditsOf(j, v)}
  <2>3. /\ earlier = {} /\ documents[v].by = 0 => documents[v].text # Closed
        /\ \A j \in earlier : (\A l \in earlier : l <= j) => tasks[j].text # Closed
    <3>1. CASE k \in DOMAIN tasks
      BY <1>6, <3>1 DEF IInv, SentOpen
    <3>2. CASE k = n
      <4>1. v = u /\ editor[u].text # Closed
        BY <1>2, <1>6, <3>2
      <4>2. /\ editor[u].by # 0 => /\ editor[u].by \in earlier
                                   /\ editor[u].text = tasks[editor[u].by].text
            /\ \A j \in earlier : j <= editor[u].by
            /\ editor[u].by = 0 => documents[u] = editor[u]
        BY <1>6, <3>2, <4>1 DEF IInv, Sent
      <4>3. \A j \in earlier : j \in Nat /\ j >= 1
        BY <1>6, <3>2
      <4>4. editor[u].by \in Nat
        BY BoundAssumption DEF IInv, TypeOK, Id
      <4>5. \A j \in earlier : (\A l \in earlier : l <= j) => j = editor[u].by
        BY <4>2, <4>3, <4>4
      <4>6. QED
        BY <4>1, <4>2, <4>3, <4>5
    <3>3. QED
      BY <1>6, <3>1, <3>2
  <2>4. \A j \in earlier : tasks'[j].text = tasks[j].text
    BY <1>6, <2>1
  <2>5. QED
    BY <2>2, <2>3, <2>4
<1>18. PastReading'
  <2> SUFFICES ASSUME NEW k \in DOMAIN tasks', tasks'[k].pc \in {"probe", "fetch"}
               PROVE  /\ \A j \in 1 .. k - 1 : tasks'[j].kind \in Edits => Done(j)'
                      /\ \A v \in Range(tasks'[k].todo) : disk'[v] # Closed
                      /\ tasks'[k].pc = "fetch" /\ documents[Head(tasks'[k].todo)].text = Closed =>
                           documents[Head(tasks'[k].todo)].by > k
    BY <1>1 DEF PastReading
  <2>1. k \in DOMAIN tasks /\ tasks'[k] = tasks[k]
    BY <1>2, <1>6 DEF Kind
  <2>2. \A j \in 1 .. k - 1 : j \in DOMAIN tasks
    BY <1>6, <2>1
  <2>3. \A v \in Range(tasks[k].todo) : v \in Uri
    <3>1. tasks[k].todo \in Seq(Uri)
      BY <2>1, TaskFacts DEF IInv, Task
    <3>2. QED
      BY <3>1, ElementOfSeq, LenProperties DEF Range
  <2>4. QED
    BY <1>6, <1>13, <2>1, <2>2, <2>3 DEF IInv, PastReading
<1>19. SavesFollow'
  <2>1. /\ \A j \in DOMAIN tasks : \A v : Saves(j, v)' <=> Saves(j, v)
        /\ \A v : Saves(n, v)' <=> kind = "save" /\ v = u
    BY <1>2, <1>6 DEF Saves
  <2>2. ASSUME NEW v, NEW e \in BOOLEAN, ~(kind = "save" /\ v = u), Foretold(outbox, shown, v, e)
        PROVE  Foretold(outbox', shown', v, e)
    <3>1. CASE kind = "save"
      <4> DEFINE m == Diagnostics(u, FALSE)
      <4>1. m \in Envelope /\ v \notin m.uri /\ outbox' = Append(outbox, m)
        BY <1>8, <2>2, <3>1 DEF Diagnostics, Envelope
      <4> HIDE DEF m
      <4>2. QED
        BY <1>1, <2>2, <4>1, Announced DEF IInv, Stages
    <3>2. CASE kind # "save"
      BY <1>1, <1>8, <2>2, <3>2
    <3>3. QED
      BY <3>1, <3>2
  <2>3. ASSUME NEW k \in DOMAIN tasks', tasks'[k].kind = "save", tasks'[k].alone,
               NEW v, v = tasks'[k].uri
        PROVE  /\ \A j \in 1 .. k - 1 : Saves(j, v)' => Done(j)'
               /\ (\A j \in DOMAIN tasks' : j > k => ~Saves(j, v)') =>
                    Foretold(outbox', shown', v,
                             tasks'[k].pc \in {"report", "done"} /\ Errors(tasks'[k].text))
    <3> DEFINE e == tasks'[k].pc \in {"report", "done"} /\ Errors(tasks'[k].text)
    <3>1. \A j \in 1 .. k - 1 : j \in DOMAIN tasks
      BY <1>6
    <3>2. e \in BOOLEAN
      OBVIOUS
    <3>3. CASE k \in DOMAIN tasks
      <4>1. /\ \A j \in 1 .. k - 1 : Saves(j, v) => Done(j)
            /\ (\A j \in DOMAIN tasks : j > k => ~Saves(j, v)) => Foretold(outbox, shown, v, e)
        BY <1>6, <2>3, <3>3 DEF IInv, SavesFollow
      <4>2. n > k
        BY <1>6, <3>3
      <4> HIDE DEF e
      <4>3. (\A j \in DOMAIN tasks' : j > k => ~Saves(j, v)') => Foretold(outbox', shown', v, e)
        BY <1>6, <2>1, <2>2, <3>2, <4>1, <4>2
      <4>4. QED
        BY <1>13, <2>1, <3>1, <4>1, <4>3 DEF e
    <3>4. CASE k = n
      <4>1. kind = "save" /\ v = u /\ others = {} /\ t.pc = "clear"
        BY <1>2, <1>6, <2>3, <3>4
      <4>2. e = FALSE
        BY <1>6, <3>4, <4>1
      <4>3. \A j \in DOMAIN tasks : Saves(j, v) => Done(j)
        BY <4>1 DEF Saves, Done, Going
      <4>4. Foretold(outbox', shown', v, FALSE)
        <5> DEFINE m == Diagnostics(u, FALSE)
        <5>1. m \in Envelope /\ u \in m.uri /\ m.errors = FALSE /\ outbox' = Append(outbox, m)
          BY <1>8, <4>1 DEF Diagnostics, Envelope
        <5> HIDE DEF m
        <5>2. \A x \in BOOLEAN : m.errors = x => Foretold(Append(outbox, m), shown, u, x)
          BY <5>1, Announced DEF IInv, Stages
        <5>3. Foretold(Append(outbox, m), shown, u, FALSE)
          BY <5>1, <5>2
        <5>4. QED
          BY <1>1, <4>1, <5>1, <5>3
      <4> HIDE DEF e
      <4>5. QED
        BY <1>13, <2>1, <3>1, <4>2, <4>3, <4>4 DEF e
    <3>5. QED
      BY <1>6, <3>3, <3>4
  <2>4. QED
    BY <2>3 DEF SavesFollow, Saves
<1>20. CrashCauses'
  BY <1>1 DEF CrashCauses, Running
<1>21. QED
  BY <1>11, <1>12, <1>14, <1>15, <1>16, <1>17, <1>18, <1>19, <1>20 DEF IInv

LEMMA ClientKeeps ==
  ASSUME IInv, Client
  PROVE  IInv'
<1>1. PICK u \in Uri : Open(u) \/ Change(u) \/ Close(u) \/ Save(u) \/ Request(u)
  BY DEF Client
<1>2. /\ disk \in [Uri -> Texts \cup {Closed}]
      /\ editor[u].text \in Texts \cup {Closed}
      /\ \A text \in TextsOf[u] : text \in Texts
  BY DEF IInv, TypeOK, Texts
<1>3. CASE Open(u)
  <2>1. PICK text \in TextsOf[u] : Start("open", u, text) /\ Typed(u, text)
    BY <1>3 DEF Open
  <2>2. disk' = disk /\ text \in Texts
    BY <1>2, <1>3 DEF Open
  <2>3. QED
    BY <1>2, <2>1, <2>2, StartKeeps DEF Kind, Edits
<1>4. CASE Change(u)
  <2>1. PICK text \in TextsOf[u] : Start("change", u, text) /\ Typed(u, text)
    BY <1>4 DEF Change
  <2>2. disk' = disk /\ text \in Texts /\ editor[u].text # Closed
    BY <1>2, <1>4 DEF Change
  <2>3. QED
    BY <1>2, <2>1, <2>2, StartKeeps DEF Kind, Edits
<1>5. CASE Close(u)
  <2>1. Start("close", u, Closed) /\ Typed(u, Closed) /\ disk' = disk /\ editor[u].text # Closed
    BY <1>5 DEF Close
  <2>2. QED
    BY <1>2, <2>1, StartKeeps DEF Kind, Edits
<1>6. CASE Save(u)
  <2>1. /\ Start("save", u, Closed) /\ editor' = editor /\ editor[u].text # Closed
        /\ disk' = [disk EXCEPT ![u] = editor[u].text]
    BY <1>6 DEF Save
  <2>2. /\ disk' \in [Uri -> Texts \cup {Closed}]
        /\ \A v \in Uri : disk[v] # Closed => disk'[v] # Closed
    BY <1>2, <2>1
  <2>3. "save" \in Kind /\ "save" \notin Edits
    BY DEF Kind, Edits
  <2>4. QED
    BY <2>1, <2>2, <2>3, StartKeeps
<1>7. CASE Request(u)
  <2>1. PICK kind \in Requests : Start(kind, u, Closed)
    BY <1>7 DEF Request
  <2>2. disk' = disk /\ editor' = editor /\ editor[u].text # Closed
    BY <1>7 DEF Request
  <2>3. kind \in Kind /\ kind \notin Edits
    BY DEF Kind, Edits, Requests
  <2>4. QED
    BY <1>2, <2>1, <2>2, <2>3, StartKeeps
<1>8. QED
  BY <1>1, <1>3, <1>4, <1>5, <1>6, <1>7

-----------------------------------------------------------------------------
(***************************************************************************)
(* The invariant, and what follows from it.                                *)
(***************************************************************************)

LEMMA InitiallyIInv == Init => IInv
<1> SUFFICES ASSUME Init
             PROVE  IInv
  OBVIOUS
<1>1. /\ tasks = << >> /\ queue = << >> /\ outbox = << >> /\ parked = << >>
      /\ shown = [u \in Uri |-> FALSE] /\ crash = None /\ documents = editor
      /\ disk \in [Uri -> Texts \cup {Closed}]
  BY DiskAssumption DEF Init
<1>2. /\ DOMAIN tasks = {} /\ DOMAIN queue = {} /\ Range(queue) = {} /\ Range(parked) = {}
      /\ tasks \in Seq(Task) /\ Len(tasks) = 0
      /\ queue \in Seq(Nat) /\ parked \in Seq(Nat) /\ outbox \in Seq(Envelope)
  <2>1. \A S : << >> \in Seq(S) /\ Len(<< >>) = 0
    BY EmptySeq
  <2>2. DOMAIN << >> = {}
    BY <2>1, LenProperties
  <2>3. QED
    BY <1>1, <2>1, <2>2 DEF Range
<1>3. /\ editor \in [Uri -> [text : Texts \cup {Closed}, by : Id]]
      /\ \A u \in Uri : editor[u].by = 0
  <2>1. 0 \in Id
    BY BoundAssumption DEF Id
  <2>2. PICK opened \in Opened :
          editor = [u \in Uri |-> [text |-> IF u \in opened THEN disk[u] ELSE Closed, by |-> 0]]
    BY DEF Init
  <2>3. QED
    BY <1>1, <2>1, <2>2
<1>4. TypeOK
  BY <1>1, <1>2, <1>3, BoundAssumption DEF TypeOK, IsInjective
<1>5. Stages /\ InTurn /\ SentOpen /\ PastReading /\ SavesFollow
  BY <1>2 DEF Stages, InTurn, Behind, SentOpen, PastReading, SavesFollow
<1>6. Applied /\ Sent
  BY <1>1, <1>2, <1>3 DEF Applied, Sent
<1>7. CrashCauses
  BY <1>1 DEF CrashCauses, Running
<1>8. QED
  BY <1>4, <1>5, <1>6, <1>7 DEF IInv

LEMMA Invariance == Spec => []IInv
<1>1. Init => IInv
  BY InitiallyIInv
<1>2. IInv /\ [Next]_vars => IInv'
  <2> SUFFICES ASSUME IInv, [Next]_vars
               PROVE  IInv'
    OBVIOUS
  <2>1. CASE Client
    BY <2>1, ClientKeeps
  <2>2. CASE Deliver
    BY <2>2, DeliverKeeps
  <2>3. ASSUME NEW i \in DOMAIN tasks, Handler(i)
        PROVE  IInv'
    BY <2>3, ClearedKeeps, ApplyKeeps, ReadSaveKeeps, ReportedKeeps, ReadRequestKeeps,
       ShownKeeps, ProbeKeeps, FetchKeeps DEF Handler
  <2>4. ASSUME NEW i \in DOMAIN tasks, Cancel(i)
        PROVE  IInv'
    BY <2>4, CancelKeeps
  <2>5. CASE UNCHANGED vars
    <3>1. TypeOK' /\ Stages' /\ InTurn' /\ Applied' /\ Sent'
      BY <2>5 DEF vars, IInv, TypeOK, Stages, InTurn, Applied, Sent, Fresh, At, Done, EditsOf
    <3>2. SentOpen' /\ PastReading' /\ SavesFollow'
      BY <2>5 DEF vars, IInv, SentOpen, PastReading, SavesFollow, Done, EditsOf, Saves
    <3>3. CrashCauses'
      BY <2>5 DEF vars, IInv, CrashCauses, Running, Cause, ClosedSince, Contents,
     BadImport, Blamed, Below, Mistaken, ImportsOf
    <3>4. QED
      BY <3>1, <3>2, <3>3 DEF IInv
  <2>6. QED
    BY <2>1, <2>2, <2>3, <2>4, <2>5 DEF Next
<1>3. QED
  BY <1>1, <1>2, PTL DEF Spec

(* Types, whoever waits and whatever is on its way (Backend, lsp/main.rs). *)
THEOREM TypeCorrect == Spec => []TypeOK
<1>1. IInv => TypeOK
  BY DEF IInv
<1>2. QED
  BY <1>1, Invariance, PTL

(* The greatest element of a set of naturals that has a bound. *)
LEMMA Greatest ==
  ASSUME NEW T, T \subseteq Nat, T # {}, NEW n \in Nat, \A x \in T : x <= n
  PROVE  Max(T) \in T
<1>1. PICK m \in {n - x : x \in T} : \A y \in {n - x : x \in T} : m <= y
  <2>1. \A x \in T : n - x \in Nat
    OBVIOUS
  <2>2. {n - x : x \in T} \subseteq Nat
    BY <2>1
  <2>3. {n - x : x \in T} # {}
    OBVIOUS
  <2>4. QED
    BY <2>2, <2>3, LeastNatural
<1>2. PICK x \in T : m = n - x
  BY <1>1
<1>3. \A y \in T : x >= y
  BY <1>1, <1>2
<1>4. QED
  BY <1>2, <1>3 DEF Max

(* A save and a request read the texts of every edit sent before them, for  *)
(* any number of handlers that await the lock in any order (get_file_       *)
(* contents and the handlers of lsp/main.rs).                               *)
THEOREM Fresher == Spec => []SeesEdits
<1>1. IInv => SeesEdits
  <2> SUFFICES ASSUME IInv, NEW i \in Range(queue), Granted(i), tasks[i].pc # "apply"
               PROVE  documents[Reads(i)].by >= LastEdit(i, Reads(i))
    BY DEF SeesEdits
  <2>1. i \in DOMAIN tasks /\ tasks[i].pc \in Waits
    BY DEF IInv, TypeOK, Waits
  <2>2. PICK u \in Uri : u = Reads(i)
    <3>1. tasks[i].uri \in Uri /\ tasks[i].todo \in Seq(Uri)
      BY <2>1, TaskFacts DEF IInv, Task
    <3>2. tasks[i].pc # "read" => Head(tasks[i].todo) \in Uri
      <4>1. tasks[i].pc # "read" => tasks[i].todo # << >>
        BY <2>1 DEF IInv, Stages, Waits
      <4>2. QED
        BY <3>1, <4>1, HeadTailProperties
    <3>3. QED
      BY <3>1, <3>2 DEF Reads
  <2>3. documents[u].by \in Nat /\ i \in Nat /\ DOMAIN tasks = 1 .. Len(tasks) /\ Len(tasks) \in Nat
    BY <2>1, TaskFacts, BoundAssumption DEF IInv, TypeOK, Id
  <2>4. \A j \in 1 .. i - 1 : tasks[j].kind \in Edits => Done(j)
    BY <2>1, Unblocked DEF At
  <2> DEFINE T == {0} \cup {j \in 1 .. (i - 1) : tasks[j].kind \in Edits /\ tasks[j].uri = u}
  <2>5. \A j \in T : j <= documents[u].by
    <3>1. \A j \in 1 .. i - 1 : j \in DOMAIN tasks
      BY <2>1, <2>3
    <3>2. QED
      BY <2>3, <2>4, <3>1 DEF IInv, Applied, EditsOf
  <2>6. T \subseteq Nat /\ T # {}
    BY <2>3
  <2> HIDE DEF T
  <2>7. Max(T) \in T
    BY <2>3, <2>5, <2>6, Greatest
  <2>8. LastEdit(i, u) = Max(T)
    BY DEF LastEdit, T
  <2>9. documents[u].by >= Max(T)
    BY <2>3, <2>5, <2>6, <2>7
  <2>10. QED
    BY <2>2, <2>8, <2>9
<1>2. QED
  BY <1>1, Invariance, PTL

(* When every handler has ended, the server has the texts of the client     *)
(* (did_open, did_change, did_close).                                       *)
THEOREM CatchingUp == Spec => []ServerCatchesUp
<1>1. IInv => ServerCatchesUp
  <2> SUFFICES ASSUME IInv, \A i \in DOMAIN tasks : tasks[i].pc = "done"
               PROVE  documents = editor
    BY DEF ServerCatchesUp, Quiet
  <2>1. ASSUME NEW u \in Uri
        PROVE  documents[u] = editor[u]
    <3> DEFINE a == documents[u].by
               b == editor[u].by
    <3>1. /\ documents[u] \in [text : Texts \cup {Closed}, by : Id]
          /\ editor[u] \in [text : Texts \cup {Closed}, by : Id]
          /\ a \in Nat /\ b \in Nat
      BY BoundAssumption DEF IInv, TypeOK, Id
    <3>2. \A j \in DOMAIN tasks : j \in Nat /\ j >= 1
      BY TaskFacts DEF IInv
    <3>3. a # 0 => /\ a \in DOMAIN tasks /\ EditsOf(a, u)
                   /\ documents[u].text = tasks[a].text
      BY DEF IInv, Applied
    <3>4. b # 0 => /\ b \in DOMAIN tasks /\ EditsOf(b, u)
                   /\ editor[u].text = tasks[b].text
      BY DEF IInv, Sent
    <3>5. \A j \in DOMAIN tasks : EditsOf(j, u) => j <= a /\ j <= b
      BY DEF IInv, Applied, Sent, Done
    <3>6. CASE b = 0
      BY <3>6 DEF IInv, Sent
    <3>7. CASE b # 0
      <4>1. b <= a /\ a # 0
        BY <3>1, <3>2, <3>4, <3>5, <3>7
      <4>2. a = b
        BY <3>1, <3>3, <3>5, <4>1
      <4>3. documents[u].text = editor[u].text
        BY <3>3, <3>4, <3>7, <4>2
      <4>4. QED
        BY <3>1, <4>2, <4>3
    <3>8. QED
      BY <3>6, <3>7
  <2>2. QED
    BY <2>1 DEF IInv, TypeOK
<1>2. QED
  BY <1>1, Invariance, PTL

(* When everything has been received, the client shows errors for a         *)
(* document exactly if its last save found some (did_save).                 *)
THEOREM Diagnosing == Spec => []DiagnosticsFollow
<1>1. IInv => DiagnosticsFollow
  <2> SUFFICES ASSUME IInv, outbox = << >>, \A j \in DOMAIN tasks : tasks[j].pc = "done",
                      NEW u \in Uri, NEW i \in LastSave(u), tasks[i].alone
               PROVE  shown[u] = Errors(tasks[i].text)
    BY DEF DiagnosticsFollow, Quiet
  <2>1. /\ i \in DOMAIN tasks /\ tasks[i].kind = "save" /\ tasks[i].uri = u
        /\ \A j \in DOMAIN tasks : j > i => ~Saves(j, u)
    BY DEF LastSave, Saves
  <2>2. Foretold(outbox, shown, u, tasks[i].pc \in {"report", "done"} /\ Errors(tasks[i].text))
    BY <2>1 DEF IInv, SavesFollow
  <2>3. DOMAIN outbox = {}
    <3>1. << >> \in Seq(Envelope) /\ Len(<< >>) = 0
      BY EmptySeq
    <3>2. QED
      BY <3>1, LenProperties
  <2>4. shown[u] = (tasks[i].pc \in {"report", "done"} /\ Errors(tasks[i].text))
    BY <2>2, <2>3 DEF Foretold
  <2>5. tasks[i].pc = "done"
    BY <2>1
  <2>6. QED
    BY <2>4, <2>5 DEF Errors
<1>2. QED
  BY <1>1, Invariance, PTL

(* Whatever the order of the messages and of the handlers, nothing but the  *)
(* listed causes ends the server (the unwraps and panics of lsp/main.rs).   *)
THEOREM Crashing == Spec => []CrashCauses
<1>1. IInv => CrashCauses
  BY DEF IInv
<1>2. QED
  BY <1>1, Invariance, PTL

=============================================================================
