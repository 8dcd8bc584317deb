---------------------------- MODULE LoaderProofs ----------------------------
(***************************************************************************)
(* Proofs about Loader for every set of modules, every program and every   *)
(* depth of the call stack: types; that a program whose modules import     *)
(* from lower layers and keep their functions from escaping never waits    *)
(* for a mutex the thread itself holds; that a module runs at most once    *)
(* and what was read of it is settled; and that loading reports an error   *)
(* exactly when a reachable module is broken.                              *)
(***************************************************************************)
EXTENDS Loader, Integers, SequenceTheorems, FiniteSetTheorems, TLAPS

-----------------------------------------------------------------------------
(***************************************************************************)
(* Facts about a sequence used as a stack, its innermost element last.     *)
(***************************************************************************)

(* What is left of a stack when its innermost element is removed. *)
LEMMA FrontLast ==
  ASSUME NEW S, NEW s \in Seq(S), s # << >>
  PROVE  /\ Len(s) \in Nat /\ Len(s) >= 1
         /\ Last(s) \in S /\ Last(s) = s[Len(s)]
         /\ Front(s) \in Seq(S) /\ Len(Front(s)) = Len(s) - 1
         /\ \A i \in 1 .. Len(s) - 1 : Front(s)[i] = s[i]
<1>1. Len(s) \in Nat /\ Len(s) >= 1 /\ Len(s) \in 1 .. Len(s)
  BY LenProperties, EmptySeq
<1>2. Front(s) = SubSeq(s, 1, Len(s) - 1) /\ Last(s) = s[Len(s)]
  BY DEF Front, Last
<1>3. \A i \in 1 .. Len(s) : s[i] \in S
  BY ElementOfSeq
<1> DEFINE n == Len(s) - 1
           t == SubSeq(s, 1, n)
<1>4. n \in Nat /\ 1 \in Int /\ n \in Int /\ \A i \in 1 .. n : s[i] \in S
  BY <1>1, <1>3
<1> HIDE DEF n
<1>5. /\ t \in Seq(S)
      /\ Len(t) = IF 1 <= n THEN n - 1 + 1 ELSE 0
      /\ \A i \in 1 .. n - 1 + 1 : t[i] = s[1 + i - 1]
  BY <1>4, SubSeqProperties
<1>6. Len(t) = n
  BY <1>4, <1>5
<1>7. \A i \in 1 .. n : t[i] = s[i]
  <2> SUFFICES ASSUME NEW i \in 1 .. n
               PROVE  t[i] = s[i]
    OBVIOUS
  <2>1. i \in 1 .. n - 1 + 1 /\ 1 + i - 1 = i
    BY <1>4
  <2>2. QED
    BY <1>5, <2>1
<1>8. QED
  BY <1>1, <1>2, <1>3, <1>5, <1>6, <1>7 DEF n

(***************************************************************************)
(* Types.                                                                  *)
(***************************************************************************)

(* The import lists of the program at hand. *)
LEMMA ImportLists ==
  ASSUME program \in Programs
  PROVE  \A m \in Module : /\ Imports(m) \in Seq(Import)
                           /\ Len(Imports(m)) \in Nat
                           /\ DOMAIN Imports(m) = 1 .. Len(Imports(m))
                           /\ \A i \in DOMAIN Imports(m) : Imports(m)[i] \in Import
BY ProgramsAssumption, LenProperties, ElementOfSeq DEF Program, Imports

(* The first frame of a call is well formed. *)
LEMMA CallFrame ==
  ASSUME program \in Programs, NEW m \in Module,
         NEW at \in {"load", "fill", "run", "call", "check", "read"}
  PROVE  /\ Call(at, m) \in Frame
         /\ Call(at, m).at = at /\ Call(at, m).module = m
         /\ Call(at, m).next \in 1 .. Len(Imports(m)) + 1
BY ImportLists DEF Call, Frame

(* A new call on a well-formed stack. *)
LEMMA PushCalls ==
  ASSUME program \in Programs, NEW s, Calls(s), NEW m \in Module,
         NEW at \in {"load", "fill", "run", "call", "check", "read"}
  PROVE  Calls(Append(s, Call(at, m)))
<1>1. s \in Seq(Frame) /\ Len(s) \in Nat /\ DOMAIN s = 1 .. Len(s)
  BY LenProperties DEF Calls
<1> DEFINE c == Call(at, m)
           t == Append(s, c)
<1>2. c \in Frame /\ c.module = m /\ c.next \in 1 .. Len(Imports(m)) + 1
  BY CallFrame
<1> HIDE DEF c
<1>3. /\ t \in Seq(Frame) /\ DOMAIN t = 1 .. Len(s) + 1
      /\ \A i \in 1 .. Len(s) : t[i] = s[i]
      /\ t[Len(s) + 1] = c
  BY <1>1, <1>2, AppendProperties, LenProperties
<1>4. \A i \in DOMAIN t : i \in 1 .. Len(s) \/ i = Len(s) + 1
  BY <1>1, <1>3
<1> HIDE DEF t
<1>5. Calls(t)
  BY <1>1, <1>2, <1>3, <1>4 DEF Calls
<1>6. QED
  BY <1>5 DEF t, c

(* The innermost call returns from a well-formed stack. *)
LEMMA PopCalls ==
  ASSUME NEW s, Calls(s), s # << >>
  PROVE  Calls(Front(s)) /\ Last(s) \in Frame
<1>1. s \in Seq(Frame) /\ DOMAIN s = 1 .. Len(s)
  BY LenProperties DEF Calls
<1>2. /\ Front(s) \in Seq(Frame) /\ Len(Front(s)) = Len(s) - 1 /\ Len(s) \in Nat
      /\ \A i \in 1 .. Len(s) - 1 : Front(s)[i] = s[i]
      /\ Last(s) \in Frame
  BY <1>1, FrontLast
<1>3. DOMAIN Front(s) = 1 .. Len(s) - 1
  BY <1>2, LenProperties
<1>4. QED
  BY <1>1, <1>2, <1>3 DEF Calls

(* The innermost call moves on to its next import. *)
LEMMA AdvanceCalls ==
  ASSUME TypeOK, stack # << >>, MoreImports
  PROVE  /\ Calls(Advance)
         /\ Len(Advance) = Len(stack)
         /\ \A i \in 1 .. Len(stack) : /\ Advance[i].at = stack[i].at
                                       /\ Advance[i].module = stack[i].module
<1> DEFINE n == Len(stack)
           f == [stack[n] EXCEPT !.next = @ + 1]
           t == [stack EXCEPT ![n] = f]
<1>0. stack \in Seq(Frame)
  BY DEF TypeOK, Calls
<1>1. /\ n \in 1 .. Len(stack) /\ DOMAIN stack = 1 .. n
      /\ Top = stack[n] /\ stack[n] \in Frame /\ stack[n].module \in Module
      /\ \A i \in 1 .. n : stack[i].next \in 1 .. Len(Imports(stack[i].module)) + 1
  <2>1. /\ n \in Nat /\ n >= 1
        /\ Last(stack) = stack[n] /\ stack[n] \in Frame
    BY <1>0, FrontLast
  <2>2. DOMAIN stack = 1 .. n
    BY <1>0, LenProperties
  <2>3. Top = stack[n] /\ stack[n].module \in Module
    BY <2>1 DEF Top, Frame
  <2>4. \A i \in 1 .. n : stack[i].next \in 1 .. Len(Imports(stack[i].module)) + 1
    BY <2>2 DEF TypeOK, Calls
  <2>5. QED
    BY <2>1, <2>2, <2>3, <2>4
<1>2. stack[n].next \in 1 .. Len(Imports(stack[n].module))
  BY <1>1, ImportLists DEF TypeOK, MoreImports
<1>3. /\ f \in Frame /\ f.at = stack[n].at /\ f.module = stack[n].module
      /\ f.next = stack[n].next + 1
  BY <1>1 DEF Frame
<1> HIDE DEF f
<1>4. f.next \in 1 .. Len(Imports(f.module)) + 1
  <2>1. Len(Imports(stack[n].module)) \in Nat
    BY <1>1, ImportLists DEF TypeOK
  <2>2. QED
    BY <1>2, <1>3, <2>1
<1>5. /\ t \in Seq(Frame) /\ Len(t) = n /\ DOMAIN t = 1 .. n
      /\ \A i \in 1 .. n : t[i] = IF i = n THEN f ELSE stack[i]
  BY <1>0, <1>1, <1>3, ExceptSeq, LenProperties
<1> HIDE DEF t
<1>6. Calls(t) /\ \A i \in 1 .. n : t[i].at = stack[i].at /\ t[i].module = stack[i].module
  BY <1>1, <1>3, <1>4, <1>5 DEF Calls
<1>7. Advance = t
  BY DEF Advance, t, f
<1>8. QED
  BY <1>5, <1>6, <1>7

(* The module of the innermost call, and the module of its import.         *)
LEMMA TopFrame ==
  ASSUME TypeOK, stack # << >>
  PROVE  /\ stack \in Seq(Frame) /\ Len(stack) \in Nat /\ DOMAIN stack = 1 .. Len(stack)
         /\ Len(stack) >= 1
         /\ Top = stack[Len(stack)] /\ Top \in Frame /\ Top.module \in Module
         /\ MoreImports => Current \in Import /\ Current.from \in Module
<1>1. stack \in Seq(Frame)
  BY DEF TypeOK, Calls
<1>2. Top = stack[Len(stack)] /\ Top \in Frame /\ Len(stack) \in Nat /\ Len(stack) >= 1
  BY <1>1, FrontLast DEF Top
<1>3. Top.module \in Module
  BY <1>2 DEF Frame
<1>4. ASSUME MoreImports PROVE Current \in Import
  BY <1>3, <1>4, ImportLists DEF TypeOK, MoreImports, Current
<1>5. QED
  BY <1>1, <1>2, <1>3, <1>4, LenProperties DEF Import

(* A call replaced by another in a well-formed stack. *)
LEMMA ReplaceCalls ==
  ASSUME TypeOK, stack # << >>, NEW m \in Module,
         NEW at \in {"load", "fill", "run", "call", "check", "read"}
  PROVE  Calls(Replace(Call(at, m)))
BY PopCalls, PushCalls DEF TypeOK, Replace

(* The empty stack, on which every ending leaves the process. *)
LEMMA NoCalls == Calls(<< >>)
BY EmptySeq, LenProperties DEF Calls

(* The program never changes, so neither does what its calls may be.        *)
LEMMA NextCalls ==
  ASSUME program' = program, Calls(stack')
  PROVE  Calls(stack)'
BY DEF Calls, Imports

(* What parse_module_source leaves has its types. *)
LEMMA ParseTypes ==
  ASSUME TypeOK, NEW m \in Module, ParseModule(m)
  PROVE  TypeOK'
<1>1. Calls(stack')
  <2>1. stack' = Append(stack, Call("load", m)) \/ stack' = << >>
    BY DEF ParseModule, Ends
  <2>2. QED
    BY <2>1, PushCalls, NoCalls DEF TypeOK
<1>2. program.exports \in [Module -> SUBSET Name]
  BY ProgramsAssumption DEF TypeOK, Program
<1>3. exports' \in [Module -> SUBSET Name]
  BY <1>2 DEF TypeOK, ParseModule
<1>4. QED
  BY <1>1, <1>3, NextCalls DEF TypeOK, ParseModule, Ends

(* In every program: types, and no call looks beyond its module's imports. *)
THEOREM TypeCorrect == Spec => []TypeOK
<1>1. Init => TypeOK
  BY NoCalls DEF Init, TypeOK
<1>2. TypeOK /\ [Next]_vars => TypeOK'
  <2> SUFFICES ASSUME TypeOK, [Next]_vars
               PROVE  TypeOK'
    OBVIOUS
  <2> USE DEF AtTop
  <2>1. CASE LoadMain
    BY <2>1, MainAssumption, ParseTypes DEF LoadMain
  <2>2. CASE LoadImport
    BY <2>2, TopFrame, ParseTypes DEF LoadImport
  <2>3. CASE CheckImport
    <3>1. Calls(stack')
      BY <2>3, AdvanceCalls, NoCalls DEF CheckImport, Ends
    <3>2. QED
      BY <2>3, <3>1, NextCalls DEF TypeOK, CheckImport, Ends
  <2>4. CASE EndLoad
    <3>1. Calls(stack')
      <4>1. Calls(<<Call("fill", Main)>>)
        <5>1. <<Call("fill", Main)>> = Append(<< >>, Call("fill", Main))
          OBVIOUS
        <5>2. QED
          BY <5>1, MainAssumption, NoCalls, PushCalls DEF TypeOK
      <4>2. QED
        BY <2>4, <4>1, PopCalls DEF EndLoad, TypeOK
    <3>2. QED
      BY <2>4, <3>1, NextCalls, TopFrame, MainAssumption DEF TypeOK, EndLoad
  <2>5. CASE FillImport
    <3>1. Calls(stack')
      BY <2>5, AdvanceCalls, NoCalls DEF FillImport, Ends
    <3>2. QED
      BY <2>5, <3>1, NextCalls DEF TypeOK, FillImport, Ends
  <2>6. CASE StartRun
    <3>1. Calls(stack')
      BY <2>6, TopFrame, ReplaceCalls DEF StartRun
    <3>2. QED
      BY <2>6, <3>1, NextCalls DEF TypeOK, StartRun
  <2>7. CASE UseImport
    <3>1. PICK i \in DOMAIN Imports(Top.module) :
             stack' = Append(stack, Call("check", Imports(Top.module)[i].from))
      BY <2>7 DEF UseImport
    <3>2. Imports(Top.module)[i].from \in Module
      BY <2>7, TopFrame, ImportLists DEF UseImport, InCode, TypeOK, Import
    <3>3. Calls(stack')
      BY <3>1, <3>2, PushCalls DEF TypeOK
    <3>4. QED
      BY <2>7, <3>3, NextCalls DEF TypeOK, UseImport
  <2>8. CASE CheckLoaded
    <3>1. Calls(Replace(Call("read", Top.module))) /\ Top.module \in Module
      BY <2>8, TopFrame, ReplaceCalls DEF CheckLoaded
    <3>2. Calls(stack')
      BY <2>8, <3>1, PushCalls DEF CheckLoaded, TypeOK
    <3>3. QED
      BY <2>8, <3>1, <3>2, NextCalls DEF TypeOK, CheckLoaded
  <2>9. CASE ReadSlot
    BY <2>9, PopCalls, NextCalls DEF TypeOK, ReadSlot
  <2>10. CASE CallFunction
    <3>1. PICK m \in Callable : stack' = Append(stack, Call("call", m))
      BY <2>10 DEF CallFunction
    <3>2. m \in Module
      BY <3>1 DEF Callable, TypeOK
    <3>3. Calls(stack')
      BY <3>1, <3>2, PushCalls DEF TypeOK
    <3>4. QED
      BY <2>10, <3>3, NextCalls DEF TypeOK, CallFunction
  <2>11. CASE Return
    BY <2>11, PopCalls, NextCalls DEF TypeOK, Return
  <2>12. CASE EndRun
    <3>1. Calls(stack')
      BY <2>12, PopCalls, NoCalls DEF EndRun, Ends, TypeOK
    <3>2. QED
      BY <2>12, <3>1, NextCalls, TopFrame DEF TypeOK, EndRun, Ends
  <2>13. CASE Fail
    BY <2>13, NoCalls, NextCalls DEF TypeOK, Fail, Ends
  <2>14. CASE UNCHANGED vars
    BY <2>14 DEF TypeOK, Calls, Imports, vars
  <2>15. QED
    BY <2>1, <2>2, <2>3, <2>4, <2>5, <2>6, <2>7, <2>8, <2>9, <2>10, <2>11, <2>12,
       <2>13, <2>14 DEF Next, Load, Exited
<1>3. QED
  BY <1>1, <1>2, PTL DEF Spec

(***************************************************************************)
(* Waiting.                                                                *)
(***************************************************************************)

(* Loading is over when code runs.                                         *)
LoadsFirst(s) ==
  \A i, j \in DOMAIN s : i < j /\ s[j].at = "load" => s[i].at = "load"

(* Above a module whose statements run, the stack only goes down: calls of *)
(* its layer or below, and everything else strictly below.  This is why a  *)
(* module in execution is never needed further up: NoSelfWait does not say *)
(* enough of the whole stack to be preserved by itself.                    *)
LayersFall(s) ==
  \A i, j \in DOMAIN s : i < j /\ s[i].at = "run" =>
    /\ Layer[s[j].module] <= Layer[s[i].module]
    /\ s[j].at # "call" => Layer[s[j].module] < Layer[s[i].module]

Ordered(s) == LoadsFirst(s) /\ LayersFall(s)

(* What a new call must satisfy for the stack to stay ordered. *)
Fits(s, at, m) ==
  \A i \in DOMAIN s :
    /\ at = "load" => s[i].at = "load"
    /\ s[i].at = "run" => /\ Layer[m] <= Layer[s[i].module]
                          /\ at # "call" => Layer[m] < Layer[s[i].module]

(* A call that fits keeps the stack ordered. *)
LEMMA PushOrdered ==
  ASSUME program \in Programs, NEW s, Calls(s), Ordered(s), NEW m \in Module,
         NEW at \in {"load", "fill", "run", "call", "check", "read"}, Fits(s, at, m)
  PROVE  Ordered(Append(s, Call(at, m)))
<1> DEFINE c == Call(at, m)
           t == Append(s, c)
<1>1. s \in Seq(Frame) /\ Len(s) \in Nat /\ DOMAIN s = 1 .. Len(s)
  BY LenProperties DEF Calls
<1>2. c \in Frame /\ c.module = m /\ c.at = at
  BY CallFrame
<1> HIDE DEF c
<1>3. /\ DOMAIN t = 1 .. Len(s) + 1
      /\ \A i \in 1 .. Len(s) : t[i] = s[i]
      /\ t[Len(s) + 1] = c
  BY <1>1, <1>2, AppendProperties, LenProperties
<1> HIDE DEF t
<1>4. \A i, j \in DOMAIN t : i < j =>
         /\ i \in DOMAIN s /\ t[i] = s[i]
         /\ (j \in DOMAIN s /\ t[j] = s[j]) \/ t[j] = c
  BY <1>1, <1>3
<1>5. Ordered(t)
  BY <1>2, <1>4 DEF Ordered, LoadsFirst, LayersFall, Fits
<1>6. QED
  BY <1>5 DEF t, c

(* A return keeps the stack ordered. *)
LEMMA PopOrdered ==
  ASSUME NEW s, Calls(s), Ordered(s), s # << >>
  PROVE  Ordered(Front(s))
<1>1. s \in Seq(Frame) /\ DOMAIN s = 1 .. Len(s)
  BY LenProperties DEF Calls
<1>2. /\ Front(s) \in Seq(Frame) /\ Len(Front(s)) = Len(s) - 1 /\ Len(s) \in Nat
      /\ \A i \in 1 .. Len(s) - 1 : Front(s)[i] = s[i]
  BY <1>1, FrontLast
<1>3. \A i \in DOMAIN Front(s) : i \in DOMAIN s /\ Front(s)[i] = s[i]
  BY <1>1, <1>2, LenProperties
<1>4. QED
  BY <1>3 DEF Ordered, LoadsFirst, LayersFall

(* What an ordered stack says of the calls under its innermost one. *)
LEMMA UnderTop ==
  ASSUME TypeOK, Ordered(stack), stack # << >>
  PROVE  \A i \in DOMAIN Front(stack) :
           /\ i \in DOMAIN stack /\ i < Len(stack) /\ Front(stack)[i] = stack[i]
           /\ stack[i] \in Frame
           /\ Top.at = "load" => stack[i].at = "load"
           /\ stack[i].at = "run" =>
                /\ Layer[Top.module] <= Layer[stack[i].module]
                /\ Top.at # "call" => Layer[Top.module] < Layer[stack[i].module]
<1>1. /\ stack \in Seq(Frame) /\ Len(stack) \in Nat /\ DOMAIN stack = 1 .. Len(stack)
      /\ Len(stack) >= 1 /\ Top = stack[Len(stack)]
  BY TopFrame
<1>2. /\ Front(stack) \in Seq(Frame) /\ Len(Front(stack)) = Len(stack) - 1
      /\ \A i \in 1 .. Len(stack) - 1 : Front(stack)[i] = stack[i]
  BY <1>1, FrontLast
<1>3. DOMAIN Front(stack) = 1 .. Len(stack) - 1
  BY <1>1, <1>2, LenProperties
<1>4. \A i \in 1 .. Len(stack) - 1 : i \in DOMAIN stack /\ Len(stack) \in DOMAIN stack /\ i < Len(stack)
  BY <1>1
<1>5. QED
  BY <1>1, <1>2, <1>3, <1>4, ElementOfSeq DEF Ordered, LoadsFirst, LayersFall

(* A call replaced by a later stage of the same module's keeps the order. *)
LEMMA ReplaceOrdered ==
  ASSUME TypeOK, Ordered(stack), stack # << >>, Top.at \notin {"load", "call"},
         NEW at \in {"fill", "run", "read"}
  PROVE  Ordered(Replace(Call(at, Top.module)))
<1>1. Fits(Front(stack), at, Top.module)
  BY UnderTop DEF Fits
<1>2. Calls(Front(stack)) /\ Ordered(Front(stack)) /\ Top.module \in Module
  BY PopCalls, PopOrdered, TopFrame DEF TypeOK
<1>3. QED
  BY <1>1, <1>2, PushOrdered DEF TypeOK, Replace

(* Moving on to the next import keeps the order. *)
LEMMA AdvanceOrdered ==
  ASSUME TypeOK, Ordered(stack), stack # << >>, MoreImports
  PROVE  Ordered(Advance)
<1>1. Calls(Advance) /\ Len(Advance) = Len(stack) /\ Len(stack) \in Nat
      /\ DOMAIN stack = 1 .. Len(stack)
      /\ \A i \in 1 .. Len(stack) : /\ Advance[i].at = stack[i].at
                                    /\ Advance[i].module = stack[i].module
  BY AdvanceCalls, TopFrame
<1>2. DOMAIN Advance = DOMAIN stack
  BY <1>1, LenProperties DEF Calls
<1>3. QED
  BY <1>1, <1>2 DEF Ordered, LoadsFirst, LayersFall

(* The code on top is in the layer of every module in execution or below. *)
LEMMA TopIsLowest ==
  ASSUME TypeOK, Ordered(stack), stack # << >>
  PROVE  \A i \in DOMAIN stack :
           /\ stack[i].module \in Module
           /\ Layer[Top.module] \in Nat /\ Layer[stack[i].module] \in Nat
           /\ Top.at = "load" => stack[i].at = "load"
           /\ stack[i].at = "run" => Layer[Top.module] <= Layer[stack[i].module]
<1>1. /\ stack \in Seq(Frame) /\ Len(stack) \in Nat /\ DOMAIN stack = 1 .. Len(stack)
      /\ Len(stack) >= 1 /\ Top = stack[Len(stack)] /\ Top.module \in Module
  BY TopFrame
<1>2. \A i \in DOMAIN stack : stack[i] \in Frame
  BY <1>1, ElementOfSeq
<1>3. \A i \in DOMAIN stack : stack[i].module \in Module
  BY <1>2 DEF Frame
<1>4. \A i \in DOMAIN stack : i = Len(stack) \/ i < Len(stack)
  BY <1>1
<1>5. QED
  BY <1>1, <1>3, <1>4, LayerAssumption DEF Ordered, LoadsFirst, LayersFall

(* The inductive invariant.  The last conjunct says where loading begins.  *)
WaitInv ==
  /\ TypeOK
  /\ Layered(program) => Ordered(stack)
  /\ outcome = "starting" => stack = << >>

(* An empty stack is ordered. *)
LEMMA NoCallsOrdered == Ordered(<< >>)
BY EmptySeq, LenProperties DEF Ordered, LoadsFirst, LayersFall

(* The files do not change. *)
LEMMA ProgramStays ==
  ASSUME [Next]_vars
  PROVE  program' = program
<1>1. CASE LoadMain \/ LoadImport
  BY <1>1 DEF LoadMain, LoadImport, ParseModule
<1>2. CASE CheckImport \/ EndLoad
  BY <1>2 DEF CheckImport, EndLoad
<1>3. CASE FillImport \/ StartRun
  BY <1>3 DEF FillImport, StartRun
<1>4. CASE UseImport \/ CheckLoaded \/ ReadSlot
  BY <1>4 DEF UseImport, CheckLoaded, ReadSlot
<1>5. CASE CallFunction \/ Return \/ EndRun \/ Fail
  BY <1>5 DEF CallFunction, Return, EndRun, Fail
<1>6. CASE UNCHANGED vars
  BY <1>6 DEF vars
<1>7. QED
  BY <1>1, <1>2, <1>3, <1>4, <1>5, <1>6 DEF Next, Load, Exited

(* Nothing is called before loading begins. *)
LEMMA StartIsEmpty ==
  ASSUME outcome = "starting" => stack = << >>, [Next]_vars
  PROVE  outcome' = "starting" => stack' = << >>
<1>1. CASE LoadMain
  BY <1>1 DEF LoadMain, ParseModule, Ends
<1>2. CASE LoadImport
  BY <1>2 DEF LoadImport, ParseModule, Ends, AtTop
<1>3. CASE CheckImport \/ EndLoad
  BY <1>3 DEF CheckImport, EndLoad, Ends, AtTop
<1>4. CASE FillImport \/ StartRun
  BY <1>4 DEF FillImport, StartRun, Ends, AtTop
<1>5. CASE UseImport \/ CheckLoaded \/ ReadSlot
  BY <1>5 DEF UseImport, InCode, CheckLoaded, ReadSlot, AtTop
<1>6. CASE CallFunction \/ Return \/ EndRun \/ Fail
  BY <1>6 DEF CallFunction, InCode, Return, EndRun, Fail, Ends, AtTop
<1>7. CASE UNCHANGED vars
  BY <1>7 DEF vars
<1>8. QED
  BY <1>1, <1>2, <1>3, <1>4, <1>5, <1>6, <1>7 DEF Next, Load, Exited

(* In a layered program a module has nothing behind it that is above it.   *)
LEMMA BehindIsBelow ==
  ASSUME program \in Programs, Layered(program), NEW k \in Module, NEW m \in Behind(k)
  PROVE  Layer[m] <= Layer[k]
<1> DEFINE low == {n \in Module : Layer[n] <= Layer[k]}
<1>1. k \in low
  BY LayerAssumption
<1>2. ASSUME NEW n \in low, NEW i \in DOMAIN Imports(n)
      PROVE  Imports(n)[i].from \in low
  <2>1. n \in Module /\ Layer[n] <= Layer[k]
    BY <1>2
  <2>2. Imports(n)[i].from \in Module
    BY <1>2, <2>1, ImportLists DEF Import
  <2>3. Layer[Imports(n)[i].from] < Layer[n]
    BY <1>2, <2>1 DEF Layered, Imports
  <2>4. Layer[n] \in Nat /\ Layer[k] \in Nat /\ Layer[Imports(n)[i].from] \in Nat
    BY <2>1, <2>2, LayerAssumption
  <2>5. QED
    BY <2>1, <2>2, <2>3, <2>4
<1>3. low \in SUBSET Module
  OBVIOUS
<1> HIDE DEF low
<1>4. m \in low
  BY <1>1, <1>2, <1>3 DEF Behind
<1>5. QED
  BY <1>4 DEF low

(* Programs without cycles whose functions do not escape keep the order. *)
LEMMA OrderKept ==
  ASSUME Layered(program), WaitInv, [Next]_vars
  PROVE  Ordered(stack')
<1> USE DEF AtTop
<1>0. program \in Programs /\ Layered(program) /\ TypeOK /\ Ordered(stack) /\ Calls(stack)
  BY DEF WaitInv, TypeOK
<1>1. ASSUME NEW m \in Module, ParseModule(m), stack = << >> \/ AtTop("load")
      PROVE  Ordered(stack')
  <2>1. Fits(stack, "load", m)
    <3>1. CASE stack = << >>
      BY <3>1, LenProperties, EmptySeq DEF Fits
    <3>2. CASE AtTop("load")
      BY <1>0, <3>2, TopIsLowest DEF Fits
    <3>3. QED
      BY <1>1, <3>1, <3>2
  <2>2. Ordered(Append(stack, Call("load", m)))
    BY <1>0, <2>1, PushOrdered
  <2>3. QED
    BY <1>1, <2>2, NoCallsOrdered DEF ParseModule, Ends
<1>2. CASE LoadMain
  BY <1>1, <1>2, MainAssumption DEF LoadMain, WaitInv
<1>3. CASE LoadImport
  BY <1>0, <1>1, <1>3, TopFrame DEF LoadImport
<1>4. CASE CheckImport
  BY <1>0, <1>4, AdvanceOrdered, NoCallsOrdered DEF CheckImport, Ends, WaitInv
<1>5. CASE EndLoad
  <2>1. Ordered(<<Call("fill", Main)>>)
    <3>1. Fits(<< >>, "fill", Main)
      BY EmptySeq, LenProperties DEF Fits
    <3>2. Ordered(Append(<< >>, Call("fill", Main)))
      BY <1>0, <3>1, NoCalls, NoCallsOrdered, MainAssumption, PushOrdered
    <3>3. QED
      BY <3>2
  <2>2. Ordered(stack')
    BY <1>0, <1>5, <2>1, PopOrdered DEF EndLoad
  <2>3. QED
    BY <1>5, <2>2 DEF EndLoad, WaitInv
<1>6. CASE FillImport
  BY <1>0, <1>6, AdvanceOrdered, NoCallsOrdered DEF FillImport, Ends, WaitInv
<1>7. CASE StartRun
  <2>1. Ordered(Replace(Call("run", Top.module)))
    BY <1>0, <1>7, ReplaceOrdered DEF StartRun
  <2>2. QED
    BY <1>7, <2>1 DEF StartRun, WaitInv
<1>8. CASE UseImport
  <2>1. PICK i \in DOMAIN Imports(Top.module) :
           stack' = Append(stack, Call("check", Imports(Top.module)[i].from))
    BY <1>8 DEF UseImport
  <2> DEFINE m == Imports(Top.module)[i].from
  <2>2. stack # << >> /\ Top.module \in Module /\ m \in Module
    BY <1>0, <1>8, TopFrame, ImportLists DEF UseImport, InCode, Import
  <2>3. Layer[m] < Layer[Top.module]
    BY <1>0, <2>2 DEF Layered, Imports
  <2>4. Layer[m] \in Nat
    BY <2>2, LayerAssumption
  <2> HIDE DEF m
  <2>5. Fits(stack, "check", m)
    BY <1>0, <2>2, <2>3, <2>4, TopIsLowest DEF Fits
  <2>6. Ordered(Append(stack, Call("check", m)))
    BY <1>0, <2>2, <2>5, PushOrdered
  <2>7. QED
    BY <1>8, <2>1, <2>2, <2>6 DEF UseImport, WaitInv, m
<1>9. CASE CheckLoaded
  <2> DEFINE m == Top.module
             t == Replace(Call("read", m))
  <2>1. stack # << >> /\ m \in Module /\ Top.at = "check"
    BY <1>0, <1>9, TopFrame DEF CheckLoaded
  <2>2. Calls(t) /\ Ordered(t)
    BY <1>0, <2>1, ReplaceCalls, ReplaceOrdered
  <2>3. Fits(t, "fill", m)
    <3>1. Front(stack) \in Seq(Frame) /\ Calls(Front(stack))
      BY <1>0, <2>1, PopCalls DEF Calls
    <3>2. t = Append(Front(stack), Call("read", m)) /\ Call("read", m) \in Frame
          /\ Call("read", m).at = "read"
      BY <1>0, <2>1, CallFrame DEF Replace
    <3>3. \A i \in DOMAIN t : \/ i \in DOMAIN Front(stack) /\ t[i] = Front(stack)[i]
                              \/ t[i].at = "read"
      <4> HIDE DEF t, m
      <4>1. /\ Len(Front(stack)) \in Nat
            /\ DOMAIN Front(stack) = 1 .. Len(Front(stack))
            /\ DOMAIN t = 1 .. Len(Front(stack)) + 1
            /\ \A i \in 1 .. Len(Front(stack)) : t[i] = Front(stack)[i]
            /\ t[Len(Front(stack)) + 1] = Call("read", m)
        BY <3>1, <3>2, AppendProperties, LenProperties
      <4>2. \A i \in DOMAIN t : i \in 1 .. Len(Front(stack)) \/ i = Len(Front(stack)) + 1
        BY <4>1
      <4>3. QED
        BY <3>2, <4>1, <4>2
    <3> HIDE DEF t
    <3>4. QED
      BY <1>0, <2>1, <3>3, UnderTop DEF Fits
  <2>4. Ordered(Append(t, Call("fill", m)))
    BY <1>0, <2>1, <2>2, <2>3, PushOrdered
  <2>5. QED
    BY <1>9, <2>1, <2>2, <2>4 DEF CheckLoaded, WaitInv
<1>10. CASE ReadSlot
  BY <1>0, <1>10, PopOrdered DEF ReadSlot, WaitInv
<1>11. CASE CallFunction
  <2>1. PICK m \in Callable : stack' = Append(stack, Call("call", m))
    BY <1>11 DEF CallFunction
  <2>2. stack # << >> /\ m \in Module /\ Layer[m] \in Nat
    BY <1>0, <1>11, <2>1, LayerAssumption DEF CallFunction, InCode, Callable, TypeOK
  <2>3. Fits(stack, "call", m)
    <3>1. PICK i \in DOMAIN stack : InnermostRun(i) /\ m \in Behind(stack[i].module)
      BY <1>0, <2>1 DEF Callable, Layered
    <3>2. stack[i].at = "run" /\ stack[i].module \in Module /\ Layer[stack[i].module] \in Nat
      BY <1>0, <2>2, <3>1, TopIsLowest DEF InnermostRun
    <3>3. Layer[m] <= Layer[stack[i].module]
      BY <1>0, <3>1, <3>2, BehindIsBelow
    <3>4. \A j \in DOMAIN stack : stack[j].at = "run" => j = i \/ j < i
      <4>1. DOMAIN stack \subseteq Nat
        BY <1>0, <2>2, TopFrame
      <4>2. QED
        BY <3>1, <4>1 DEF InnermostRun
    <3>5. \A j \in DOMAIN stack : stack[j].at = "run" =>
             Layer[stack[i].module] <= Layer[stack[j].module] /\ Layer[stack[j].module] \in Nat
      BY <1>0, <2>2, <3>2, <3>4, TopIsLowest DEF Ordered, LayersFall
    <3>6. \A j \in DOMAIN stack : stack[j].at = "run" => Layer[m] <= Layer[stack[j].module]
      BY <2>2, <3>2, <3>3, <3>5
    <3>7. QED
      BY <3>6 DEF Fits
  <2>4. Ordered(Append(stack, Call("call", m)))
    BY <1>0, <2>2, <2>3, PushOrdered
  <2>5. QED
    BY <1>11, <2>1, <2>2, <2>4 DEF CallFunction, WaitInv
<1>12. CASE Return
  BY <1>0, <1>12, PopOrdered DEF Return, WaitInv
<1>13. CASE EndRun
  BY <1>0, <1>13, PopOrdered, NoCallsOrdered DEF EndRun, Ends, WaitInv
<1>14. CASE Fail
  BY <1>14, NoCallsOrdered DEF Fail, Ends
<1>15. CASE UNCHANGED vars
  BY <1>0, <1>15 DEF vars, WaitInv
<1>16. QED
  BY <1>2, <1>3, <1>4, <1>5, <1>6, <1>7, <1>8, <1>9, <1>10, <1>11, <1>12, <1>13,
     <1>14, <1>15 DEF Next, Load, Exited

(* Where the stack is ordered, what the innermost call acquires is strictly *)
(* below every module in execution.                                         *)
LEMMA OrderedNeverWaits ==
  ASSUME Layered(program), WaitInv
  PROVE  ~Waits
<1>0. program \in Programs /\ Layered(program) /\ TypeOK /\ Ordered(stack)
  BY DEF WaitInv, TypeOK
<1>1. ASSUME stack # << >>, Top.at \in {"check", "read", "fill"}
      PROVE  \A m \in Held : Layer[Top.module] < Layer[m]
  <2>1. \A i \in DOMAIN stack : i = Len(stack) \/ i \in DOMAIN Front(stack)
    <3>1. /\ stack \in Seq(Frame) /\ Len(stack) \in Nat /\ DOMAIN stack = 1 .. Len(stack)
      BY <1>0, <1>1, TopFrame
    <3>2. Front(stack) \in Seq(Frame) /\ Len(Front(stack)) = Len(stack) - 1
      BY <1>1, <3>1, FrontLast
    <3>3. DOMAIN Front(stack) = 1 .. Len(stack) - 1
      BY <3>1, <3>2, LenProperties
    <3>4. QED
      BY <3>1, <3>3
  <2>2. stack[Len(stack)].at # "run"
    BY <1>0, <1>1, TopFrame
  <2>3. QED
    BY <1>0, <1>1, <2>1, <2>2, UnderTop DEF Held
<1>2. ASSUME stack # << >>, MoreImports
      PROVE  /\ Layer[Current.from] < Layer[Top.module]
             /\ Layer[Current.from] \in Nat /\ Layer[Top.module] \in Nat
  BY <1>0, <1>2, TopFrame, LayerAssumption DEF Layered, Current, MoreImports, Imports
<1>3. \A m \in Held : Layer[m] \in Nat
  <2>1. \A i \in DOMAIN stack : stack[i] \in Frame
    BY <1>0, ElementOfSeq, LenProperties DEF TypeOK, Calls
  <2>2. QED
    BY <2>1, LayerAssumption DEF Held, Frame
<1>4. ~SelfImport
  BY <1>2 DEF SelfImport, AtTop
<1>5. ASSUME NEW m \in Acquires, m \in Held
      PROVE  FALSE
  <2>1. stack # << >>
    BY <1>5 DEF Acquires
  <2>2. Layer[Top.module] \in Nat
    BY <1>0, <2>1, TopFrame, LayerAssumption
  <2>3. CASE Top.at \in {"check", "read"}
    BY <1>1, <1>3, <1>5, <2>1, <2>2, <2>3 DEF Acquires
  <2>4. CASE Top.at = "fill" /\ MoreImports /\ Current.names # {}
    <3>1. m = Top.module \/ m = Current.from
      BY <1>5, <2>1, <2>4 DEF Acquires
    <3>2. QED
      BY <1>1, <1>2, <1>3, <1>5, <2>1, <2>2, <2>4, <3>1
  <2>5. QED
    BY <1>5, <2>1, <2>3, <2>4 DEF Acquires
<1>6. QED
  BY <1>4, <1>5 DEF Waits

(* A program without import cycles whose functions do not escape never     *)
(* hangs on a module's mutex, however deep its calls go: neither callbacks *)
(* nor imports executed in the middle of a call can need a module whose    *)
(* statements are still running.                                           *)
THEOREM LayeredNeverWaits == Spec => []NoSelfWait
<1>1. Init => WaitInv
  BY NoCalls, NoCallsOrdered DEF Init, WaitInv, TypeOK
<1>2. TypeOK /\ TypeOK' /\ WaitInv /\ [Next]_vars => WaitInv'
  <2>1. SUFFICES ASSUME TypeOK, TypeOK', WaitInv, [Next]_vars
                 PROVE  WaitInv'
    OBVIOUS
  <2>2. program' = program
    BY <2>1, ProgramStays
  <2>3. Layered(program)' => Layered(program)
    BY <2>2 DEF Layered
  <2>4. Layered(program) => Ordered(stack')
    BY <2>1, OrderKept
  <2>5. outcome' = "starting" => stack' = << >>
    BY <2>1, StartIsEmpty DEF WaitInv
  <2>6. QED
    BY <2>1, <2>3, <2>4, <2>5 DEF WaitInv, Ordered, LoadsFirst, LayersFall
<1>3. WaitInv => NoSelfWait
  BY OrderedNeverWaits DEF NoSelfWait
<1>4. Spec => []TypeOK
  BY TypeCorrect
<1>5. QED
  BY <1>1, <1>2, <1>3, <1>4, PTL DEF Spec

(***************************************************************************)
(* The steps of the call stack, call by call.                              *)
(***************************************************************************)

(* A new call goes on top of the others. *)
LEMMA PushShape ==
  ASSUME program \in Programs, NEW s, Calls(s), NEW m \in Module,
         NEW at \in {"load", "fill", "run", "call", "check", "read"},
         NEW t, t = Append(s, Call(at, m))
  PROVE  /\ Len(s) \in Nat /\ DOMAIN s = 1 .. Len(s)
         /\ t # << >> /\ Len(t) = Len(s) + 1 /\ DOMAIN t = 1 .. Len(s) + 1
         /\ \A i \in 1 .. Len(s) : t[i] = s[i]
         /\ t[Len(s) + 1].at = at /\ t[Len(s) + 1].module = m /\ t[Len(s) + 1].next = 1
<1> DEFINE c == Call(at, m)
<1>1. s \in Seq(Frame) /\ Len(s) \in Nat /\ DOMAIN s = 1 .. Len(s)
  BY LenProperties DEF Calls
<1>2. c \in Frame /\ c.module = m /\ c.at = at /\ c.next = 1
  BY CallFrame DEF Call
<1> HIDE DEF c
<1>3. /\ t \in Seq(Frame) /\ Len(t) = Len(s) + 1 /\ DOMAIN t = 1 .. Len(s) + 1
      /\ \A i \in 1 .. Len(s) : t[i] = s[i]
      /\ t[Len(s) + 1] = c
  <2>1. t = Append(s, c)
    BY DEF c
  <2>2. QED
    BY <1>1, <1>2, <2>1, AppendProperties, LenProperties
<1>4. t # << >>
  BY <1>1, <1>3, EmptySeq
<1>5. QED
  BY <1>1, <1>2, <1>3, <1>4

(* The innermost call returns to the others. *)
LEMMA PopShape ==
  ASSUME NEW s, Calls(s), s # << >>, NEW t, t = Front(s)
  PROVE  /\ Len(s) \in Nat /\ Len(s) >= 1 /\ DOMAIN s = 1 .. Len(s)
         /\ Len(t) = Len(s) - 1 /\ DOMAIN t = 1 .. Len(s) - 1
         /\ \A i \in 1 .. Len(s) - 1 : t[i] = s[i]
         /\ Len(s) > 1 => t # << >>
<1>1. s \in Seq(Frame) /\ DOMAIN s = 1 .. Len(s)
  BY LenProperties DEF Calls
<1>2. /\ t \in Seq(Frame) /\ Len(t) = Len(s) - 1 /\ Len(s) \in Nat /\ Len(s) >= 1
      /\ \A i \in 1 .. Len(s) - 1 : t[i] = s[i]
  BY <1>1, FrontLast
<1>3. DOMAIN t = 1 .. Len(s) - 1
  BY <1>2, LenProperties
<1>4. QED
  BY <1>1, <1>2, <1>3, EmptySeq

(* The innermost call becomes another. *)
LEMMA ReplaceShape ==
  ASSUME TypeOK, stack # << >>, NEW m \in Module,
         NEW at \in {"load", "fill", "run", "call", "check", "read"},
         NEW t, t = Replace(Call(at, m))
  PROVE  /\ Len(stack) \in Nat /\ Len(stack) >= 1 /\ DOMAIN stack = 1 .. Len(stack)
         /\ t # << >> /\ Len(t) = Len(stack) /\ DOMAIN t = 1 .. Len(stack)
         /\ \A i \in 1 .. Len(stack) - 1 : t[i] = stack[i]
         /\ t[Len(stack)].at = at /\ t[Len(stack)].module = m /\ t[Len(stack)].next = 1
<1>1. program \in Programs /\ Calls(stack)
  BY DEF TypeOK
<1>2. /\ Len(stack) \in Nat /\ Len(stack) >= 1 /\ DOMAIN stack = 1 .. Len(stack)
      /\ Len(Front(stack)) = Len(stack) - 1
      /\ \A i \in 1 .. Len(stack) - 1 : Front(stack)[i] = stack[i]
  BY <1>1, PopShape
<1>3. Calls(Front(stack)) /\ t = Append(Front(stack), Call(at, m))
  BY <1>1, PopCalls DEF Replace
<1>4. /\ t # << >> /\ Len(t) = Len(Front(stack)) + 1
      /\ DOMAIN t = 1 .. Len(Front(stack)) + 1
      /\ \A i \in 1 .. Len(Front(stack)) : t[i] = Front(stack)[i]
      /\ t[Len(Front(stack)) + 1].at = at
      /\ t[Len(Front(stack)) + 1].module = m
      /\ t[Len(Front(stack)) + 1].next = 1
  BY <1>1, <1>3, PushShape
<1>5. QED
  BY <1>2, <1>4

(* The innermost call moves on to its next import. *)
LEMMA AdvanceShape ==
  ASSUME TypeOK, stack # << >>, MoreImports, NEW t, t = Advance
  PROVE  /\ Len(stack) \in Nat /\ Len(stack) >= 1 /\ DOMAIN stack = 1 .. Len(stack)
         /\ t # << >> /\ Len(t) = Len(stack) /\ DOMAIN t = 1 .. Len(stack)
         /\ \A i \in 1 .. Len(stack) : /\ t[i].at = stack[i].at
                                       /\ t[i].module = stack[i].module
         /\ \A i \in 1 .. Len(stack) - 1 : t[i] = stack[i]
         /\ t[Len(stack)].next = Top.next + 1
<1>1. /\ stack \in Seq(Frame) /\ Len(stack) \in Nat /\ Len(stack) >= 1
      /\ DOMAIN stack = 1 .. Len(stack)
      /\ Top = stack[Len(stack)] /\ Top \in Frame
  BY TopFrame
<1>2. /\ Calls(t) /\ Len(t) = Len(stack)
      /\ \A i \in 1 .. Len(stack) : /\ t[i].at = stack[i].at
                                    /\ t[i].module = stack[i].module
  BY AdvanceCalls
<1>3. DOMAIN t = 1 .. Len(t) /\ t # << >>
  BY <1>1, <1>2, LenProperties, EmptySeq DEF Calls
<1>4. /\ \A i \in 1 .. Len(stack) - 1 : t[i] = stack[i]
      /\ t[Len(stack)].next = Top.next + 1
  BY <1>1 DEF Advance, Frame
<1>5. QED
  BY <1>1, <1>2, <1>3, <1>4

(***************************************************************************)
(* Execution.                                                              *)
(***************************************************************************)

(* The calls of a process that executes: at the bottom the main module,    *)
(* nowhere a load, and only modules with a context are further than asked  *)
(* for.                                                                    *)
Running(s, started) ==
  /\ s # << >> /\ s[1].at \in {"fill", "run"}
  /\ \A i \in DOMAIN s :
       /\ s[i].at # "load"
       /\ s[i].at \in {"fill", "run", "read"} => s[i].module \in started

(* What the process does, and what its stack then consists of.             *)
Phases ==
  /\ outcome = "starting" \/ Over => stack = << >>
  /\ outcome \in {"starting", "loading"} => context = {}
  /\ outcome = "loading" => stack # << >> /\ \A i \in DOMAIN stack : stack[i].at = "load"
  /\ outcome = "running" => context # {} /\ Running(stack, context)
  /\ finished \subseteq context

(* A process that executes makes another call.                             *)
LEMMA PushRunning ==
  ASSUME program \in Programs, NEW s, Calls(s), NEW m \in Module,
         NEW at \in {"fill", "run", "call", "check", "read"},
         NEW started, NEW more, started \subseteq more,
         at \in {"fill", "run", "read"} => m \in more, Running(s, started),
         NEW t, t = Append(s, Call(at, m))
  PROVE  Running(t, more)
<1>1. /\ Len(s) \in Nat /\ DOMAIN s = 1 .. Len(s) /\ t # << >>
      /\ DOMAIN t = 1 .. Len(s) + 1
      /\ \A i \in 1 .. Len(s) : t[i] = s[i]
      /\ t[Len(s) + 1].at = at /\ t[Len(s) + 1].module = m
  BY PushShape
<1>2. 1 \in 1 .. Len(s)
  <2>1. s \in Seq(Frame) /\ s # << >>
    BY DEF Calls, Running
  <2>2. QED
    BY <2>1, FrontLast
<1>3. QED
  BY <1>1, <1>2 DEF Running

(* The innermost call of a process that executes goes on.                  *)
LEMMA ReplaceRunning ==
  ASSUME TypeOK, Running(stack, context), NEW m \in context,
         NEW at \in {"fill", "run", "read"},
         at \in {"fill", "run"} \/ Top.at \notin {"fill", "run"}
  PROVE  Running(Replace(Call(at, m)), context)
<1>1. stack # << >> /\ m \in Module
  BY DEF Running, TypeOK
<1> DEFINE t == Replace(Call(at, m))
<1>2. /\ Len(stack) \in Nat /\ Len(stack) >= 1 /\ DOMAIN stack = 1 .. Len(stack)
      /\ t # << >> /\ DOMAIN t = 1 .. Len(stack)
      /\ \A i \in 1 .. Len(stack) - 1 : t[i] = stack[i]
      /\ t[Len(stack)].at = at /\ t[Len(stack)].module = m
  BY <1>1, ReplaceShape
<1>3. Top = stack[Len(stack)]
  BY <1>1, TopFrame
<1> HIDE DEF t
<1>4. Running(t, context)
  BY <1>2, <1>3 DEF Running
<1>5. QED
  BY <1>4 DEF t

(* A call of a process that executes returns.                              *)
LEMMA PopRunning ==
  ASSUME TypeOK, Running(stack, context),
         Len(stack) > 1 \/ Top.at \notin {"fill", "run"}
  PROVE  Running(Front(stack), context)
<1>1. stack # << >>
  BY DEF Running
<1>2. /\ Len(stack) \in Nat /\ Len(stack) >= 1 /\ DOMAIN stack = 1 .. Len(stack)
      /\ DOMAIN Front(stack) = 1 .. Len(stack) - 1
      /\ \A i \in 1 .. Len(stack) - 1 : Front(stack)[i] = stack[i]
      /\ Len(stack) > 1 => Front(stack) # << >>
  BY <1>1, PopShape DEF TypeOK
<1>3. Top = stack[Len(stack)]
  BY <1>1, TopFrame
<1>4. Len(stack) > 1
  BY <1>2, <1>3 DEF Running
<1>5. QED
  BY <1>2, <1>4 DEF Running

(* The innermost call of a process that executes is at its next import.    *)
LEMMA AdvanceRunning ==
  ASSUME TypeOK, Running(stack, context), MoreImports
  PROVE  Running(Advance, context)
<1>1. stack # << >>
  BY DEF Running
<1>2. /\ Len(stack) \in Nat /\ Len(stack) >= 1 /\ DOMAIN stack = 1 .. Len(stack)
      /\ Advance # << >> /\ DOMAIN Advance = 1 .. Len(stack)
      /\ \A i \in 1 .. Len(stack) : /\ Advance[i].at = stack[i].at
                                    /\ Advance[i].module = stack[i].module
  BY <1>1, AdvanceShape
<1>3. QED
  BY <1>2 DEF Running

(* An error ends the process in any phase. *)
LEMMA EndPhases ==
  ASSUME Phases, NEW how \in {"done", "load error", "runtime error"}, Ends(how),
         context' = context, finished' \subseteq context
  PROVE  Phases'
BY DEF Phases, Ends, Over

(* A process that executes goes on executing.                              *)
LEMMA RunPhases ==
  ASSUME Phases, outcome = "running", outcome' = outcome, context \subseteq context',
         finished' \subseteq context', Running(stack', context')
  PROVE  Phases'
<1>1. context' # {}
  BY DEF Phases
<1>2. QED
  BY <1>1 DEF Phases, Running, Over

(* A call on the stack means that the process is in one of two phases. *)
LEMMA Alive ==
  ASSUME TypeOK, Phases, stack # << >>
  PROVE  /\ outcome \in {"loading", "running"}
         /\ Top.at = "load" <=> outcome = "loading"
         /\ Top.at # "load" => Running(stack, context)
         /\ Top.at \in {"fill", "run", "read"} => Top.module \in context
<1>1. outcome \in {"loading", "running"}
  BY DEF TypeOK, Phases, Over
<1>2. Len(stack) \in DOMAIN stack /\ Top = stack[Len(stack)]
  BY TopFrame
<1>3. QED
  BY <1>1, <1>2 DEF Phases, Running

(* The phases follow each other. *)
LEMMA PhasesKept ==
  ASSUME TypeOK, Phases, [Next]_vars
  PROVE  Phases'
<1> USE DEF AtTop
<1>0. program \in Programs /\ Calls(stack)
  BY DEF TypeOK
<1>1. ASSUME NEW m \in Module, ParseModule(m), stack = << >> \/ outcome = "loading",
             outcome \in {"starting", "loading"}
      PROVE  Phases'
  <2>1. CASE m \in program.readable
    <3>1. /\ stack' = Append(stack, Call("load", m)) /\ outcome' = "loading"
          /\ context' = context /\ finished' = finished
      BY <1>1, <2>1 DEF ParseModule
    <3>2. /\ stack' # << >>
          /\ \A i \in DOMAIN stack' : stack'[i].at = "load"
      <4>1. \A i \in DOMAIN stack : stack[i].at = "load"
        BY <1>1, EmptySeq, LenProperties DEF Phases
      <4>2. /\ Len(stack) \in Nat /\ DOMAIN stack = 1 .. Len(stack) /\ stack' # << >>
            /\ DOMAIN stack' = 1 .. Len(stack) + 1
            /\ \A i \in 1 .. Len(stack) : stack'[i] = stack[i]
            /\ stack'[Len(stack) + 1].at = "load"
        BY <1>0, <3>1, PushShape
      <4>3. QED
        BY <4>1, <4>2
    <3>3. QED
      BY <1>1, <3>1, <3>2 DEF Phases, Over
  <2>2. CASE m \notin program.readable
    BY <1>1, <2>2, EndPhases DEF ParseModule, Phases
  <2>3. QED
    BY <2>1, <2>2
<1>2. CASE LoadMain
  BY <1>1, <1>2, MainAssumption DEF LoadMain, Phases
<1>3. CASE LoadImport
  BY <1>1, <1>3, TopFrame, Alive DEF LoadImport
<1>4. CASE CheckImport
  <2>1. CASE stack' = Advance /\ UNCHANGED outcome
    <3>1. /\ stack' # << >> /\ DOMAIN stack' = DOMAIN stack
          /\ \A i \in DOMAIN stack : stack'[i].at = stack[i].at
      BY <1>4, <2>1, AdvanceShape DEF CheckImport
    <3>2. outcome = "loading" /\ context' = context /\ finished' = finished
      BY <1>4, Alive DEF CheckImport
    <3>3. QED
      BY <2>1, <3>1, <3>2 DEF Phases, Over
  <2>2. CASE Ends("load error")
    BY <1>4, <2>2, EndPhases DEF CheckImport, Phases
  <2>3. QED
    BY <1>4, <2>1, <2>2 DEF CheckImport
<1>5. CASE EndLoad
  <2>1. outcome = "loading" /\ finished' = finished /\ finished = {} /\ context = {}
    BY <1>5, Alive DEF EndLoad, Phases
  <2>2. CASE Len(stack) > 1
    <3>1. stack' = Front(stack) /\ context' = context /\ outcome' = outcome
      BY <1>5, <2>2 DEF EndLoad
    <3>2. /\ Len(stack) \in Nat /\ DOMAIN stack = 1 .. Len(stack) /\ stack' # << >>
          /\ DOMAIN stack' = 1 .. Len(stack) - 1
          /\ \A i \in 1 .. Len(stack) - 1 : stack'[i] = stack[i]
      BY <1>0, <1>5, <2>2, <3>1, PopShape DEF EndLoad
    <3>3. \A i \in DOMAIN stack' : stack'[i].at = "load"
      BY <2>1, <3>2 DEF Phases
    <3>4. QED
      BY <2>1, <3>1, <3>2, <3>3 DEF Phases, Over
  <2>3. CASE ~(Len(stack) > 1)
    <3>1. /\ stack' = <<Call("fill", Main)>> /\ outcome' = "running"
          /\ context' = context \cup {Main}
      BY <1>5, <2>3 DEF EndLoad
    <3>2. Running(stack', context')
      BY <3>1 DEF Call, Running
    <3>3. QED
      BY <2>1, <3>1, <3>2 DEF Phases, Running, Over
  <2>4. QED
    BY <2>2, <2>3
<1>6. CASE FillImport
  <2>1. CASE stack' = Advance /\ UNCHANGED outcome
    <3>1. /\ stack # << >> /\ outcome = "running" /\ context' = context
          /\ finished' = finished /\ Running(stack, context) /\ MoreImports
      BY <1>6, Alive DEF FillImport
    <3>2. Running(stack', context')
      BY <2>1, <3>1, AdvanceRunning
    <3>3. QED
      BY <2>1, <3>1, <3>2, RunPhases DEF Phases
  <2>2. CASE Ends("load error")
    BY <1>6, <2>2, EndPhases DEF FillImport, Phases
  <2>3. QED
    BY <1>6, <2>1, <2>2 DEF FillImport
<1>7. CASE StartRun
  <2>1. outcome = "running" /\ Running(stack, context) /\ Top.module \in context
    BY <1>7, Alive DEF StartRun
  <2>2. Running(Replace(Call("run", Top.module)), context)
    BY <2>1, ReplaceRunning
  <2>3. QED
    BY <1>7, <2>1, <2>2, RunPhases DEF StartRun, Phases
<1>8. CASE UseImport
  <2>1. PICK i \in DOMAIN Imports(Top.module) :
           stack' = Append(stack, Call("check", Imports(Top.module)[i].from))
    BY <1>8 DEF UseImport
  <2>2. outcome = "running" /\ Running(stack, context) /\ stack # << >>
    BY <1>8, Alive DEF UseImport, InCode
  <2>3. Imports(Top.module)[i].from \in Module
    BY <1>0, <2>2, TopFrame, ImportLists DEF Import
  <2>4. Running(stack', context)
    BY <1>0, <2>1, <2>2, <2>3, PushRunning
  <2>5. QED
    BY <1>8, <2>2, <2>4, RunPhases DEF UseImport, Phases
<1>9. CASE CheckLoaded
  <2>1. /\ stack # << >> /\ outcome = "running" /\ Running(stack, context)
        /\ Top.at = "check" /\ Top.module \in Module
        /\ finished' = finished /\ finished \subseteq context /\ outcome' = outcome
    BY <1>9, Alive, TopFrame DEF CheckLoaded, Phases
  <2>2. CASE Top.module \in context
    <3>1. Running(Replace(Call("read", Top.module)), context)
      BY <2>1, <2>2, ReplaceRunning
    <3>2. QED
      BY <1>9, <2>1, <2>2, <3>1, RunPhases DEF CheckLoaded
  <2>3. CASE Top.module \notin context
    <3> DEFINE t == Replace(Call("read", Top.module))
    <3>1. /\ stack' = Append(t, Call("fill", Top.module))
          /\ context' = context \cup {Top.module}
      BY <1>9, <2>3 DEF CheckLoaded
    <3>2. Calls(t)
      BY <2>1, ReplaceCalls
    <3>3. Running(t, context')
      <4>1. /\ Len(stack) \in Nat /\ Len(stack) >= 1 /\ DOMAIN stack = 1 .. Len(stack)
            /\ t # << >> /\ DOMAIN t = 1 .. Len(stack)
            /\ \A i \in 1 .. Len(stack) - 1 : t[i] = stack[i]
            /\ t[Len(stack)].at = "read" /\ t[Len(stack)].module = Top.module
        BY <2>1, ReplaceShape
      <4>2. Top = stack[Len(stack)]
        BY <2>1, TopFrame
      <4> HIDE DEF t
      <4>3. QED
        BY <2>1, <3>1, <4>1, <4>2 DEF Running
    <3> HIDE DEF t
    <3>4. Running(stack', context')
      <4> DEFINE more == context'
      <4>1. Top.module \in more /\ Running(t, more)
        BY <3>1, <3>3
      <4> HIDE DEF more
      <4>2. Running(stack', more)
        BY <1>0, <2>1, <3>1, <3>2, <4>1, PushRunning
      <4>3. QED
        BY <4>2 DEF more
    <3>5. QED
      BY <2>1, <3>1, <3>4, RunPhases
  <2>4. QED
    BY <2>2, <2>3
<1>10. CASE ReadSlot \/ Return
  <2>1. /\ outcome = "running" /\ Running(stack, context) /\ Top.at \in {"read", "call"}
        /\ stack' = Front(stack) /\ outcome' = outcome
        /\ context' = context /\ finished' = finished
    BY <1>10, Alive DEF ReadSlot, Return
  <2>2. Running(stack', context')
    BY <2>1, PopRunning
  <2>3. QED
    BY <2>1, <2>2, RunPhases DEF Phases
<1>11. CASE CallFunction
  <2>1. PICK m \in Callable : stack' = Append(stack, Call("call", m))
    BY <1>11 DEF CallFunction
  <2>2. outcome = "running" /\ Running(stack, context) /\ m \in Module
    BY <1>11, Alive DEF CallFunction, InCode, Callable, TypeOK
  <2>3. Running(stack', context)
    BY <1>0, <2>1, <2>2, PushRunning
  <2>4. QED
    BY <1>11, <2>2, <2>3, RunPhases DEF CallFunction, Phases
<1>12. CASE EndRun
  <2>1. /\ outcome = "running" /\ Running(stack, context) /\ context' = context
        /\ finished' = finished \cup {Top.module} /\ Top.module \in context
        /\ finished \subseteq context
    BY <1>12, Alive DEF EndRun, Phases
  <2>2. CASE Len(stack) > 1
    <3>1. stack' = Front(stack) /\ outcome' = outcome
      BY <1>12, <2>2 DEF EndRun
    <3>2. Running(stack', context')
      BY <2>1, <2>2, <3>1, PopRunning
    <3>3. QED
      BY <2>1, <3>1, <3>2, RunPhases
  <2>3. CASE ~(Len(stack) > 1)
    BY <1>12, <2>1, <2>3, EndPhases DEF EndRun
  <2>4. QED
    BY <2>2, <2>3
<1>13. CASE Fail
  BY <1>13, EndPhases DEF Fail, Phases
<1>14. CASE UNCHANGED vars
  BY <1>14 DEF vars, Phases, Running, Over
<1>15. QED
  BY <1>2, <1>3, <1>4, <1>5, <1>6, <1>7, <1>8, <1>9, <1>10, <1>11, <1>12, <1>13,
     <1>14 DEF Next, Load, Exited

(* Executions of modules among the calls.                                  *)
Busy(frame) == frame.at \in {"fill", "run"}

(* No module is executed twice at a time or again, and imports are only    *)
(* filled in by the innermost call.                                        *)
SingleRuns(s, over) ==
  /\ \A i, j \in DOMAIN s : Busy(s[i]) /\ Busy(s[j]) /\ s[i].module = s[j].module => i = j
  /\ \A i \in DOMAIN s : Busy(s[i]) => s[i].module \notin over
  /\ \A i \in DOMAIN s : s[i].at = "fill" => i = Len(s)

(* A module that has a context is being executed or has been.              *)
Underway(s, started, over) ==
  \A m \in started : m \in over \/ \E i \in DOMAIN s : Busy(s[i]) /\ s[i].module = m

(* The inductive invariant.  ExecutedOnce needs to know that the modules   *)
(* being executed have a context, ReadsSettled that a module with a        *)
(* context that is not finished is somewhere on the stack.                 *)
ExecInv ==
  /\ Phases
  /\ SingleRuns(stack, finished)
  /\ outcome = "running" => Underway(stack, context, finished)

(* Before and after the execution there is nothing to show.                *)
LEMMA QuietExec == Phases /\ TypeOK /\ outcome # "running" => ExecInv
<1> SUFFICES ASSUME Phases, TypeOK, outcome # "running"
             PROVE  ExecInv
  OBVIOUS
<1>1. \A i \in DOMAIN stack : stack[i].at = "load"
  <2>1. CASE outcome = "loading"
    BY <2>1 DEF Phases
  <2>2. CASE outcome # "loading"
    <3>1. stack = << >>
      BY <2>2 DEF TypeOK, Phases, Over
    <3>2. QED
      BY <3>1, EmptySeq, LenProperties
  <2>3. QED
    BY <2>1, <2>2
<1>2. QED
  BY <1>1 DEF ExecInv, SingleRuns, Busy

(* A call that executes nothing is made.                                   *)
LEMMA PushExec ==
  ASSUME TypeOK, ExecInv, outcome = "running", stack # << >>, Top.at # "fill",
         NEW m \in Module, NEW at \in {"call", "check"},
         stack' = Append(stack, Call(at, m)), context' = context, finished' = finished
  PROVE  SingleRuns(stack', finished') /\ Underway(stack', context', finished')
<1> DEFINE t == Append(stack, Call(at, m))
<1>1. Len(stack) \in DOMAIN stack /\ Top = stack[Len(stack)]
  BY TopFrame
<1>2. /\ Len(stack) \in Nat /\ DOMAIN stack = 1 .. Len(stack)
      /\ Len(t) = Len(stack) + 1 /\ DOMAIN t = 1 .. Len(stack) + 1
      /\ \A i \in 1 .. Len(stack) : t[i] = stack[i]
      /\ t[Len(stack) + 1].at = at
  BY PushShape DEF TypeOK
<1> HIDE DEF t
<1>3. \A i \in DOMAIN t : \/ i \in DOMAIN stack /\ t[i] = stack[i]
                          \/ t[i].at = at
  BY <1>2
<1>4. SingleRuns(t, finished)
  BY <1>1, <1>2, <1>3 DEF ExecInv, SingleRuns, Busy
<1>5. Underway(t, context, finished)
  BY <1>2 DEF ExecInv, Underway
<1>6. QED
  BY <1>4, <1>5 DEF t

(* A call that executes nothing returns.                                   *)
LEMMA PopExec ==
  ASSUME TypeOK, ExecInv, outcome = "running", stack # << >>, Top.at \in {"call", "read"},
         stack' = Front(stack), context' = context, finished' = finished
  PROVE  SingleRuns(stack', finished') /\ Underway(stack', context', finished')
<1> DEFINE t == Front(stack)
<1>1. Len(stack) \in DOMAIN stack /\ Top = stack[Len(stack)]
  BY TopFrame
<1>2. /\ Len(stack) \in Nat /\ DOMAIN stack = 1 .. Len(stack)
      /\ Len(t) = Len(stack) - 1 /\ DOMAIN t = 1 .. Len(stack) - 1
      /\ \A i \in 1 .. Len(stack) - 1 : t[i] = stack[i]
  BY PopShape DEF TypeOK
<1> HIDE DEF t
<1>3. /\ \A i \in DOMAIN t : i \in DOMAIN stack /\ t[i] = stack[i]
      /\ \A i \in DOMAIN stack : i \in DOMAIN t \/ stack[i] = Top
  BY <1>1, <1>2
<1>4. \A i \in DOMAIN t : t[i].at # "fill"
  BY <1>1, <1>2, <1>3 DEF ExecInv, SingleRuns
<1>5. SingleRuns(t, finished)
  BY <1>3, <1>4 DEF ExecInv, SingleRuns
<1>6. Underway(t, context, finished)
  <2>1. \A i \in DOMAIN stack : Busy(stack[i]) => i \in DOMAIN t /\ t[i] = stack[i]
    BY <1>3 DEF Busy
  <2>2. QED
    BY <2>1 DEF ExecInv, Underway
<1>7. QED
  BY <1>5, <1>6 DEF t

(* The innermost execution goes on from its imports to its statements, or  *)
(* to its next import.                                                     *)
LEMMA SameExec ==
  ASSUME TypeOK, ExecInv, outcome = "running", stack # << >>, Top.at = "fill",
         \/ stack' = Replace(Call("run", Top.module))
         \/ MoreImports /\ stack' = Advance,
         context' = context, finished' = finished
  PROVE  SingleRuns(stack', finished') /\ Underway(stack', context', finished')
<1>1. /\ Len(stack) \in DOMAIN stack /\ Top = stack[Len(stack)] /\ Top.module \in Module
      /\ Len(stack) \in Nat /\ DOMAIN stack = 1 .. Len(stack)
  BY TopFrame
<1>2. /\ Len(stack') = Len(stack) /\ DOMAIN stack' = DOMAIN stack
      /\ \A i \in DOMAIN stack :
           /\ stack'[i].module = stack[i].module
           /\ \/ stack'[i].at = stack[i].at
              \/ i = Len(stack) /\ stack'[i].at \in {"fill", "run"}
  <2>1. CASE stack' = Replace(Call("run", Top.module))
    <3>1. /\ Len(stack') = Len(stack) /\ DOMAIN stack' = 1 .. Len(stack)
          /\ \A i \in 1 .. Len(stack) - 1 : stack'[i] = stack[i]
          /\ stack'[Len(stack)].at = "run" /\ stack'[Len(stack)].module = Top.module
      BY <1>1, <2>1, ReplaceShape
    <3>2. QED
      BY <1>1, <3>1
  <2>2. CASE MoreImports /\ stack' = Advance
    BY <1>1, <2>2, AdvanceShape
  <2>3. QED
    BY <2>1, <2>2
<1>3. \A i \in DOMAIN stack : Busy(stack'[i]) <=> Busy(stack[i])
  BY <1>1, <1>2 DEF Busy
<1>4. SingleRuns(stack', finished)
  BY <1>1, <1>2, <1>3 DEF ExecInv, SingleRuns
<1>5. Underway(stack', context, finished)
  BY <1>2, <1>3 DEF ExecInv, Underway
<1>6. QED
  BY <1>4, <1>5

(* A module is looked at, and executed if it has no context.               *)
LEMMA CheckExec ==
  ASSUME TypeOK, ExecInv, outcome = "running", CheckLoaded
  PROVE  SingleRuns(stack', finished') /\ Underway(stack', context', finished')
<1> DEFINE t == Replace(Call("read", Top.module))
<1>1. /\ stack # << >> /\ Top.at = "check" /\ finished' = finished
      /\ Len(stack) \in DOMAIN stack /\ Top = stack[Len(stack)] /\ Top.module \in Module
      /\ program \in Programs
  BY TopFrame DEF CheckLoaded, AtTop, TypeOK
<1>2. /\ Len(stack) \in Nat /\ DOMAIN stack = 1 .. Len(stack)
      /\ Len(t) = Len(stack) /\ DOMAIN t = 1 .. Len(stack)
      /\ \A i \in 1 .. Len(stack) - 1 : t[i] = stack[i]
      /\ t[Len(stack)].at = "read"
  BY <1>1, ReplaceShape
<1>3. Calls(t)
  BY <1>1, ReplaceCalls
<1> HIDE DEF t
<1>4. /\ \A i \in DOMAIN stack : Busy(stack[i]) => i \in DOMAIN t /\ t[i] = stack[i]
      /\ \A i \in DOMAIN t : Busy(t[i]) => i \in DOMAIN stack /\ t[i] = stack[i]
      /\ \A i \in DOMAIN t : t[i].at # "fill"
  BY <1>1, <1>2 DEF Busy, ExecInv, SingleRuns
<1>5. SingleRuns(t, finished) /\ Underway(t, context, finished)
  BY <1>4 DEF ExecInv, SingleRuns, Underway
<1>6. CASE Top.module \in context
  <2>1. stack' = t /\ context' = context
    BY <1>6 DEF CheckLoaded, t
  <2>2. QED
    BY <1>1, <1>5, <2>1
<1>7. CASE Top.module \notin context
  <2>1. stack' = Append(t, Call("fill", Top.module)) /\ context' = context \cup {Top.module}
    BY <1>7 DEF CheckLoaded, t
  <2>2. /\ Len(stack') = Len(t) + 1 /\ DOMAIN stack' = 1 .. Len(t) + 1
        /\ \A i \in 1 .. Len(t) : stack'[i] = t[i]
        /\ stack'[Len(t) + 1].at = "fill" /\ stack'[Len(t) + 1].module = Top.module
    BY <1>1, <1>3, <2>1, PushShape
  <2>3. \A i \in DOMAIN t : Busy(t[i]) => t[i].module # Top.module
    BY <1>4, <1>7 DEF ExecInv, Phases, Running, Busy
  <2>4. \A i \in DOMAIN stack' : \/ i \in DOMAIN t /\ stack'[i] = t[i]
                                 \/ i = Len(t) + 1
    BY <1>2, <2>2
  <2>5. Top.module \notin finished
    BY <1>7 DEF ExecInv, Phases
  <2>6. SingleRuns(stack', finished)
    BY <1>4, <1>5, <2>2, <2>3, <2>4, <2>5 DEF SingleRuns
  <2>7. Underway(stack', context', finished)
    BY <1>2, <1>5, <2>1, <2>2 DEF Underway, Busy
  <2>8. QED
    BY <1>1, <2>6, <2>7
<1>8. QED
  BY <1>6, <1>7

(* The innermost execution ends.                                           *)
LEMMA EndRunExec ==
  ASSUME TypeOK, ExecInv, outcome = "running", AtTop("run"), stack' = Front(stack),
         context' = context, finished' = finished \cup {Top.module}
  PROVE  SingleRuns(stack', finished') /\ Underway(stack', context', finished')
<1> DEFINE t == Front(stack)
<1>1. stack # << >> /\ Len(stack) \in DOMAIN stack /\ Top = stack[Len(stack)] /\ Busy(Top)
  BY TopFrame DEF AtTop, Busy
<1>2. /\ Len(stack) \in Nat /\ DOMAIN stack = 1 .. Len(stack)
      /\ Len(t) = Len(stack) - 1 /\ DOMAIN t = 1 .. Len(stack) - 1
      /\ \A i \in 1 .. Len(stack) - 1 : t[i] = stack[i]
  BY <1>1, PopShape DEF TypeOK
<1> HIDE DEF t
<1>3. /\ \A i \in DOMAIN t : i \in DOMAIN stack /\ t[i] = stack[i] /\ i # Len(stack)
      /\ \A i \in DOMAIN stack : i \in DOMAIN t \/ stack[i] = Top
  BY <1>1, <1>2
<1>4. \A i \in DOMAIN t : Busy(t[i]) => t[i].module # Top.module
  BY <1>1, <1>3 DEF ExecInv, SingleRuns
<1>5. \A i \in DOMAIN t : t[i].at # "fill"
  BY <1>1, <1>3 DEF ExecInv, SingleRuns
<1>6. SingleRuns(t, finished \cup {Top.module})
  BY <1>3, <1>4, <1>5 DEF ExecInv, SingleRuns
<1>7. Underway(t, context, finished \cup {Top.module})
  <2>1. \A m \in context : m \in finished \/ \E i \in DOMAIN stack : Busy(stack[i]) /\ stack[i].module = m
    BY DEF ExecInv, Underway
  <2>2. QED
    BY <1>3, <2>1 DEF Underway
<1>8. QED
  BY <1>6, <1>7 DEF t

(* Every step keeps the invariant.                                         *)
LEMMA ExecKept ==
  ASSUME TypeOK, TypeOK', ExecInv, [Next]_vars
  PROVE  ExecInv'
<1> USE DEF AtTop
<1>1. Phases'
  BY PhasesKept DEF ExecInv
<1>2. SUFFICES ASSUME outcome' = "running"
               PROVE  SingleRuns(stack', finished') /\ Underway(stack', context', finished')
  <2>1. CASE (outcome # "running")'
    BY <1>1, <2>1, QuietExec, PTL
  <2>2. CASE outcome' = "running"
    BY <1>1, <1>2, <2>2 DEF ExecInv
  <2>3. QED
    BY <2>1, <2>2
<1>3. CASE LoadMain \/ LoadImport
  BY <1>2, <1>3 DEF LoadMain, LoadImport, ParseModule, Ends
<1>4. CASE CheckImport
  BY <1>2, <1>4, Alive DEF CheckImport, Ends, ExecInv
<1>5. CASE EndLoad
  <2>1. outcome = "loading" /\ context = {} /\ finished = {} /\ finished' = finished
    BY <1>5, Alive DEF EndLoad, ExecInv, Phases
  <2>2. stack' = <<Call("fill", Main)>> /\ context' = {Main}
    BY <1>2, <1>5, <2>1 DEF EndLoad
  <2>3. DOMAIN stack' = {1} /\ Len(stack') = 1 /\ stack'[1].at = "fill" /\ stack'[1].module = Main
    BY <2>2 DEF Call
  <2>4. QED
    BY <2>1, <2>2, <2>3 DEF SingleRuns, Underway, Busy
<1>6. CASE FillImport \/ StartRun
  BY <1>2, <1>6, Alive, SameExec DEF FillImport, StartRun, Ends, ExecInv
<1>7. CASE UseImport
  <2>1. PICK i \in DOMAIN Imports(Top.module) :
           stack' = Append(stack, Call("check", Imports(Top.module)[i].from))
    BY <1>7 DEF UseImport
  <2>2. stack # << >> /\ Top.at \in {"run", "call"} /\ outcome = "running"
    BY <1>7, Alive DEF UseImport, InCode, ExecInv
  <2>3. Imports(Top.module)[i].from \in Module
    BY <2>2, TopFrame, ImportLists DEF Import, TypeOK
  <2>4. QED
    BY <1>7, <2>1, <2>2, <2>3, PushExec DEF UseImport
<1>8. CASE CheckLoaded
  BY <1>8, Alive, CheckExec DEF CheckLoaded, ExecInv
<1>9. CASE ReadSlot \/ Return
  BY <1>9, Alive, PopExec DEF ReadSlot, Return, ExecInv
<1>10. CASE CallFunction
  <2>1. PICK m \in Callable : stack' = Append(stack, Call("call", m))
    BY <1>10 DEF CallFunction
  <2>2. stack # << >> /\ Top.at \in {"run", "call"} /\ outcome = "running" /\ m \in Module
    BY <1>10, Alive DEF CallFunction, InCode, ExecInv, Callable, TypeOK
  <2>3. QED
    BY <1>10, <2>1, <2>2, PushExec DEF CallFunction
<1>11. CASE EndRun
  <2>1. outcome = "running" /\ stack' = Front(stack)
    BY <1>2, <1>11, Alive DEF EndRun, Ends, ExecInv
  <2>2. QED
    BY <1>11, <2>1, EndRunExec DEF EndRun
<1>12. CASE Fail
  BY <1>2, <1>12 DEF Fail, Ends
<1>13. CASE UNCHANGED vars
  BY <1>2, <1>13 DEF vars, ExecInv
<1>14. QED
  BY <1>3, <1>4, <1>5, <1>6, <1>7, <1>8, <1>9, <1>10, <1>11, <1>12, <1>13
     DEF Next, Load, Exited

(* The invariant of every program.                                         *)
LEMMA ExecInvariance == Spec => []ExecInv
<1>1. Init => ExecInv
  BY LenProperties, EmptySeq DEF Init, ExecInv, Phases, Over, SingleRuns
<1>2. TypeOK /\ TypeOK' /\ ExecInv /\ [Next]_vars => ExecInv'
  BY ExecKept
<1>3. QED
  BY <1>1, <1>2, TypeCorrect, PTL DEF Spec

(* _execute never panics with "Module is already loaded": for any modules, *)
(* cycles or not, and any depth of calls, no module is executed twice.     *)
THEOREM Once == Spec => []ExecutedOnce
<1>1. ExecInv => ExecutedOnce
  BY DEF ExecInv, SingleRuns, Busy, ExecutedOnce, Executions
<1>2. QED
  BY <1>1, ExecInvariance, PTL

(* A lazy reference is read when the module's statements have all run: the *)
(* module has a context, and if it were still being executed the thread    *)
(* would wait for its mutex instead.                                       *)
THEOREM Settled == Spec => ReadsSettled
<1>1. TypeOK /\ ExecInv => (ReadSlot => Top.module \in finished)
  <2> SUFFICES ASSUME TypeOK, ExecInv, ReadSlot, Top.module \notin finished
               PROVE  FALSE
    OBVIOUS
  <2>1. /\ stack # << >> /\ Top.at = "read" /\ Top.module \notin Held
    BY DEF ReadSlot, AtTop, Waits, Acquires
  <2>2. outcome = "running" /\ Top.module \in context
    BY <2>1, Alive DEF ExecInv
  <2>3. PICK i \in DOMAIN stack : Busy(stack[i]) /\ stack[i].module = Top.module
    BY <2>2 DEF ExecInv, Underway
  <2>4. stack[i].at = "fill"
    BY <2>1, <2>3 DEF Busy, Held
  <2>5. stack[i] = Top
    BY <2>1, <2>4, TopFrame DEF ExecInv, SingleRuns
  <2>6. QED
    BY <2>1, <2>4, <2>5
<1>2. QED
  BY <1>1, ExecInvariance, TypeCorrect, PTL DEF ReadsSettled

(***************************************************************************)
(* The verdict of loading.                                                 *)
(***************************************************************************)

(* The imports of a module before the n-th have been checked.              *)
Visited(p, known, m, n) ==
  \A i \in DOMAIN p.imports[m] : i < n =>
    /\ p.imports[m][i].from \in known
    /\ p.imports[m][i].names \subseteq p.exports[p.imports[m][i].from]

(* Depth-first search: what is registered is reachable and either loaded   *)
(* or on the stack, and what is loaded has had all its imports checked.    *)
(* LoadVerdict is about the end of this search, so it needs all of it.     *)
LoadInv ==
  /\ registered \subseteq Reachable
  /\ \A m \in registered \cap program.readable : exports[m] = program.exports[m]
  /\ loaded \subseteq registered
  /\ \A m \in loaded : Visited(program, registered, m, Len(Imports(m)) + 1)
  /\ \A i \in DOMAIN stack : stack[i].module \in registered
  /\ context \subseteq registered
  /\ outcome = "starting" => registered = {}
  /\ outcome = "loading" =>
       /\ Main \in registered
       /\ registered \subseteq program.readable
       /\ \A m \in registered : m \in loaded \/ \E i \in DOMAIN stack : stack[i].module = m
       /\ \A i \in DOMAIN stack : Visited(program, registered, stack[i].module, stack[i].next)
  /\ LoadVerdict

(* Reachable is the least closed set.                                      *)
LEMMA ReachableIsLeast ==
  ASSUME program \in Programs
  PROVE  /\ Main \in Reachable
         /\ \A m \in Reachable \cap program.readable :
              \A i \in DOMAIN Imports(m) : Imports(m)[i].from \in Reachable
         /\ \A S \in SUBSET Module : Closed(S) => Reachable \subseteq S
<1>1. Main \in Reachable
  BY MainAssumption DEF Reachable, Closed
<1>2. ASSUME NEW m \in Reachable \cap program.readable, NEW i \in DOMAIN Imports(m)
      PROVE  Imports(m)[i].from \in Reachable
  <2>1. Imports(m)[i].from \in Module
    BY <1>2, ImportLists DEF Reachable, Import
  <2>2. \A S \in SUBSET Module : Closed(S) => Imports(m)[i].from \in S
    BY <1>2 DEF Reachable, Closed
  <2>3. QED
    BY <2>1, <2>2 DEF Reachable
<1>3. \A S \in SUBSET Module : Closed(S) => Reachable \subseteq S
  BY DEF Reachable
<1>4. QED
  BY <1>1, <1>2, <1>3

(* The files do not change, so what is said of them does not either, and   *)
(* imports that have been checked stay checked.                            *)
LEMMA FilesStay ==
  ASSUME program' = program, registered \subseteq registered'
  PROVE  /\ Reachable' = Reachable
         /\ \A m \in Module : Imports(m)' = Imports(m) /\ (Broken(m)' <=> Broken(m))
         /\ \A m, n : Visited(program, registered, m, n) => Visited(program, registered', m, n)
BY DEF Reachable, Closed, Imports, Broken, Visited

(* No call is in progress. *)
LEMMA EmptyDomain == DOMAIN << >> = {}
<1>1. << >> \in Seq(Nat) /\ Len(<< >>) = 0
  BY EmptySeq
<1>2. QED
  BY <1>1, LenProperties

(* The invariant of the next state, in terms of files that do not change.  *)
LEMMA NextLoadInv ==
  ASSUME program' = program, Reachable' = Reachable,
         registered' \subseteq Reachable,
         \A m \in registered' \cap program.readable : exports'[m] = program.exports[m],
         loaded' \subseteq registered',
         \A m \in loaded' : Visited(program, registered', m, Len(Imports(m)) + 1),
         \A i \in DOMAIN stack' : stack'[i].module \in registered',
         context' \subseteq registered',
         outcome' # "starting",
         outcome' = "loading" =>
           /\ Main \in registered'
           /\ registered' \subseteq program.readable
           /\ \A m \in registered' : m \in loaded' \/ \E i \in DOMAIN stack' : stack'[i].module = m
           /\ \A i \in DOMAIN stack' : Visited(program, registered', stack'[i].module, stack'[i].next),
         LoadVerdict'
  PROVE  LoadInv'
<1>1. \A m \in loaded' : Visited(program', registered', m, Len(Imports(m)') + 1)
  BY DEF Imports
<1>2. QED
  BY <1>1 DEF LoadInv

(* A module gets an entry and its file is parsed.                          *)
LEMMA ParseVerdict ==
  ASSUME TypeOK, Phases, LoadInv, NEW m \in Reachable, ParseModule(m),
         outcome \in {"starting", "loading"}, outcome = "starting" => m = Main
  PROVE  LoadInv'
<1>1. /\ program' = program /\ registered' = registered \cup {m} /\ m \notin registered
      /\ loaded' = loaded /\ context' = context /\ context = {} /\ m \in Module
      /\ program \in Programs /\ Calls(stack)
  BY DEF ParseModule, Phases, TypeOK, Reachable
<1>2. /\ Reachable' = Reachable
      /\ \A k \in Module : Imports(k)' = Imports(k) /\ (Broken(k)' <=> Broken(k))
      /\ \A k, n : Visited(program, registered, k, n) => Visited(program, registered', k, n)
  BY <1>1, FilesStay
<1>3. /\ registered' \subseteq Reachable'
      /\ loaded' \subseteq registered' /\ context' \subseteq registered'
  BY <1>1, <1>2 DEF LoadInv
<1>4. \A k \in loaded' : Visited(program, registered', k, Len(Imports(k)) + 1)
  <2>1. \A k \in loaded : k \in Module /\ Visited(program, registered, k, Len(Imports(k)) + 1)
    BY DEF LoadInv, TypeOK
  <2>2. \A k \in loaded : Visited(program, registered', k, Len(Imports(k)) + 1)
    BY <1>2, <2>1
  <2>3. QED
    BY <1>1, <2>2
<1>5. CASE m \in program.readable
  <2>1. /\ exports' = [exports EXCEPT ![m] = program.exports[m]]
        /\ stack' = Append(stack, Call("load", m)) /\ outcome' = "loading"
    BY <1>5 DEF ParseModule
  <2>2. \A k \in registered' \cap program.readable : exports'[k] = program.exports[k]
    BY <1>1, <2>1 DEF LoadInv, TypeOK
  <2>3. /\ Len(stack) \in Nat /\ DOMAIN stack = 1 .. Len(stack)
        /\ DOMAIN stack' = 1 .. Len(stack) + 1
        /\ \A i \in 1 .. Len(stack) : stack'[i] = stack[i]
        /\ stack'[Len(stack) + 1].module = m /\ stack'[Len(stack) + 1].next = 1
    BY <1>1, <2>1, PushShape
  <2>4. \A i \in DOMAIN stack' : \/ i \in DOMAIN stack /\ stack'[i] = stack[i]
                                 \/ stack'[i].module = m /\ stack'[i].next = 1
    BY <2>3
  <2>5. \A i \in DOMAIN stack' : stack'[i].module \in registered'
    BY <1>1, <2>4 DEF LoadInv
  <2>6. Main \in registered' /\ registered' \subseteq program.readable
    BY <1>1, <1>5 DEF LoadInv, TypeOK
  <2>7. \A k \in registered' : k \in loaded \/ \E i \in DOMAIN stack' : stack'[i].module = k
    <3>1. \A k \in registered : k \in loaded \/ \E i \in DOMAIN stack : stack[i].module = k
      BY DEF LoadInv, TypeOK
    <3>2. QED
      BY <1>1, <2>3, <3>1
  <2>8. \A i \in DOMAIN stack' : Visited(program, registered', stack'[i].module, stack'[i].next)
    <3>1. \A i \in DOMAIN stack : outcome = "loading" /\ Visited(program, registered, stack[i].module, stack[i].next)
      BY EmptySeq, LenProperties DEF LoadInv, Phases
    <3>2. Visited(program, registered', m, 1)
      <4>1. \A i \in DOMAIN Imports(m) : ~(i < 1)
        BY <1>1, ImportLists
      <4>2. QED
        BY <1>1, <1>2, <4>1 DEF Visited, Imports
    <3>3. QED
      BY <1>2, <2>4, <3>1, <3>2
  <2>9. LoadVerdict'
    BY <1>1, <2>1 DEF LoadVerdict
  <2>10. QED
    BY <1>1, <1>2, <1>3, <1>4, <2>1, <2>2, <2>5, <2>6, <2>7, <2>8, <2>9, NextLoadInv
<1>6. CASE m \notin program.readable
  <2>1. exports' = exports /\ stack' = << >> /\ outcome' = "load error"
    BY <1>6 DEF ParseModule, Ends
  <2>2. \A k \in registered' \cap program.readable : exports'[k] = program.exports[k]
    BY <1>1, <1>6, <2>1 DEF LoadInv
  <2>3. Broken(m)
    BY <1>6 DEF Broken
  <2>4. LoadVerdict'
    BY <1>1, <1>2, <2>3 DEF LoadVerdict
  <2>5. DOMAIN stack' = {}
    BY <2>1, EmptyDomain
  <2>6. QED
    BY <1>1, <1>2, <1>3, <1>4, <2>1, <2>2, <2>4, <2>5, NextLoadInv
<1>7. QED
  BY <1>5, <1>6

(* What is known of the import the innermost call is at.                   *)
LEMMA CurrentImport ==
  ASSUME TypeOK, LoadInv, stack # << >>, MoreImports
  PROVE  /\ program \in Programs
         /\ Top.module \in registered /\ Top.module \in Reachable /\ Top.module \in Module
         /\ Top.next \in DOMAIN Imports(Top.module)
         /\ Current = Imports(Top.module)[Top.next]
         /\ Current.from \in Module
<1>1. /\ Top = stack[Len(stack)] /\ Len(stack) \in DOMAIN stack
      /\ Top.module \in Module /\ Current.from \in Module
  BY TopFrame
<1>2. Top.module \in registered /\ Top.module \in Reachable
  BY <1>1 DEF LoadInv
<1>3. QED
  BY <1>1, <1>2 DEF TypeOK, MoreImports, Current

(* An import is checked.                                                   *)
LEMMA CheckVerdict ==
  ASSUME TypeOK, Phases, LoadInv, CheckImport
  PROVE  LoadInv'
<1>1. /\ stack # << >> /\ MoreImports /\ outcome = "loading" /\ context = {}
      /\ Current.from \in registered
      /\ program' = program /\ registered' = registered /\ exports' = exports
      /\ loaded' = loaded /\ context' = context
  BY Alive DEF CheckImport, AtTop, Phases
<1>2. /\ Reachable' = Reachable
      /\ \A k \in Module : Imports(k)' = Imports(k) /\ (Broken(k)' <=> Broken(k))
      /\ \A k, n : Visited(program, registered, k, n) => Visited(program, registered', k, n)
  BY <1>1, FilesStay
<1>3. \A k \in loaded' : Visited(program, registered', k, Len(Imports(k)) + 1)
  <2>1. \A k \in loaded : k \in Module /\ Visited(program, registered, k, Len(Imports(k)) + 1)
    BY DEF LoadInv, TypeOK
  <2>2. QED
    BY <1>1, <1>2, <2>1
<1>4. exports[Current.from] = program.exports[Current.from]
  BY <1>1 DEF LoadInv
<1>5. /\ registered \subseteq Reachable /\ loaded \subseteq registered
      /\ \A k \in registered \cap program.readable : exports[k] = program.exports[k]
      /\ Main \in registered /\ registered \subseteq program.readable
  BY <1>1 DEF LoadInv
<1>6. CASE Current.names \subseteq exports[Current.from]
  <2>1. stack' = Advance /\ outcome' = outcome
    BY <1>6 DEF CheckImport
  <2>2. /\ Len(stack) \in Nat /\ Len(stack) >= 1 /\ DOMAIN stack = 1 .. Len(stack)
        /\ DOMAIN stack' = 1 .. Len(stack)
        /\ \A i \in 1 .. Len(stack) : stack'[i].module = stack[i].module
        /\ \A i \in 1 .. Len(stack) - 1 : stack'[i] = stack[i]
        /\ stack'[Len(stack)].next = Top.next + 1
    BY <1>1, <2>1, AdvanceShape
  <2>3. Top = stack[Len(stack)]
    BY <1>1, TopFrame
  <2>4. Visited(program, registered, Top.module, Top.next + 1)
    <3>1. Visited(program, registered, Top.module, Top.next)
      BY <1>1, <2>2, <2>3 DEF LoadInv
    <3>2. \A i \in DOMAIN Imports(Top.module) : i < Top.next + 1 => i < Top.next \/ i = Top.next
      BY <1>1, CurrentImport, ImportLists
    <3>3. QED
      BY <1>1, <1>4, <1>6, <3>1, <3>2, CurrentImport DEF Visited, Imports
  <2>5. \A i \in DOMAIN stack' : Visited(program, registered', stack'[i].module, stack'[i].next)
    <3>1. \A i \in DOMAIN stack : Visited(program, registered, stack[i].module, stack[i].next)
      BY <1>1 DEF LoadInv
    <3>2. \A i \in DOMAIN stack' : \/ i \in DOMAIN stack /\ stack'[i] = stack[i]
                                   \/ /\ stack'[i].module = Top.module
                                      /\ stack'[i].next = Top.next + 1
      BY <2>2, <2>3
    <3>3. QED
      BY <1>2, <2>4, <3>1, <3>2
  <2>6. \A k \in registered : k \in loaded \/ \E i \in DOMAIN stack' : stack'[i].module = k
    BY <1>1, <2>2 DEF LoadInv
  <2>7. \A i \in DOMAIN stack' : stack'[i].module \in registered
    BY <2>2 DEF LoadInv
  <2>8. LoadVerdict'
    BY <1>1, <2>1 DEF LoadVerdict
  <2>9. QED
    BY <1>1, <1>2, <1>3, <1>5, <2>1, <2>5, <2>6, <2>7, <2>8, NextLoadInv
<1>7. CASE ~(Current.names \subseteq exports[Current.from])
  <2>1. stack' = << >> /\ outcome' = "load error"
    BY <1>7 DEF CheckImport, Ends
  <2>2. Broken(Top.module)
    BY <1>1, <1>4, <1>7, CurrentImport DEF Broken
  <2>3. LoadVerdict'
    BY <1>1, <1>2, <2>2, CurrentImport DEF LoadVerdict
  <2>4. DOMAIN stack' = {}
    BY <2>1, EmptyDomain
  <2>5. QED
    BY <1>1, <1>2, <1>3, <1>5, <2>1, <2>3, <2>4, NextLoadInv
<1>8. QED
  BY <1>6, <1>7

(* A module has had all its imports checked; after the main module the     *)
(* registered modules are closed, so they are exactly the reachable ones.  *)
LEMMA EndLoadVerdict ==
  ASSUME TypeOK, Phases, LoadInv, EndLoad
  PROVE  LoadInv'
<1>1. /\ stack # << >> /\ ~MoreImports /\ outcome = "loading" /\ context = {}
      /\ program' = program /\ registered' = registered /\ exports' = exports
      /\ loaded' = loaded \cup {Top.module}
      /\ program \in Programs /\ Calls(stack)
  BY Alive DEF EndLoad, AtTop, Phases, TypeOK
<1>2. /\ Reachable' = Reachable
      /\ \A k \in Module : Imports(k)' = Imports(k) /\ (Broken(k)' <=> Broken(k))
      /\ \A k, n : Visited(program, registered, k, n) => Visited(program, registered', k, n)
  BY <1>1, FilesStay
<1>3. /\ Len(stack) \in Nat /\ Len(stack) >= 1 /\ DOMAIN stack = 1 .. Len(stack)
      /\ Top = stack[Len(stack)] /\ Top.module \in Module /\ Top.module \in registered
  BY <1>1, TopFrame DEF LoadInv
<1>4. Visited(program, registered, Top.module, Len(Imports(Top.module)) + 1)
  <2>1. Top.next \in 1 .. Len(Imports(Top.module)) + 1
    <3>1. Len(stack) \in DOMAIN stack
      BY <1>3
    <3>2. QED
      BY <1>3, <3>1 DEF TypeOK, Calls
  <2>2. /\ Len(Imports(Top.module)) \in Nat
        /\ DOMAIN Imports(Top.module) = 1 .. Len(Imports(Top.module))
    BY <1>1, <1>3, ImportLists
  <2>3. Top.next = Len(Imports(Top.module)) + 1
    BY <1>1, <2>1, <2>2 DEF MoreImports
  <2>4. QED
    BY <1>1, <1>3, <2>3 DEF LoadInv
<1>5. \A k \in loaded' : k \in Module /\ Visited(program, registered, k, Len(Imports(k)) + 1)
  BY <1>1, <1>3, <1>4 DEF LoadInv, TypeOK
<1>6. \A k \in loaded' : Visited(program, registered', k, Len(Imports(k)) + 1)
  BY <1>2, <1>5
<1>7. loaded' \subseteq registered
  BY <1>1, <1>3 DEF LoadInv
<1>8. /\ registered \subseteq Reachable /\ loaded \subseteq registered
      /\ \A k \in registered \cap program.readable : exports[k] = program.exports[k]
      /\ Main \in registered /\ registered \subseteq program.readable
  BY <1>1 DEF LoadInv
<1>9. CASE Len(stack) > 1
  <2>1. stack' = Front(stack) /\ context' = context /\ outcome' = outcome
    BY <1>9 DEF EndLoad
  <2>2. /\ DOMAIN stack' = 1 .. Len(stack) - 1
        /\ \A i \in 1 .. Len(stack) - 1 : stack'[i] = stack[i]
    BY <1>1, <2>1, PopShape
  <2>3. /\ \A i \in DOMAIN stack' : i \in DOMAIN stack /\ stack'[i] = stack[i]
        /\ \A i \in DOMAIN stack : i \in DOMAIN stack' \/ stack[i] = Top
    BY <1>3, <2>2
  <2>4. \A k \in registered : k \in loaded' \/ \E i \in DOMAIN stack' : stack'[i].module = k
    <3>1. \A k \in registered : k \in loaded \/ \E i \in DOMAIN stack : stack[i].module = k
      BY <1>1 DEF LoadInv
    <3>2. QED
      BY <1>1, <2>3, <3>1
  <2>5. \A i \in DOMAIN stack' : /\ stack'[i].module \in registered
                                 /\ Visited(program, registered', stack'[i].module, stack'[i].next)
    BY <1>1, <1>2, <2>3 DEF LoadInv
  <2>6. LoadVerdict'
    BY <1>1, <2>1 DEF LoadVerdict
  <2>7. /\ loaded' \subseteq registered' /\ registered' \subseteq program.readable
        /\ registered' \subseteq Reachable /\ Main \in registered'
        /\ context' \subseteq registered' /\ outcome' = "loading"
        /\ \A k \in registered' \cap program.readable : exports'[k] = program.exports[k]
    BY <1>1, <1>7, <1>8, <2>1
  <2>8. \A k \in registered' : k \in loaded' \/ \E i \in DOMAIN stack' : stack'[i].module = k
    BY <1>1, <2>4
  <2>9. \A i \in DOMAIN stack' : /\ stack'[i].module \in registered'
                                 /\ Visited(program, registered', stack'[i].module, stack'[i].next)
    BY <1>1, <2>5
  <2>10. QED
    BY <1>1, <1>2, <1>6, <2>6, <2>7, <2>8, <2>9, NextLoadInv
<1>10. CASE ~(Len(stack) > 1)
  <2>1. /\ stack' = <<Call("fill", Main)>> /\ context' = context \cup {Main}
        /\ outcome' = "running"
    BY <1>10 DEF EndLoad
  <2>2. Main \in registered /\ registered \subseteq program.readable
    BY <1>1 DEF LoadInv
  <2>3. loaded' = registered
    <3>1. \A i \in DOMAIN stack : stack[i] = Top
      BY <1>3, <1>10
    <3>2. QED
      BY <1>1, <1>7, <3>1 DEF LoadInv
  <2>4. Closed(registered)
    <3>1. \A m \in registered : \A i \in DOMAIN Imports(m) : Imports(m)[i].from \in registered
      <4>1. \A m \in registered : \A i \in DOMAIN Imports(m) : i < Len(Imports(m)) + 1
        BY <1>1, <1>5, <2>3, ImportLists
      <4>2. QED
        BY <1>5, <2>3, <4>1 DEF Visited, Imports
    <3>2. QED
      BY <2>2, <3>1 DEF Closed
  <2>5. registered = Reachable
    BY <1>1, <2>4, ReachableIsLeast DEF LoadInv, TypeOK
  <2>6. \A m \in Reachable : ~Broken(m)
    <3>1. \A m \in registered : \A i \in DOMAIN Imports(m) : i < Len(Imports(m)) + 1
      BY <1>1, <1>5, <2>3, ImportLists
    <3>2. QED
      BY <1>5, <2>2, <2>3, <2>5, <3>1 DEF Visited, Broken, Imports
  <2>7. LoadVerdict'
    BY <1>1, <1>2, <2>1, <2>3, <2>5, <2>6 DEF LoadVerdict, Reachable
  <2>8. \A i \in DOMAIN stack' : stack'[i].module \in registered
    BY <2>1, <2>2 DEF Call
  <2>9. QED
    BY <1>1, <1>2, <1>6, <1>7, <1>8, <2>1, <2>2, <2>7, <2>8, NextLoadInv
<1>11. QED
  BY <1>9, <1>10

(* Execution adds calls and contexts of registered modules only.           *)
LEMMA RunVerdict ==
  ASSUME TypeOK, Phases, LoadInv, outcome = "running",
         outcome' \in {"running", "done", "runtime error"},
         UNCHANGED <<program, registered, exports, loaded>>,
         context \subseteq context', context' \subseteq registered,
         \A i \in DOMAIN stack' : stack'[i].module \in registered
  PROVE  LoadInv'
<1>1. /\ Reachable' = Reachable
      /\ \A k \in Module : Imports(k)' = Imports(k) /\ (Broken(k)' <=> Broken(k))
      /\ \A k, n : Visited(program, registered, k, n) => Visited(program, registered', k, n)
  BY FilesStay
<1>2. \A k \in loaded' : Visited(program, registered', k, Len(Imports(k)) + 1)
  BY <1>1 DEF LoadInv, TypeOK
<1>3. LoadVerdict'
  BY <1>1 DEF LoadInv, LoadVerdict, Phases, Reachable
<1>4. QED
  BY <1>1, <1>2, <1>3, NextLoadInv DEF LoadInv

(* Every step keeps the invariant.                                         *)
LEMMA VerdictKept ==
  ASSUME TypeOK, ExecInv, LoadInv, [Next]_vars
  PROVE  LoadInv'
<1> USE DEF AtTop
<1>0. /\ program \in Programs /\ Calls(stack) /\ Phases
      /\ registered \in SUBSET Module
      /\ \A i \in DOMAIN stack : stack[i].module \in registered
      /\ context \subseteq registered
  BY DEF TypeOK, ExecInv, LoadInv
<1>1. \A i \in DOMAIN << >> : FALSE
  BY EmptySeq, LenProperties
<1>2. CASE LoadMain
  BY <1>0, <1>2, ParseVerdict, ReachableIsLeast DEF LoadMain
<1>3. CASE LoadImport
  <2>1. stack # << >> /\ MoreImports /\ outcome = "loading"
    BY <1>0, <1>3, Alive DEF LoadImport
  <2>2. Top.module \in program.readable
    BY <2>1, CurrentImport DEF LoadInv
  <2>3. Current.from \in Reachable
    BY <2>1, <2>2, CurrentImport, ReachableIsLeast
  <2>4. QED
    BY <1>0, <1>3, <2>1, <2>3, ParseVerdict DEF LoadImport
<1>4. CASE CheckImport
  BY <1>0, <1>4, CheckVerdict
<1>5. CASE EndLoad
  BY <1>0, <1>5, EndLoadVerdict
<1>6. CASE FillImport
  <2>1. stack # << >> /\ MoreImports /\ outcome = "running" /\ context # {}
    BY <1>0, <1>6, Alive DEF FillImport, Phases
  <2>2. Current.names \subseteq exports[Current.from]
    <3>1. Top.module \in loaded /\ ~Broken(Top.module)
      BY <2>1, CurrentImport DEF LoadInv, LoadVerdict
    <3>2. Current.names \subseteq program.exports[Current.from]
      BY <2>1, <3>1, CurrentImport DEF Broken
    <3>3. Top.next < Len(Imports(Top.module)) + 1
      BY <2>1, CurrentImport, ImportLists
    <3>4. Current.from \in registered
      BY <2>1, <3>1, <3>3, CurrentImport DEF LoadInv, Visited, Imports
    <3>5. Current.from \in program.readable
      BY <2>1, <3>4 DEF LoadInv, LoadVerdict, Broken
    <3>6. QED
      BY <3>2, <3>4, <3>5 DEF LoadInv
  <2>3. stack' = Advance /\ outcome' = outcome
    BY <1>6, <2>2 DEF FillImport
  <2>4. \A i \in DOMAIN stack' : stack'[i].module \in registered
    BY <1>0, <2>1, <2>3, AdvanceShape
  <2>5. QED
    BY <1>0, <1>6, <2>1, <2>3, <2>4, RunVerdict DEF FillImport
<1>7. ASSUME stack # << >>, NEW m \in registered,
             NEW at \in {"fill", "run", "call", "check", "read"},
             stack' = Append(stack, Call(at, m)) \/ stack' = Replace(Call(at, m))
      PROVE  \A i \in DOMAIN stack' : stack'[i].module \in registered
  <2>1. CASE stack' = Append(stack, Call(at, m))
    <3>1. /\ Len(stack) \in Nat /\ DOMAIN stack = 1 .. Len(stack)
          /\ DOMAIN stack' = 1 .. Len(stack) + 1
          /\ \A i \in 1 .. Len(stack) : stack'[i] = stack[i]
          /\ stack'[Len(stack) + 1].module = m
      BY <1>0, <2>1, PushShape
    <3>2. QED
      BY <1>0, <3>1
  <2>2. CASE stack' = Replace(Call(at, m))
    <3>1. /\ Len(stack) \in Nat /\ DOMAIN stack = 1 .. Len(stack)
          /\ DOMAIN stack' = 1 .. Len(stack)
          /\ \A i \in 1 .. Len(stack) - 1 : stack'[i] = stack[i]
          /\ stack'[Len(stack)].module = m
      BY <1>0, <1>7, <2>2, ReplaceShape
    <3>2. QED
      BY <1>0, <3>1
  <2>3. QED
    BY <1>7, <2>1, <2>2
<1>8. CASE StartRun
  <2>1. stack # << >> /\ outcome = "running" /\ Top.module \in registered
    BY <1>0, <1>8, Alive, TopFrame DEF StartRun
  <2>2. \A i \in DOMAIN stack' : stack'[i].module \in registered
    BY <1>7, <1>8, <2>1 DEF StartRun
  <2>3. QED
    BY <1>0, <1>8, <2>1, <2>2, RunVerdict DEF StartRun
<1>9. CASE UseImport
  <2>1. PICK i \in DOMAIN Imports(Top.module) :
           stack' = Append(stack, Call("check", Imports(Top.module)[i].from))
    BY <1>9 DEF UseImport
  <2>2. /\ stack # << >> /\ outcome = "running" /\ context # {}
        /\ Top.module \in registered
    BY <1>0, <1>9, Alive, TopFrame DEF UseImport, InCode, Phases
  <2>3. Imports(Top.module)[i].from \in registered
    <3>1. Top.module \in loaded
      BY <2>2 DEF LoadInv, LoadVerdict
    <3>2. i < Len(Imports(Top.module)) + 1
      BY <1>0, <2>2, ImportLists
    <3>3. QED
      BY <3>1, <3>2 DEF LoadInv, Visited, Imports
  <2>4. \A j \in DOMAIN stack' : stack'[j].module \in registered
    BY <1>7, <2>1, <2>2, <2>3
  <2>5. QED
    BY <1>0, <1>9, <2>2, <2>4, RunVerdict DEF UseImport
<1>10. CASE CheckLoaded
  <2> DEFINE t == Replace(Call("read", Top.module))
  <2>1. /\ stack # << >> /\ outcome = "running"
        /\ Top.module \in registered /\ Top.module \in Module
    BY <1>0, <1>10, Alive, TopFrame DEF CheckLoaded
  <2>2. /\ Len(stack) \in Nat /\ DOMAIN stack = 1 .. Len(stack)
        /\ DOMAIN t = 1 .. Len(stack) /\ Len(t) = Len(stack)
        /\ \A i \in 1 .. Len(stack) - 1 : t[i] = stack[i]
        /\ t[Len(stack)].module = Top.module
    BY <2>1, ReplaceShape
  <2>3. Calls(t)
    BY <2>1, ReplaceCalls
  <2> HIDE DEF t
  <2>4. \A i \in DOMAIN t : t[i].module \in registered
    BY <1>0, <2>1, <2>2
  <2>5. /\ stack' = t \/ stack' = Append(t, Call("fill", Top.module))
        /\ context \subseteq context' /\ context' \subseteq registered
    BY <1>0, <1>10, <2>1 DEF CheckLoaded, t
  <2>6. \A i \in DOMAIN stack' : stack'[i].module \in registered
    <3>1. CASE stack' = t
      BY <2>4, <3>1
    <3>2. CASE stack' = Append(t, Call("fill", Top.module))
      <4>1. /\ DOMAIN t = 1 .. Len(t) /\ Len(t) \in Nat
            /\ DOMAIN stack' = 1 .. Len(t) + 1
            /\ \A i \in 1 .. Len(t) : stack'[i] = t[i]
            /\ stack'[Len(t) + 1].module = Top.module
        BY <1>0, <2>1, <2>3, <3>2, PushShape
      <4>2. QED
        BY <2>1, <2>4, <4>1
    <3>3. QED
      BY <2>5, <3>1, <3>2
  <2>7. QED
    BY <1>0, <1>10, <2>1, <2>5, <2>6, RunVerdict DEF CheckLoaded
<1>11. ASSUME stack # << >>, stack' = Front(stack) \/ stack' = << >>
       PROVE  \A i \in DOMAIN stack' : stack'[i].module \in registered
  BY <1>0, <1>1, <1>11, PopShape
<1>12. CASE ReadSlot \/ Return
  <2>1. stack # << >> /\ outcome = "running"
    BY <1>0, <1>12, Alive DEF ReadSlot, Return
  <2>2. \A i \in DOMAIN stack' : stack'[i].module \in registered
    BY <1>11, <1>12, <2>1 DEF ReadSlot, Return
  <2>3. QED
    BY <1>0, <1>12, <2>1, <2>2, RunVerdict DEF ReadSlot, Return
<1>13. CASE CallFunction
  <2>1. PICK m \in Callable : stack' = Append(stack, Call("call", m))
    BY <1>13 DEF CallFunction
  <2>2. stack # << >> /\ outcome = "running" /\ m \in registered
    BY <1>0, <1>13, Alive DEF CallFunction, InCode, Callable
  <2>3. \A i \in DOMAIN stack' : stack'[i].module \in registered
    BY <1>7, <2>1, <2>2
  <2>4. QED
    BY <1>0, <1>13, <2>2, <2>3, RunVerdict DEF CallFunction
<1>14. CASE EndRun
  <2>1. stack # << >> /\ outcome = "running" /\ outcome' \in {"running", "done"}
    BY <1>0, <1>14, Alive DEF EndRun, Ends
  <2>2. \A i \in DOMAIN stack' : stack'[i].module \in registered
    BY <1>11, <1>14, <2>1 DEF EndRun, Ends
  <2>3. QED
    BY <1>0, <1>14, <2>1, <2>2, RunVerdict DEF EndRun
<1>15. CASE Fail
  <2>1. stack # << >> /\ outcome = "running"
    BY <1>0, <1>15, Alive DEF Fail, InCode
  <2>2. \A i \in DOMAIN stack' : stack'[i].module \in registered
    BY <1>11, <1>15, <2>1 DEF Fail, Ends
  <2>3. QED
    BY <1>0, <1>15, <2>1, <2>2, RunVerdict DEF Fail, Ends
<1>16. CASE UNCHANGED vars
  <2>1. Reachable' = Reachable /\ \A m \in Module : Broken(m)' <=> Broken(m)
    BY <1>16, FilesStay DEF vars
  <2>2. LoadVerdict'
    BY <1>16, <2>1 DEF vars, LoadInv, LoadVerdict, Reachable
  <2>3. QED
    BY <1>16, <2>1, <2>2 DEF vars, LoadInv, Visited, Imports
<1>17. QED
  BY <1>2, <1>3, <1>4, <1>5, <1>6, <1>8, <1>9, <1>10, <1>12, <1>13, <1>14, <1>15,
     <1>16 DEF Next, Load, Exited

(* Loading reaches the verdict the files deserve, for any files and any    *)
(* imports between them, cycles included: the search visits exactly the    *)
(* reachable modules, fails only at a broken one, and never misses one.    *)
THEOREM Verdict == Spec => []LoadVerdict
<1>1. Init => LoadInv
  BY LenProperties, EmptySeq DEF Init, LoadInv, LoadVerdict
<1>2. TypeOK /\ ExecInv /\ LoadInv /\ [Next]_vars => LoadInv'
  BY VerdictKept
<1>3. LoadInv => LoadVerdict
  BY DEF LoadInv
<1>4. QED
  BY <1>1, <1>2, <1>3, TypeCorrect, ExecInvariance, PTL DEF Spec

=============================================================================
