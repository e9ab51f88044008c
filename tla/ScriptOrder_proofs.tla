--------------------------- MODULE ScriptOrder_proofs ---------------------------
(***************************************************************************)
(* Proofs about ScriptOrder, for any set of files, any database and any    *)
(* request.                                                                *)
(***************************************************************************)
EXTENDS ScriptOrder, SequenceTheorems, TLAPS

Frame == [file : File \cup {"top"}, todo : Seq(File)]

-----------------------------------------------------------------------------
(* Sequences.                                                              *)

\* A sequence is its head and its tail.
LEMMA HeadTailRange ==
    ASSUME NEW S, NEW s \in Seq(S), s # <<>>
    PROVE  /\ Head(s) \in S /\ Tail(s) \in Seq(S)
           /\ Range(s) = {Head(s)} \cup Range(Tail(s))
<1>1. /\ Head(s) \in S /\ Tail(s) \in Seq(S) /\ Len(Tail(s)) = Len(s) - 1
      /\ \A i \in 1..Len(Tail(s)) : Tail(s)[i] = s[i + 1]
  BY HeadTailProperties
<1>2. /\ DOMAIN s = 1..Len(s) /\ Len(s) \in Nat \ {0} /\ Head(s) = s[1]
      /\ DOMAIN Tail(s) = 1..Len(Tail(s))
  BY <1>1
<1>3. \A i \in 2..Len(s) : i - 1 \in 1..Len(Tail(s)) /\ s[i] = Tail(s)[i - 1]
  BY <1>1, <1>2
<1>4. Range(s) \subseteq {Head(s)} \cup Range(Tail(s))
  <2> SUFFICES ASSUME NEW i \in 1..Len(s) PROVE s[i] \in {Head(s)} \cup Range(Tail(s))
    BY <1>2 DEF Range
  <2>1. CASE i = 1
    BY <2>1, <1>2
  <2>2. CASE i # 1
    <3>1. i \in 2..Len(s)
      BY <2>2, <1>2
    <3>2. i - 1 \in DOMAIN Tail(s) /\ s[i] = Tail(s)[i - 1]
      BY <3>1, <1>2, <1>3
    <3> QED BY <3>2 DEF Range
  <2> QED BY <2>1, <2>2
<1>5. {Head(s)} \cup Range(Tail(s)) \subseteq Range(s)
  BY <1>1, <1>2 DEF Range
<1> QED BY <1>1, <1>4, <1>5

\* A sequence extended by one element.
LEMMA AppendRange ==
    ASSUME NEW S, NEW s \in Seq(S), NEW e \in S
    PROVE  /\ Append(s, e) \in Seq(S) /\ Append(s, e) # <<>>
           /\ Len(Append(s, e)) = Len(s) + 1
           /\ \A i \in 1..Len(s) : Append(s, e)[i] = s[i]
           /\ Append(s, e)[Len(s) + 1] = e
           /\ DOMAIN s = 1..Len(s) /\ DOMAIN Append(s, e) = 1..(Len(s) + 1)
           /\ Range(Append(s, e)) = Range(s) \cup {e}
           /\ IsInjective(s) /\ e \notin Range(s) => IsInjective(Append(s, e))
<1>1. /\ Append(s, e) \in Seq(S) /\ Append(s, e) # <<>>
      /\ Len(Append(s, e)) = Len(s) + 1
      /\ \A i \in 1..Len(s) : Append(s, e)[i] = s[i]
      /\ Append(s, e)[Len(s) + 1] = e
      /\ DOMAIN s = 1..Len(s) /\ DOMAIN Append(s, e) = 1..(Len(s) + 1)
  BY AppendProperties
<1>2. Len(s) \in Nat
  OBVIOUS
<1>3. Range(Append(s, e)) = Range(s) \cup {e}
  BY <1>1, <1>2 DEF Range
<1>4. IsInjective(s) /\ e \notin Range(s) => IsInjective(Append(s, e))
  BY <1>1, <1>2 DEF Range, IsInjective
<1> QED BY <1>1, <1>3, <1>4

-----------------------------------------------------------------------------
(* The stack.                                                              *)

\* The database is a set of known files with their lists and categories.
LEMMA Types ==
    ASSUME TypeOK
    PROVE  /\ db.known \in SUBSET File
           /\ db.deps \in [File -> Seq(File)] /\ db.category \in [File -> Category]
           /\ request \in Seq(File)
           /\ stack \in Seq(Frame) /\ Len(stack) \in Nat \ {0}
           /\ Top \in Frame /\ Top.todo \in Seq(File) /\ stack[1].todo \in Seq(File)
           /\ \A i \in 1..Len(stack) : stack[i] \in Frame
<1>1. /\ db.known \in SUBSET File
      /\ db.deps \in [File -> Seq(File)] /\ db.category \in [File -> Category]
      /\ request \in Seq(File)
  BY OrderAssumption DEF TypeOK
<1>2. stack \in Seq(Frame) /\ stack # <<>>
  BY DEF TypeOK, Frame
<1>3. Len(stack) \in Nat \ {0} /\ \A i \in 1..Len(stack) : stack[i] \in Frame
  BY <1>2
<1>4. Top \in Frame /\ stack[1] \in Frame
  BY <1>3 DEF Top
<1> QED BY <1>1, <1>2, <1>3, <1>4 DEF Frame

\* The next file leaves the list of the innermost call.
LEMMA Advance ==
    ASSUME TypeOK, Loading
    PROVE  /\ Advanced \in Seq(Frame) /\ Advanced # <<>> /\ Len(Advanced) = Len(stack)
           /\ \A i \in 1..Len(stack) : i # Len(stack) => Advanced[i] = stack[i]
           /\ Advanced[Len(stack)].file = Top.file
           /\ Advanced[Len(stack)].todo = Tail(Top.todo)
           /\ NextFile \in File
           /\ Range(Top.todo) = {NextFile} \cup Range(Tail(Top.todo))
<1>1. /\ NextFile \in File /\ Tail(Top.todo) \in Seq(File)
      /\ Range(Top.todo) = {NextFile} \cup Range(Tail(Top.todo))
  BY Types, HeadTailRange DEF Loading, NextFile
<1> DEFINE e == [Top EXCEPT !.todo = Tail(@)]
<1>2. e \in Frame /\ e.file = Top.file /\ e.todo = Tail(Top.todo)
  BY <1>1, Types DEF Frame
<1>3. Advanced = [stack EXCEPT ![Len(stack)] = e]
  BY DEF Advanced, Top
<1>4. Len(stack) \in 1..Len(stack)
  BY Types
<1> HIDE DEF e
<1>5. /\ Advanced \in Seq(Frame) /\ Len(Advanced) = Len(stack)
      /\ \A j \in 1..Len(stack) : Advanced[j] = IF j = Len(stack) THEN e ELSE stack[j]
  BY <1>2, <1>3, <1>4, Types, ExceptSeq
<1>6. Advanced # <<>>
  BY <1>5, Types
<1> QED BY <1>1, <1>2, <1>4, <1>5, <1>6

\* The innermost call is left.
LEMMA Shrink ==
    ASSUME TypeOK, Len(stack) > 1
    PROVE  /\ Outer \in Seq(Frame) /\ Outer # <<>> /\ Len(Outer) = Len(stack) - 1
           /\ \A i \in 1..(Len(stack) - 1) : Outer[i] = stack[i]
<1>1. PICK n \in Nat : n = Len(stack) /\ n > 1
  BY Types
<1>2. /\ n - 1 \in Nat \ {0}
      /\ \A i \in 1..(n - 1) : stack[i] \in Frame
  <2>1. n - 1 \in Nat \ {0} /\ \A i \in 1..(n - 1) : i \in 1..n
    BY <1>1
  <2>2. \A i \in 1..n : stack[i] \in Frame
    BY <1>1, Types
  <2> QED BY <2>1, <2>2
<1>3. /\ SubSeq(stack, 1, n - 1) \in Seq(Frame)
      /\ Len(SubSeq(stack, 1, n - 1)) = n - 1
      /\ \A i \in 1..(n - 1) : SubSeq(stack, 1, n - 1)[i] = stack[i]
  <2>1. ASSUME NEW m \in Nat \ {0}, m = n - 1
        PROVE  /\ SubSeq(stack, 1, m) \in Seq(Frame)
               /\ Len(SubSeq(stack, 1, m)) = m
               /\ \A i \in 1..m : SubSeq(stack, 1, m)[i] = stack[i]
    BY <1>2, <2>1, SubSeqProperties
  <2> QED BY <1>2, <2>1
<1>4. Outer = SubSeq(stack, 1, n - 1)
  BY <1>1 DEF Outer
<1>5. SubSeq(stack, 1, n - 1) # <<>>
  BY <1>2, <1>3
<1> QED BY <1>1, <1>3, <1>4, <1>5

\* What a step that passes a file over does to the stack.
LEMMA SkipFacts ==
    ASSUME TypeOK, Loading, stack' = Advanced
    PROVE  /\ stack' \in Seq(Frame) /\ stack' # <<>> /\ Len(stack') = Len(stack)
           /\ \A i \in 1..Len(stack) : stack'[i].file = stack[i].file
           /\ \A i \in 1..Len(stack) : i # Len(stack) => stack'[i].todo = stack[i].todo
           /\ NextFile \in File
           /\ Range(stack[Len(stack)].todo) = {NextFile} \cup Range(stack'[Len(stack)].todo)
BY Advance, Types DEF Top

\* What the step that calls for a new file does to it.
LEMMA EnterFacts ==
    ASSUME TypeOK, Enter
    PROVE  /\ stack' \in Seq(Frame) /\ stack' # <<>> /\ Len(stack') = Len(stack) + 1
           /\ \A i \in 1..Len(stack) : stack'[i].file = stack[i].file
           /\ \A i \in 1..Len(stack) : i # Len(stack) => stack'[i].todo = stack[i].todo
           /\ NextFile \in File
           /\ Range(stack[Len(stack)].todo) = {NextFile} \cup Range(stack'[Len(stack)].todo)
           /\ stack'[Len(stack) + 1].file = NextFile
           /\ stack'[Len(stack) + 1].todo = db.deps[NextFile]
<1> DEFINE e == [file |-> NextFile, todo |-> db.deps[NextFile]]
<1>1. stack' = Append(Advanced, e) /\ Loading
  BY DEF Enter
<1>2. e \in Frame /\ e.file = NextFile /\ e.todo = db.deps[NextFile]
  BY <1>1, Advance, Types DEF Frame
<1> HIDE DEF e
<1>3. /\ stack' \in Seq(Frame) /\ stack' # <<>> /\ Len(stack') = Len(stack) + 1
      /\ \A i \in 1..Len(stack) : stack'[i] = Advanced[i]
      /\ stack'[Len(stack) + 1] = e
  BY <1>1, <1>2, Advance, AppendRange
<1>4. Len(stack) \in 1..Len(stack) /\ Top = stack[Len(stack)]
  BY Types DEF Top
<1> QED BY <1>1, <1>2, <1>3, <1>4, Advance

\* What the step that leaves a call does to the stack and the order.
LEMMA LeaveFacts ==
    ASSUME TypeOK, Leave
    PROVE  /\ stack' \in Seq(Frame) /\ stack' # <<>> /\ Len(stack') = Len(stack) - 1
           /\ \A i \in 1..(Len(stack) - 1) : stack'[i] = stack[i]
           /\ stack[Len(stack)].todo = <<>>
           /\ Len(stack) > 1
           /\ Top.file = stack[Len(stack)].file
BY Shrink DEF Leave, Top

\* What it does to the order, when the script is a known file.
LEMMA LeaveOrder ==
    ASSUME TypeOK, Leave, Top.file \in File
    PROVE  /\ loadOrder' \in Seq(File) /\ Len(loadOrder') = Len(loadOrder) + 1
           /\ \A i \in 1..Len(loadOrder) : loadOrder'[i] = loadOrder[i]
           /\ loadOrder'[Len(loadOrder) + 1] = Top.file
           /\ DOMAIN loadOrder = 1..Len(loadOrder)
           /\ DOMAIN loadOrder' = 1..(Len(loadOrder) + 1)
           /\ Range(loadOrder') = Range(loadOrder) \cup {Top.file}
           /\ IsInjective(loadOrder) /\ Top.file \notin Range(loadOrder)
                 => IsInjective(loadOrder')
BY AppendRange DEF Leave, TypeOK

\* What the step that places a script does to the lists.
LEMMA PlaceFacts ==
    ASSUME TypeOK, Place
    PROVE  /\ placed' = placed + 1 /\ placed' \in 1..Len(loadOrder)
           /\ loadOrder[placed'] \in File
           /\ db.category[loadOrder[placed']] \in Category
           /\ mGroupedScripts' =
                 [mGroupedScripts EXCEPT ![db.category[loadOrder[placed']]] =
                     Append(@, loadOrder[placed'])]
           /\ mGroupedScripts \in [Category -> Seq(File)]
<1>1. /\ placed' = placed + 1 /\ placed' \in 1..Len(loadOrder)
      /\ mGroupedScripts' =
            [mGroupedScripts EXCEPT ![db.category[loadOrder[placed']]] =
                Append(@, loadOrder[placed'])]
      /\ mGroupedScripts \in [Category -> Seq(File)] /\ loadOrder \in Seq(File)
  BY DEF Place, TypeOK
<1>2. loadOrder[placed'] \in File
  BY <1>1
<1> QED BY <1>1, <1>2, Types

-----------------------------------------------------------------------------
(* Dependence.                                                             *)

\* A file depends on itself and on its own list, and dependence is transitive.
LEMMA Dependence ==
    ASSUME NEW d, NEW f \in File, NEW g \in File
    PROVE  /\ Depends(d, f, f)
           /\ g \in d.known /\ f \in Range(d.deps[g]) => Depends(d, g, f)
           /\ \A h \in File : Depends(d, h, g) /\ Depends(d, g, f) => Depends(d, h, f)
BY DEF Depends, Closed

\* The set of files met is closed when nothing is left to load.
LEMMA DependsWithin ==
    ASSUME NEW d, NEW S \in SUBSET File, Closed(d, S), NEW g \in S, NEW f,
           Depends(d, g, f)
    PROVE  f \in S
BY DEF Depends

-----------------------------------------------------------------------------
(* Every step keeps the parts of the invariant.                            *)

Skip == SkipLoaded \/ SkipUnknown
Stop == FailUnknown \/ LoadEnd \/ GroupEnd

LEMMA TypeStep ==
    ASSUME TypeOK, StackInv, Next
    PROVE  TypeOK'
<1>1. CASE Skip
  <2>1. stack' \in Seq(Frame) /\ stack' # <<>>
    BY <1>1, SkipFacts DEF Skip, SkipLoaded, SkipUnknown
  <2> QED BY <1>1, <2>1
      DEF Skip, SkipLoaded, SkipUnknown, TypeOK, Frame, groupVars
<1>2. CASE Stop
  BY <1>2 DEF Stop, FailUnknown, LoadEnd, GroupEnd, TypeOK, groupVars
<1>3. CASE Enter
  <2>1. stack' \in Seq(Frame) /\ stack' # <<>> /\ NextFile \in File
    BY <1>3, EnterFacts
  <2> QED BY <1>3, <2>1 DEF Enter, TypeOK, Frame, groupVars
<1>4. CASE Leave
  <2>1. stack' \in Seq(Frame) /\ stack' # <<>>
    BY <1>4, LeaveFacts
  <2>2. Top.file \in File
    <3>1. Len(stack) \in 2..Len(stack) /\ Top = stack[Len(stack)]
      BY <1>4, Types DEF Leave, Top
    <3> QED BY <3>1 DEF StackInv, TypeOK
  <2>3. loadOrder' \in Seq(File) /\ Len(loadOrder') = Len(loadOrder) + 1
    BY <1>4, <2>2, LeaveOrder
  <2>4. placed' \in 0..Len(loadOrder')
    BY <1>4, <2>3 DEF Leave, TypeOK, groupVars
  <2> QED BY <1>4, <2>1, <2>3, <2>4 DEF Leave, TypeOK, Frame, groupVars
<1>5. CASE Place
  <2>1. mGroupedScripts' \in [Category -> Seq(File)]
    <3> DEFINE c == db.category[loadOrder[placed']]
               s == mGroupedScripts[c]
    <3>1. c \in Category /\ s \in Seq(File) /\ loadOrder[placed'] \in File
      BY <1>5, PlaceFacts
    <3>2. Append(s, loadOrder[placed']) \in Seq(File)
      BY <3>1, AppendRange
    <3>3. mGroupedScripts' = [mGroupedScripts EXCEPT ![c] = Append(s, loadOrder[placed'])]
      BY <1>5, PlaceFacts
    <3> HIDE DEF s, c
    <3> QED BY <1>5, <3>1, <3>2, <3>3, PlaceFacts
  <2>2. placed' \in 0..Len(loadOrder)
    BY <1>5, PlaceFacts
  <2> QED BY <1>5, <2>1, <2>2 DEF Place, TypeOK, Frame
<1> QED BY <1>1, <1>2, <1>3, <1>4, <1>5 DEF Next, Skip, Stop

LEMMA StackStep ==
    ASSUME TypeOK, StackInv, Next
    PROVE  StackInv'
<1> PICK n \in Nat \ {0} : n = Len(stack)
  BY Types
<1>1. CASE Skip
  <2>1. Len(stack') = n /\ \A i \in 1..n : stack'[i].file = stack[i].file
    BY <1>1, SkipFacts DEF Skip, SkipLoaded, SkipUnknown
  <2>2. UNCHANGED <<db, loaded, loadOrder>>
    BY <1>1 DEF Skip, SkipLoaded, SkipUnknown
  <2> QED BY <2>1, <2>2 DEF StackInv
<1>2. CASE Stop \/ Place
  BY <1>2 DEF Stop, FailUnknown, LoadEnd, GroupEnd, Place, StackInv
<1>3. CASE Enter
  <2>1. /\ Len(stack') = n + 1 /\ \A i \in 1..n : stack'[i].file = stack[i].file
        /\ stack'[n + 1].file = NextFile
    BY <1>3, EnterFacts
  <2>2. /\ loaded' = loaded \cup {NextFile} /\ NextFile \in db.known \ loaded
        /\ UNCHANGED <<db, loadOrder>>
    BY <1>3 DEF Enter
  <2>3. \A i \in 2..(n + 1) : i = n + 1 \/ i \in 2..n
    OBVIOUS
  <2>4. \A i \in 2..n : stack'[i].file = stack[i].file /\ stack[i].file \in loaded \ Range(loadOrder)
    BY <2>1 DEF StackInv
  <2>5. \A i \in 2..(n + 1) : stack'[i].file \in loaded' \ Range(loadOrder')
    BY <2>1, <2>2, <2>3, <2>4 DEF StackInv
  <2>6. \A i, j \in 2..(n + 1) : stack'[i].file = stack'[j].file => i = j
    BY <2>1, <2>2, <2>3, <2>4 DEF StackInv
  <2>7. n + 1 \in 2..(n + 1) /\ \A i \in 2..n : i \in 2..(n + 1)
    OBVIOUS
  <2>8. \A f \in loaded' \ Range(loadOrder') : \E i \in 2..(n + 1) : stack'[i].file = f
    BY <2>1, <2>2, <2>4, <2>7 DEF StackInv
  <2>9. /\ Range(loadOrder') \subseteq loaded' /\ loaded' \subseteq db'.known
        /\ IsInjective(loadOrder')
    BY <2>2 DEF StackInv
  <2> QED BY <2>1, <2>5, <2>6, <2>8, <2>9 DEF StackInv
<1>4. CASE Leave
  <2>1. /\ Len(stack') = n - 1 /\ \A i \in 1..(n - 1) : stack'[i] = stack[i]
        /\ n > 1 /\ Top.file = stack[n].file
    BY <1>4, LeaveFacts
  <2>2. n \in 2..n /\ \A i \in 2..n : i = n \/ i \in 2..(n - 1)
    BY <2>1
  <2>3. Top.file \in loaded \ Range(loadOrder)
    BY <2>1, <2>2 DEF StackInv
  <2>4. Range(loadOrder') = Range(loadOrder) \cup {Top.file} /\ IsInjective(loadOrder')
    BY <1>4, <2>3, LeaveOrder DEF StackInv, TypeOK
  <2>5. UNCHANGED <<db, loaded>>
    BY <1>4 DEF Leave
  <2>6. \A i \in 2..(n - 1) : stack'[i] = stack[i] /\ i \in 2..n /\ i # n
    BY <2>1
  <2>7. \A i \in 2..(n - 1) : stack'[i].file \in loaded' \ Range(loadOrder')
    BY <2>1, <2>2, <2>4, <2>5, <2>6 DEF StackInv
  <2>8. \A i, j \in 2..(n - 1) : stack'[i].file = stack'[j].file => i = j
    BY <2>6 DEF StackInv
  <2>9. ASSUME NEW f \in loaded' \ Range(loadOrder')
        PROVE  \E i \in 2..(n - 1) : stack'[i].file = f
    <3>1. f \in loaded \ Range(loadOrder) /\ f # stack[n].file
      BY <2>1, <2>4, <2>5
    <3>2. PICK i \in 2..n : stack[i].file = f
      BY <3>1 DEF StackInv
    <3>3. i \in 2..(n - 1)
      BY <2>2, <3>1, <3>2
    <3> QED BY <2>6, <3>2, <3>3
  <2>10. Range(loadOrder') \subseteq loaded' /\ loaded' \subseteq db'.known
    BY <2>3, <2>4, <2>5 DEF StackInv
  <2> QED BY <2>1, <2>4, <2>7, <2>8, <2>9, <2>10 DEF StackInv
<1> QED BY <1>1, <1>2, <1>3, <1>4 DEF Next, Skip, Stop

LEMMA TodoStep ==
    ASSUME TypeOK, StackInv, TodoInv, Next
    PROVE  TodoInv'
<1> PICK n \in Nat \ {0} : n = Len(stack)
  BY Types
<1>0. UNCHANGED <<db, request>> /\ Requested' = Requested
  BY DEF Next, SkipLoaded, SkipUnknown, FailUnknown, Enter, Leave, LoadEnd, Place,
         GroupEnd, Requested
<1>1. CASE Skip
  <2>1. /\ Len(stack') = n /\ \A i \in 1..n : stack'[i].file = stack[i].file
        /\ \A i \in 1..n : i # n => stack'[i].todo = stack[i].todo
        /\ Range(stack[n].todo) = {NextFile} \cup Range(stack'[n].todo)
    BY <1>1, SkipFacts DEF Skip, SkipLoaded, SkipUnknown
  <2>2. UNCHANGED <<loaded, loadOrder>> /\ (NextFile \in loaded \/ (NextFile \notin db.known /\ n = 1))
    BY <1>1 DEF Skip, SkipLoaded, SkipUnknown
  <2>3. 1 \in 1..n /\ \A i \in 2..n : i \in 1..n /\ n # 1
    OBVIOUS
  <2>4. /\ Range(stack'[1].todo) \subseteq Range(request)
        /\ Requested \subseteq loaded \cup Range(stack'[1].todo)
    <3>1. CASE n = 1
      BY <3>1, <2>1, <2>2, <2>3 DEF TodoInv, Requested
    <3>2. CASE n # 1
      BY <3>2, <2>1, <2>3 DEF TodoInv
    <3> QED BY <3>1, <3>2
  <2>5. ASSUME NEW i \in 2..n
        PROVE  /\ Range(stack'[i].todo) \subseteq Range(db.deps[stack'[i].file])
               /\ Range(db.deps[stack'[i].file]) \subseteq loaded \cup Range(stack'[i].todo)
    <3>1. CASE i = n
      BY <3>1, <2>1, <2>2, <2>3 DEF TodoInv
    <3>2. CASE i # n
      BY <3>2, <2>1, <2>3 DEF TodoInv
    <3> QED BY <3>1, <3>2
  <2> QED BY <1>0, <2>1, <2>2, <2>4, <2>5 DEF TodoInv
<1>2. CASE Stop \/ Place
  BY <1>0, <1>2 DEF Stop, FailUnknown, LoadEnd, GroupEnd, Place, TodoInv
<1>3. CASE Enter
  <2>1. /\ Len(stack') = n + 1 /\ \A i \in 1..n : stack'[i].file = stack[i].file
        /\ \A i \in 1..n : i # n => stack'[i].todo = stack[i].todo
        /\ Range(stack[n].todo) = {NextFile} \cup Range(stack'[n].todo)
        /\ stack'[n + 1].file = NextFile /\ stack'[n + 1].todo = db.deps[NextFile]
    BY <1>3, EnterFacts
  <2>2. loaded' = loaded \cup {NextFile} /\ UNCHANGED loadOrder
    BY <1>3 DEF Enter
  <2>3. 1 \in 1..n /\ (\A i \in 2..n : i \in 1..n /\ n # 1)
        /\ \A i \in 2..(n + 1) : i = n + 1 \/ i \in 2..n
    OBVIOUS
  <2>4. /\ Range(stack'[1].todo) \subseteq Range(request)
        /\ Requested \subseteq loaded' \cup Range(stack'[1].todo)
    <3>1. CASE n = 1
      BY <3>1, <2>1, <2>2, <2>3 DEF TodoInv
    <3>2. CASE n # 1
      BY <3>2, <2>1, <2>2, <2>3 DEF TodoInv
    <3> QED BY <3>1, <3>2
  <2>5. ASSUME NEW i \in 2..(n + 1)
        PROVE  /\ Range(stack'[i].todo) \subseteq Range(db.deps[stack'[i].file])
               /\ Range(db.deps[stack'[i].file]) \subseteq loaded' \cup Range(stack'[i].todo)
    <3>1. CASE i = n + 1
      BY <3>1, <2>1
    <3>2. CASE i \in 2..n /\ i = n
      BY <3>2, <2>1, <2>2, <2>3 DEF TodoInv
    <3>3. CASE i \in 2..n /\ i # n
      BY <3>3, <2>1, <2>2, <2>3 DEF TodoInv
    <3> QED BY <2>3, <3>1, <3>2, <3>3
  <2> QED BY <1>0, <2>1, <2>2, <2>4, <2>5 DEF TodoInv
<1>4. CASE Leave
  <2>1. /\ Len(stack') = n - 1 /\ \A i \in 1..(n - 1) : stack'[i] = stack[i]
        /\ n > 1 /\ Top.file = stack[n].file /\ stack[n].todo = <<>>
    BY <1>4, LeaveFacts
  <2>2. n \in 2..n /\ 1 \in 1..(n - 1) /\ \A i \in 2..(n - 1) : i \in 2..n /\ i \in 1..(n - 1)
    BY <2>1
  <2>3. Top.file \in loaded
    BY <2>1, <2>2 DEF StackInv
  <2>4. Range(loadOrder') = Range(loadOrder) \cup {Top.file} /\ UNCHANGED loaded
    BY <1>4, <2>3, LeaveOrder DEF Leave, TypeOK
  <2>5. Range(db.deps[Top.file]) \subseteq loaded
    <3>1. Range(stack[n].todo) = {}
      BY <2>1 DEF Range
    <3> QED BY <2>1, <2>2, <3>1 DEF TodoInv
  <2>6. \A f \in Range(loadOrder') : Range(db.deps[f]) \subseteq loaded
    BY <2>4, <2>5 DEF TodoInv
  <2>7. /\ Range(stack'[1].todo) \subseteq Range(request)
        /\ Requested \subseteq loaded \cup Range(stack'[1].todo)
    BY <2>1, <2>2 DEF TodoInv
  <2>8. \A i \in 2..(n - 1) :
          /\ Range(stack'[i].todo) \subseteq Range(db.deps[stack'[i].file])
          /\ Range(db.deps[stack'[i].file]) \subseteq loaded \cup Range(stack'[i].todo)
    BY <2>1, <2>2 DEF TodoInv
  <2> QED BY <1>0, <2>1, <2>4, <2>6, <2>7, <2>8 DEF TodoInv
<1> QED BY <1>1, <1>2, <1>3, <1>4 DEF Next, Skip, Stop

\* A file that is called for is one its caller depends on.
LEMMA NextDepends ==
    ASSUME TypeOK, StackInv, TodoInv, Enter
    PROVE  /\ Len(stack) = 1 => NextFile \in Requested
           /\ Len(stack) > 1 => /\ Len(stack) \in 2..Len(stack)
                                /\ stack[Len(stack)].file \in loaded
                                /\ DependsOn(stack[Len(stack)].file, NextFile)
<1>1. NextFile \in db.known /\ NextFile \in Range(stack[Len(stack)].todo) /\ NextFile \in File
  BY EnterFacts DEF Enter
<1>2. CASE Len(stack) = 1
  BY <1>1, <1>2 DEF TodoInv, Requested
<1>3. CASE Len(stack) > 1
  <2>1. Len(stack) \in 2..Len(stack)
    BY <1>3, Types
  <2>2. /\ stack[Len(stack)].file \in loaded /\ stack[Len(stack)].file \in db.known
        /\ NextFile \in Range(db.deps[stack[Len(stack)].file])
    BY <1>1, <2>1 DEF StackInv, TodoInv
  <2>3. stack[Len(stack)].file \in File
    BY <2>2 DEF TypeOK
  <2>4. DependsOn(stack[Len(stack)].file, NextFile)
    BY <1>1, <2>2, <2>3, Dependence DEF DependsOn
  <2> QED BY <1>3, <2>1, <2>2, <2>4
<1> QED BY <1>2, <1>3

LEMMA ReachStep ==
    ASSUME TypeOK, StackInv, TodoInv, ReachInv, Next
    PROVE  ReachInv'
<1>0. UNCHANGED <<db, request>> /\ Requested' = Requested
  BY DEF Next, SkipLoaded, SkipUnknown, FailUnknown, Enter, Leave, LoadEnd, Place,
         GroupEnd, Requested
<1>1. CASE Enter
  <2>1. \E g \in Requested : Depends(db, g, NextFile)
    <3>0. NextFile \in File /\ Requested \subseteq File /\ loaded \subseteq File
      BY <1>1, EnterFacts, Types DEF Requested, TypeOK
    <3>1. CASE Len(stack) = 1
      BY <1>1, <3>0, <3>1, NextDepends, Dependence
    <3>2. CASE Len(stack) > 1
      <4>1. PICK h \in loaded : Depends(db, h, NextFile)
        BY <1>1, <3>2, NextDepends DEF DependsOn
      <4>2. PICK g \in Requested : Depends(db, g, h)
        BY <4>1 DEF ReachInv, DependsOn
      <4>3. g \in File /\ h \in File
        BY <3>0, <4>1, <4>2
      <4>4. Depends(db, g, NextFile)
        BY <3>0, <4>1, <4>2, <4>3, Dependence
      <4> QED BY <4>2, <4>4
    <3>3. PICK n \in Nat \ {0} : n = Len(stack)
      BY Types
    <3>4. Len(stack) = 1 \/ Len(stack) > 1
      BY <3>3
    <3> QED BY <3>1, <3>2, <3>4
  <2>2. loaded' = loaded \cup {NextFile}
    BY <1>1 DEF Enter
  <2> QED BY <1>0, <2>1, <2>2 DEF ReachInv, DependsOn
<1>2. CASE ~Enter
  <2>1. UNCHANGED loaded
    BY <1>2 DEF Next, SkipLoaded, SkipUnknown, FailUnknown, Leave, LoadEnd, Place, GroupEnd
  <2> QED BY <1>0, <2>1 DEF ReachInv, DependsOn
<1> QED BY <1>1, <1>2

LEMMA OrderStep ==
    ASSUME TypeOK, StackInv, TodoInv, OrderInv, Next
    PROVE  OrderInv'
<1> PICK n \in Nat \ {0} : n = Len(stack)
  BY Types
<1> USE DEF DependsOn
<1>0. UNCHANGED db
  BY DEF Next, SkipLoaded, SkipUnknown, FailUnknown, Enter, Leave, LoadEnd, Place, GroupEnd
<1>1. CASE Skip
  <2>1. Len(stack') = n /\ \A i \in 1..n : stack'[i].file = stack[i].file
    BY <1>1, SkipFacts DEF Skip, SkipLoaded, SkipUnknown
  <2>2. UNCHANGED loadOrder
    BY <1>1 DEF Skip, SkipLoaded, SkipUnknown
  <2> QED BY <1>0, <2>1, <2>2 DEF OrderInv
<1>2. CASE Stop \/ Place
  BY <1>0, <1>2 DEF Stop, FailUnknown, LoadEnd, GroupEnd, Place, OrderInv
<1>3. CASE Enter
  <2>1. /\ Len(stack') = n + 1 /\ \A i \in 1..n : stack'[i].file = stack[i].file
        /\ stack'[n + 1].file = NextFile /\ NextFile \in File
    BY <1>3, EnterFacts
  <2>2. UNCHANGED loadOrder
    BY <1>3 DEF Enter
  <2>3. \A i \in 2..(n + 1) : i = n + 1 \/ (i \in 2..n /\ i \in 1..n)
    OBVIOUS
  <2>4. ASSUME NEW i \in 2..n
        PROVE  Depends(db, stack[i].file, NextFile)
    <3>1. n > 1 /\ n \in 2..n
      OBVIOUS
    <3>2. Depends(db, stack[n].file, NextFile)
      BY <1>3, <3>1, NextDepends
    <3>3. Depends(db, stack[i].file, stack[n].file)
      BY <3>1 DEF OrderInv
    <3>4. stack[i].file \in File /\ stack[n].file \in File
      BY <3>1 DEF StackInv, TypeOK
    <3> QED BY <2>1, <3>2, <3>3, <3>4, Dependence
  <2>5. ASSUME NEW i \in 2..(n + 1), NEW j \in 2..(n + 1), i <= j
        PROVE  Depends(db, stack'[i].file, stack'[j].file)
    <3>1. CASE i = n + 1
      <4>1. j = n + 1
        BY <2>5, <3>1
      <4> QED BY <2>1, <3>1, <4>1, Dependence
    <3>2. CASE i \in 2..n /\ j = n + 1
      BY <2>1, <2>3, <2>4, <3>2
    <3>3. CASE i \in 2..n /\ j \in 2..n
      <4>1. stack'[i].file = stack[i].file /\ stack'[j].file = stack[j].file
        BY <2>1, <2>3, <3>3
      <4> QED BY <2>5, <3>3, <4>1 DEF OrderInv
    <3> QED BY <2>3, <3>1, <3>2, <3>3
  <2> QED BY <1>0, <2>1, <2>2, <2>5 DEF OrderInv
<1>4. CASE Leave
  <2>1. /\ Len(stack') = n - 1 /\ \A i \in 1..(n - 1) : stack'[i] = stack[i]
        /\ n > 1 /\ Top.file = stack[n].file /\ stack[n].todo = <<>>
    BY <1>4, LeaveFacts
  <2>2. n \in 2..n /\ \A i \in 2..(n - 1) : i \in 2..n /\ i \in 1..(n - 1)
    BY <2>1
  <2>3. Top.file \in loaded /\ Top.file \in File
    BY <2>1, <2>2 DEF StackInv, TypeOK
  <2> PICK m \in Nat : m = Len(loadOrder)
    BY DEF TypeOK
  <2>4. /\ \A i \in 1..m : loadOrder'[i] = loadOrder[i]
        /\ loadOrder'[m + 1] = Top.file
        /\ DOMAIN loadOrder = 1..m /\ DOMAIN loadOrder' = 1..(m + 1)
    BY <1>4, <2>3, LeaveOrder
  <2>5. ASSUME NEW f \in Range(db.deps[Top.file])
        PROVE  Depends(db, f, Top.file) \/ \E j \in 1..m : loadOrder[j] = f
    <3>1. Range(stack[n].todo) = {}
      BY <2>1 DEF Range
    <3>2. f \in loaded
      BY <2>1, <2>2, <3>1 DEF TodoInv
    <3>3. CASE f \in Range(loadOrder)
      BY <2>4, <3>3 DEF Range
    <3>4. CASE f \notin Range(loadOrder)
      <4>1. PICK i \in 2..n : stack[i].file = f
        BY <3>2, <3>4 DEF StackInv
      <4> QED BY <2>1, <2>2, <4>1 DEF OrderInv
    <3> QED BY <3>3, <3>4
  <2>6. ASSUME NEW i \in 1..(m + 1), NEW f \in Range(db.deps[loadOrder'[i]])
        PROVE  Depends(db, f, loadOrder'[i]) \/ \E j \in 1..(i - 1) : loadOrder'[j] = f
    <3>1. CASE i = m + 1
      <4>1. i - 1 = m
        BY <3>1
      <4> QED BY <2>4, <2>5, <3>1, <4>1
    <3>2. CASE i # m + 1
      <4>1. i \in 1..m /\ loadOrder'[i] = loadOrder[i] /\ \A j \in 1..(i - 1) : j \in 1..m
        BY <2>4, <3>2
      <4>2. Depends(db, f, loadOrder[i]) \/ \E j \in 1..(i - 1) : loadOrder[j] = f
        BY <2>4, <2>6, <4>1 DEF OrderInv
      <4> QED BY <2>4, <4>1, <4>2
    <3> QED BY <3>1, <3>2
  <2>7. \A i, j \in 2..(n - 1) : i <= j => Depends(db, stack'[i].file, stack'[j].file)
    BY <2>1, <2>2 DEF OrderInv
  <2> QED BY <1>0, <2>1, <2>4, <2>6, <2>7 DEF OrderInv
<1> QED BY <1>1, <1>2, <1>3, <1>4 DEF Next, Skip, Stop

\* A longer list keeps the order of what it held, and puts the new one last.
LEMMA BeforeAppend ==
    ASSUME NEW s \in Seq(File), NEW e \in File, NEW f, NEW g
    PROVE  /\ Before(s, f, g) => Before(Append(s, e), f, g)
           /\ f \in Range(s) => Before(Append(s, e), f, e)
<1> PICK n \in Nat : n = Len(s)
  OBVIOUS
<1>1. /\ DOMAIN s = 1..n /\ DOMAIN Append(s, e) = 1..(n + 1)
      /\ \A i \in 1..n : Append(s, e)[i] = s[i]
      /\ Append(s, e)[n + 1] = e
  BY AppendRange
<1>2. n + 1 \in 1..(n + 1) /\ \A i \in 1..n : i \in 1..(n + 1) /\ i < n + 1
  OBVIOUS
<1> QED BY <1>1, <1>2 DEF Before, Range

LEMMA GroupStep ==
    ASSUME TypeOK, EndInv, GroupInv, PlacedInv, Next
    PROVE  GroupInv' /\ PlacedInv'
<1>1. CASE Place
  <2> PICK p \in Nat : p = placed
    BY DEF TypeOK
  <2> DEFINE e == loadOrder[p + 1]
             c == db.category[e]
  <2>1. /\ placed' = p + 1 /\ e \in File /\ c \in Category /\ mGroupedScripts[c] \in Seq(File)
        /\ mGroupedScripts' = [mGroupedScripts EXCEPT ![c] = Append(@, e)]
        /\ mGroupedScripts \in [Category -> Seq(File)]
    BY <1>1, PlaceFacts
  <2>2. UNCHANGED <<db, loadOrder>>
    BY <1>1 DEF Place
  <2>3. /\ mGroupedScripts'[c] = Append(mGroupedScripts[c], e)
        /\ \A d \in Category : d # c => mGroupedScripts'[d] = mGroupedScripts[d]
    BY <2>1
  <2>4. \A i \in 1..p : loadOrder[i] \in File /\ db.category[loadOrder[i]] \in Category
    <3>1. \A i \in 1..p : i \in 1..Len(loadOrder)
      BY DEF TypeOK
    <3>2. \A i \in 1..p : loadOrder[i] \in File
      BY <3>1 DEF TypeOK
    <3> QED BY <3>2, Types
  <2>5. (\A i \in 1..(p + 1) : i = p + 1 \/ i \in 1..p) /\ p + 1 \in 1..(p + 1)
    OBVIOUS
  <2>6. ASSUME NEW i \in 1..(p + 1), NEW j \in 1..(p + 1), i < j,
               db.category[loadOrder[i]] = db.category[loadOrder[j]]
        PROVE  Before(mGroupedScripts'[db.category[loadOrder[j]]], loadOrder[i], loadOrder[j])
    <3>1. i \in 1..p
      BY <2>6
    <3>2. CASE j = p + 1
      <4>1. db.category[loadOrder[j]] = c /\ loadOrder[j] = e
        BY <3>2
      <4>2. loadOrder[i] \in Range(mGroupedScripts[c])
        BY <2>6, <3>1, <4>1 DEF PlacedInv
      <4>3. Before(Append(mGroupedScripts[c], e), loadOrder[i], e)
        BY <2>1, <4>2, BeforeAppend
      <4> QED BY <2>3, <4>1, <4>3
    <3>3. CASE j \in 1..p
      <4> DEFINE d == db.category[loadOrder[j]]
      <4>1. Before(mGroupedScripts[d], loadOrder[i], loadOrder[j]) /\ d \in Category
        BY <2>4, <2>6, <3>1, <3>3 DEF GroupInv
      <4>2. CASE d = c
        <5>1. Before(Append(mGroupedScripts[c], e), loadOrder[i], loadOrder[j])
          BY <2>1, <4>1, <4>2, BeforeAppend
        <5> QED BY <2>3, <4>2, <5>1
      <4>3. CASE d # c
        BY <2>3, <4>1, <4>3
      <4> QED BY <4>2, <4>3
    <3> QED BY <2>5, <3>2, <3>3
  <2>7. ASSUME NEW i \in 1..(p + 1)
        PROVE  loadOrder[i] \in Range(mGroupedScripts'[db.category[loadOrder[i]]])
    <3>1. Range(mGroupedScripts'[c]) = Range(mGroupedScripts[c]) \cup {e}
      BY <2>1, <2>3, AppendRange
    <3>2. CASE i = p + 1
      BY <3>1, <3>2
    <3>3. CASE i \in 1..p
      <4> DEFINE d == db.category[loadOrder[i]]
      <4>1. loadOrder[i] \in Range(mGroupedScripts[d]) /\ d \in Category
        BY <2>4, <3>3 DEF PlacedInv
      <4>2. d = c \/ mGroupedScripts'[d] = mGroupedScripts[d]
        BY <2>3, <4>1
      <4> HIDE DEF c, e
      <4> QED BY <3>1, <4>1, <4>2
    <3> QED BY <2>5, <3>2, <3>3
  <2> HIDE DEF e, c
  <2> QED BY <2>1, <2>2, <2>6, <2>7 DEF GroupInv, PlacedInv
<1>2. CASE Skip \/ Stop \/ Enter
  BY <1>2 DEF Skip, SkipLoaded, SkipUnknown, Stop, FailUnknown, LoadEnd, GroupEnd, Enter,
              GroupInv, PlacedInv, groupVars
<1>3. CASE Leave
  <2>1. placed' = 0
    BY <1>3 DEF Leave, EndInv, groupVars
  <2> QED BY <2>1 DEF GroupInv, PlacedInv
<1> QED BY <1>1, <1>2, <1>3 DEF Next, Skip, Stop

LEMMA EndStep ==
    ASSUME TypeOK, EndInv, Next
    PROVE  EndInv'
<1>0. CASE Skip \/ Enter \/ Leave
  BY <1>0 DEF Skip, SkipLoaded, SkipUnknown, Enter, Leave, Loading, groupVars, EndInv
<1>1. CASE FailUnknown
  BY <1>1 DEF FailUnknown, Loading, EndInv, Top, NextFile
<1>2. CASE LoadEnd
  BY <1>2 DEF LoadEnd, EndInv, Top
<1>3. CASE Place
  BY <1>3 DEF Place, EndInv
<1>4. CASE GroupEnd
  BY <1>4 DEF GroupEnd, EndInv, groupVars
<1> QED BY <1>0, <1>1, <1>2, <1>3, <1>4 DEF Next, Skip

LEMMA InitInv == Init => IndInv
<1> SUFFICES ASSUME Init PROVE IndInv
  OBVIOUS
<1>1. /\ stack = <<[file |-> "top", todo |-> request]>> /\ Len(stack) = 1
      /\ stack[1].todo = request /\ request \in Seq(File)
      /\ loaded = {} /\ loadOrder = <<>> /\ placed = 0 /\ status = "load"
      /\ Len(loadOrder) = 0 /\ Range(loadOrder) = {}
  BY OrderAssumption DEF Init, Range
<1>2. TypeOK
  <2>1. stack \in Seq(Frame) /\ stack # <<>>
    BY <1>1 DEF Frame
  <2>2. mGroupedScripts \in [Category -> Seq(File)]
    BY DEF Init
  <2>3. loadOrder \in Seq(File) /\ placed \in 0..Len(loadOrder)
    BY <1>1
  <2> QED BY <1>1, <2>1, <2>2, <2>3 DEF Init, TypeOK, Frame
<1>3. StackInv
  BY <1>1 DEF StackInv, IsInjective
<1>4. TodoInv
  BY <1>1 DEF TodoInv, Requested
<1>5. ReachInv /\ OrderInv /\ GroupInv /\ PlacedInv /\ EndInv
  BY <1>1 DEF ReachInv, OrderInv, GroupInv, PlacedInv, EndInv
<1> QED BY <1>2, <1>3, <1>4, <1>5 DEF IndInv

LEMMA StepInv == IndInv /\ [Next]_vars => IndInv'
<1> SUFFICES ASSUME IndInv, [Next]_vars PROVE IndInv'
  OBVIOUS
<1>1. CASE Next
  BY <1>1, TypeStep, StackStep, TodoStep, ReachStep, OrderStep, GroupStep, EndStep DEF IndInv
<1>2. CASE UNCHANGED vars
  <2> USE <1>2 DEF vars, groupVars, IndInv
  <2>1. TypeOK'
    BY DEF TypeOK
  <2>2. StackInv' /\ TodoInv'
    BY DEF StackInv, TodoInv, Requested
  <2>3. ReachInv' /\ OrderInv'
    BY DEF ReachInv, OrderInv, Requested, DependsOn
  <2>4. GroupInv' /\ PlacedInv' /\ EndInv'
    BY DEF GroupInv, PlacedInv, EndInv, Top, NextFile
  <2> QED BY <2>1, <2>2, <2>3, <2>4
<1> QED BY <1>1, <1>2

-----------------------------------------------------------------------------
(* The theorems.                                                           *)

\* The inductive invariant of HostsTask::InitScripts (taskmgr.cc 482-569).
THEOREM IndInvariant == Spec => []IndInv
BY InitInv, StepInv, PTL DEF Spec

\* Every variable keeps its type.
THEOREM TypeCorrect == Spec => []TypeOK
<1>1. IndInv => TypeOK
  BY DEF IndInv
<1> QED BY <1>1, IndInvariant, PTL

\* A task that starts runs exactly the requested scripts and what they depend
\* on, each once; it fails to start only if one of those is missing
\* (loadScripts, taskmgr.cc 487-519).
THEOREM SelectionExact == Spec => []LoadsExactly
<1>1. ASSUME IndInv PROVE LoadsExactly
  <2> USE <1>1 DEF IndInv
  <2>0. Requested \subseteq File /\ db.known \subseteq File /\ loaded \subseteq File
    BY Types DEF Requested, TypeOK
  <2>1. ASSUME status = "loaded"
        PROVE  /\ IsInjective(loadOrder)
               /\ \A f \in File :
                    f \in Range(loadOrder) <=> \E g \in Requested : DependsOn(g, f)
    <3>1. Len(stack) = 1 /\ Range(stack[1].todo) = {}
      BY <2>1 DEF EndInv, Range
    <3>2. loaded = Range(loadOrder)
      BY <3>1 DEF StackInv
    <3>3. Requested \subseteq loaded
      BY <3>1 DEF TodoInv
    <3>4. Closed(db, loaded)
      BY <3>2 DEF TodoInv, Closed
    <3>5. ASSUME NEW f \in File, NEW g \in Requested, DependsOn(g, f)
          PROVE  f \in Range(loadOrder)
      BY <2>0, <3>2, <3>3, <3>4, <3>5, DependsWithin DEF DependsOn
    <3> QED BY <3>2, <3>5 DEF StackInv, ReachInv
  <2>2. ASSUME status = "failed"
        PROVE  \E f \in File \ db.known : \E g \in Requested : DependsOn(g, f)
    <3>1. PICK n \in Nat \ {0} : n = Len(stack)
      BY Types
    <3>2. n \in 2..n /\ Top = stack[n] /\ Top.todo # <<>> /\ NextFile \notin db.known
      BY <2>2, <3>1 DEF EndInv, Top
    <3>3. NextFile \in File /\ NextFile \in Range(Top.todo)
      BY <3>2, Types, HeadTailRange DEF NextFile
    <3>4. stack[n].file \in loaded /\ NextFile \in Range(db.deps[stack[n].file])
      BY <3>1, <3>2, <3>3 DEF StackInv, TodoInv
    <3>5. stack[n].file \in db.known /\ stack[n].file \in File
      BY <2>0, <3>4 DEF StackInv
    <3>6. Depends(db, stack[n].file, NextFile)
      BY <3>3, <3>4, <3>5, Dependence
    <3>7. PICK g \in Requested : Depends(db, g, stack[n].file)
      BY <3>4 DEF ReachInv, DependsOn
    <3>8. g \in File
      BY <2>0, <3>7
    <3>9. Depends(db, g, NextFile)
      BY <3>3, <3>5, <3>6, <3>7, <3>8, Dependence
    <3> QED BY <3>2, <3>3, <3>7, <3>9 DEF DependsOn
  <2> QED BY <2>1, <2>2 DEF LoadsExactly
<1> QED BY <1>1, IndInvariant, PTL

\* A script comes after what it depends on, except for later categories and
\* cycles (loadScripts and the grouping, taskmgr.cc 487-534).
THEOREM OrderRespectsDependencies == Spec => []DependenciesFirst
<1>1. ASSUME IndInv PROVE DependenciesFirst
  <2> USE <1>1 DEF IndInv
  <2> SUFFICES ASSUME status = "loaded",
                      NEW g \in Range(loadOrder), NEW f \in Range(db.deps[g])
               PROVE  RunsBefore(f, g) \/ db.category[f] > db.category[g] \/ DependsOn(f, g)
    BY DEF DependenciesFirst
  <2>1. PICK i \in DOMAIN loadOrder : loadOrder[i] = g
    BY DEF Range
  <2>2. PICK m \in Nat : m = Len(loadOrder) /\ DOMAIN loadOrder = 1..m /\ placed = m
    BY DEF TypeOK, EndInv
  <2>3. CASE ~DependsOn(f, g)
    <3>1. PICK j \in 1..(i - 1) : loadOrder[j] = f
      BY <2>1, <2>3 DEF OrderInv
    <3>2. j \in 1..m /\ i \in 1..m /\ j < i
      BY <2>1, <2>2, <3>1
    <3>3. db.category[f] \in 0..10 /\ db.category[g] \in 0..10
      <4>1. loadOrder[i] \in File /\ loadOrder[j] \in File
        BY <2>2, <3>2 DEF TypeOK
      <4> QED BY <2>1, <3>1, <4>1, Types DEF Category
    <3>4. CASE db.category[f] = db.category[g]
      <4>1. Before(mGroupedScripts[db.category[g]], f, g)
        BY <2>1, <2>2, <3>1, <3>2, <3>4 DEF GroupInv
      <4> QED BY <3>4, <4>1 DEF RunsBefore
    <3>5. CASE db.category[f] # db.category[g]
      <4>1. db.category[f] < db.category[g] \/ db.category[f] > db.category[g]
        BY <3>3, <3>5
      <4> QED BY <4>1 DEF RunsBefore
    <3> QED BY <3>4, <3>5
  <2> QED BY <2>3
<1> QED BY <1>1, IndInvariant, PTL

=============================================================================
