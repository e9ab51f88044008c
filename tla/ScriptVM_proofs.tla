--------------------------- MODULE ScriptVM_proofs ---------------------------
(***************************************************************************)
(* Proofs about ScriptVM, for scripts that nest to any depth.              *)
(***************************************************************************)
EXTENDS ScriptVM, SequenceTheorems, TLAPS

-----------------------------------------------------------------------------
(* The inductive invariant.                                                *)

\* A context lies inside one that was created before it; a loop or a switch,
\* inside the one created last.
CtxInv ==
    /\ ctxs # <<>>
    /\ ctxs[1].type = "File" /\ Parent(1) = 0
    /\ \A i \in 2..Len(ctxs) :
        /\ ctxs[i].type # "File" /\ Parent(i) \in 1..(i - 1)
        /\ ctxs[i].type \in Local => Parent(i) = i - 1

\* What the fields of a frame can be.
Shape(f) ==
    /\ f.op = "File" => f.at = "body" /\ f.in = 1 /\ f.own = 1
    /\ f.op \in Local => f.at \in {"head", "body"} /\ f.own # 0
    /\ f.op \in Calls => /\ f.at \in {"where", "default", "actual", "body"}
                         /\ f.own = 0 <=> f.at = "where"
                         /\ f.op = "Hook" => f.at # "actual"
    /\ f.op \in {"Return", "Runtime"} => f.own = 0 /\ f.at \notin {"head", "body", "default"}

\* Every instruction is executed in the context of the one around it, and the file
\* is around all.  Loops, switches and returns are statements: what is around one,
\* up to the function it belongs to, is at its body.
StackInv ==
    /\ stack # <<>>
    /\ \A j \in 1..Len(stack) :
        /\ Shape(stack[j])
        /\ stack[j].op = "File" <=> j = 1
        /\ j > 1 => stack[j].in = ContextOf(stack[j - 1])
    /\ \A l \in 1..Len(stack) : stack[l].op \in Local \cup {"Return"} =>
        \A j \in 1..(l - 1) :
            \/ stack[j].at = "body"
            \/ \E m \in (j + 1)..(l - 1) : stack[m].op \in Calls /\ stack[m].at = "body"

\* The frames own the contexts, in the order of their creation, each of them
\* created after the contexts the frames up to it execute in.
OwnInv ==
    /\ \A j \in 1..Len(stack) : stack[j].own \in 0..Len(ctxs) /\ stack[j].in \in 1..Len(ctxs)
    /\ \A j, l \in 1..Len(stack) : stack[l].own # 0 =>
        /\ j < l => stack[j].own < stack[l].own
        /\ j <= l /\ l > 1 => stack[j].in < stack[l].own
    /\ \A i \in 1..Len(ctxs) : \E j \in 1..Len(stack) : stack[j].own = i
    /\ \A j \in 1..Len(stack) : stack[j].own # 0 =>
        /\ stack[j].op \in Local => ctxs[stack[j].own].type \in Local
        /\ stack[j].op \in Calls => ctxs[stack[j].own].type = "Function"
        /\ stack[j].op \in Local \cup {"Call"} => Parent(stack[j].own) = stack[j].in

\* A context that was left by a jump is that of a body around which nothing runs
\* but bodies left by a return.
JumpInv ==
    \A k \in 1..Len(stack) :
        stack[k].own # 0 /\ ~(ctxs[stack[k].own].flags \subseteq {"exit"}) =>
            /\ stack[k].at = "body"
            /\ \A j \in (k + 1)..Len(stack) :
                /\ stack[j].op \in Local /\ stack[j].at = "body"
                /\ "return" \in ctxs[stack[j].own].flags

\* A loop or a switch has returned exactly if what is around it has.
ReturnInv ==
    /\ "return" \notin ctxs[1].flags
    /\ \A i \in 2..Len(ctxs) : ctxs[i].type \in Local =>
        ("return" \in ctxs[i].flags <=> "return" \in ctxs[i - 1].flags)

Preparing(k) == stack[k].at = "default"

\* The context frame j executes in is around c, or a call is being prepared on the way.
Covered(c, j) == ContextOf(stack[j]) \in Ancestors(c) \/ \E k \in 1..j : Preparing(k)

\* What an exit() reaches: an exit in the context of a frame, in that of a call, or
\* in the current one.
CoverInv ==
    /\ \A m \in 2..Len(stack) : \A j \in 1..(m - 1) :
        /\ Covered(stack[m].in, j)
        /\ stack[m].op \in Calls /\ stack[m].own # 0 => Covered(Parent(stack[m].own), j)
    /\ \A j \in 1..Len(stack) : Covered(current, j)

Exited(i) == "exit" \in ctxs[i].flags

\* Frame k was being prepared when exit() was called, and runs code of its own.
RunsOpen(k) == stack[k].open /\ stack[k].at \in {"default", "body"}

\* After an exit() every frame executes in a context that was left, or inside a
\* call that was being prepared; and only such calls are yet to be made.
ExitInv ==
    /\ ~stray
    /\ \A i \in 2..Len(ctxs) : Exited(i) => Exited(Parent(i))
    /\ \A j \in 1..Len(stack) :
        /\ stack[j].open => stack[j].op \in Calls
        /\ Exited(1) => Exited(ContextOf(stack[j])) \/ \E k \in 1..j : RunsOpen(k)
        /\ stack[j].op \in Calls /\ stack[j].at # "body" /\ Exited(stack[j].in) => stack[j].open
        /\ stack[j].open => Exited(stack[j].in) \/ \E k \in 1..(j - 1) : RunsOpen(k)

IndInv ==
    TypeOK /\ CtxInv /\ StackInv /\ OwnInv /\ JumpInv /\ ReturnInv /\ CoverInv /\ ExitInv

-----------------------------------------------------------------------------
(* Contexts and frames as sequences.                                       *)

CtxSet == [type : Type, parent : Nat, flags : SUBSET Flag]

\* The first elements of a sequence, and one more.
LEMMA FrontElements ==
    ASSUME NEW S, NEW s \in Seq(S), s # <<>>
    PROVE  /\ Front(s) \in Seq(S) /\ Len(Front(s)) = Len(s) - 1
           /\ \A k \in 1..(Len(s) - 1) : Front(s)[k] = s[k]
<1> DEFINE n == Len(s) - 1
<1>1. n \in Nat /\ \A k \in 1..n : k \in 1..Len(s)
  OBVIOUS
<1>2. \A k \in 1..n : s[k] \in S
  BY <1>1
<1>3. Front(s) = SubSeq(s, 1, n)
  BY DEF Front
<1> HIDE DEF n
<1>4. /\ SubSeq(s, 1, n) \in Seq(S)
      /\ Len(SubSeq(s, 1, n)) = IF 1 <= n THEN n - 1 + 1 ELSE 0
      /\ \A k \in 1..(n - 1 + 1) : SubSeq(s, 1, n)[k] = s[1 + k - 1]
  BY <1>1, <1>2, SubSeqProperties
<1>5. Len(SubSeq(s, 1, n)) = n /\ \A k \in 1..n : SubSeq(s, 1, n)[k] = s[k]
  BY <1>1, <1>4
<1> QED BY <1>3, <1>4, <1>5 DEF n

LEMMA AppendElements ==
    ASSUME NEW S, NEW s \in Seq(S), NEW e \in S
    PROVE  /\ Append(s, e) \in Seq(S) /\ Len(Append(s, e)) = Len(s) + 1
           /\ \A k \in 1..Len(s) : Append(s, e)[k] = s[k]
           /\ Append(s, e)[Len(s) + 1] = e
OBVIOUS

\* A function on the indices of a sequence is one of the same length.
LEMMA MapElements ==
    ASSUME NEW S, NEW s \in Seq(S), NEW R, NEW f \in [DOMAIN s -> R]
    PROVE  f \in Seq(R) /\ Len(f) = Len(s)
<1>1. Len(s) \in Nat /\ DOMAIN s = 1..Len(s)
  OBVIOUS
<1>2. f \in [1..Len(s) -> R]
  BY <1>1
<1>3. f \in Seq(R)
  BY <1>1, <1>2
<1>4. Len(f) \in Nat /\ DOMAIN f = 1..Len(f)
  BY <1>3
<1>5. 1..Len(f) = 1..Len(s)
  BY <1>2, <1>4
<1>6. Len(f) = Len(s)
  BY <1>1, <1>4, <1>5
<1> QED BY <1>3, <1>6

\* Flagged adds a flag to some of the contexts.
LEMMA FlaggedElement ==
    ASSUME TypeOK, NEW S, NEW flag \in Flag, NEW i \in 1..Len(ctxs)
    PROVE  /\ Flagged(S, flag)[i] \in CtxSet
           /\ Flagged(S, flag)[i].type = ctxs[i].type
           /\ Flagged(S, flag)[i].parent = ctxs[i].parent
           /\ i \in S => Flagged(S, flag)[i].flags = ctxs[i].flags \cup {flag}
           /\ i \notin S => Flagged(S, flag)[i].flags = ctxs[i].flags
<1>1. ctxs \in Seq(CtxSet) /\ DOMAIN ctxs = 1..Len(ctxs)
  BY DEF TypeOK, CtxSet
<1>2. ctxs[i] \in CtxSet
  BY <1>1
<1>3. Flagged(S, flag)[i] =
            IF i \in S THEN [ctxs[i] EXCEPT !.flags = @ \cup {flag}] ELSE ctxs[i]
  BY <1>1 DEF Flagged
<1> QED BY <1>2, <1>3 DEF CtxSet

LEMMA FlaggedLength ==
    ASSUME TypeOK, NEW S, NEW flag \in Flag
    PROVE  Flagged(S, flag) \in Seq(CtxSet) /\ Len(Flagged(S, flag)) = Len(ctxs)
<1>1. ctxs \in Seq(CtxSet) /\ DOMAIN ctxs = 1..Len(ctxs)
  BY DEF TypeOK, CtxSet
<1>2. \A i \in 1..Len(ctxs) : Flagged(S, flag)[i] \in CtxSet
  BY FlaggedElement
<1>3. Flagged(S, flag) \in [DOMAIN ctxs -> CtxSet]
  BY <1>1, <1>2 DEF Flagged
<1> QED BY <1>1, <1>3, MapElements

-----------------------------------------------------------------------------
(* The contexts around one.                                                *)

\* Ancestors of the contexts cs, which are nested.
Around(cs, i) ==
    {n \in 1..i : \A S \in SUBSET (1..i) :
        i \in S /\ (\A m \in S : cs[m].parent # 0 => cs[m].parent \in S) => n \in S}

Nested(cs) ==
    /\ cs \in Seq(CtxSet)
    /\ \A m \in 1..Len(cs) : cs[m].parent \in 0..(m - 1)

LEMMA AroundClosed ==
    ASSUME NEW cs, Nested(cs), NEW i \in 1..Len(cs)
    PROVE  /\ i \in Around(cs, i) /\ Around(cs, i) \subseteq 1..i
           /\ \A m \in Around(cs, i) : cs[m].parent # 0 => cs[m].parent \in Around(cs, i)
<1>0. Len(cs) \in Nat
  BY DEF Nested
<1>1. i \in Around(cs, i) /\ Around(cs, i) \subseteq 1..i
  BY <1>0 DEF Around
<1>2. ASSUME NEW m \in Around(cs, i), cs[m].parent # 0
      PROVE  cs[m].parent \in Around(cs, i)
  <2>1. m \in 1..Len(cs) /\ m \in 1..i
    BY <1>0, <1>1
  <2>2. cs[m].parent \in 1..i
    BY <1>0, <1>2, <2>1 DEF Nested
  <2> QED BY <1>2, <2>2 DEF Around
<1> QED BY <1>1, <1>2

\* What is around a context around i is around i.
LEMMA AroundIn ==
    ASSUME NEW cs, Nested(cs), NEW i \in 1..Len(cs), NEW m \in Around(cs, i)
    PROVE  Around(cs, m) \subseteq Around(cs, i)
<1> DEFINE S == Around(cs, i) \cap (1..m)
<1>0. Len(cs) \in Nat /\ m \in 1..i /\ m \in 1..Len(cs)
  BY AroundClosed DEF Nested
<1>1. m \in S /\ S \in SUBSET (1..m)
  BY <1>0
<1>2. ASSUME NEW k \in S, cs[k].parent # 0 PROVE cs[k].parent \in S
  <2>1. cs[k].parent \in Around(cs, i)
    BY <1>2, AroundClosed
  <2>2. k \in 1..m /\ k \in 1..Len(cs) /\ cs[k].parent \in 0..(k - 1)
    BY <1>0, <1>2 DEF Nested
  <2>3. cs[k].parent \in 1..m
    BY <1>0, <1>2, <2>2
  <2> QED BY <2>1, <2>3
<1>3. ASSUME NEW n \in Around(cs, m) PROVE n \in S
  <2> HIDE DEF S
  <2> QED BY <1>1, <1>2 DEF Around
<1> QED BY <1>3

\* What is around a context does not depend on the later ones, nor on flags.
LEMMA AroundSame ==
    ASSUME NEW cs, NEW ds, NEW i \in Nat, \A m \in 1..i : cs[m].parent = ds[m].parent
    PROVE  Around(cs, i) = Around(ds, i)
<1>1. ASSUME NEW S \in SUBSET (1..i)
      PROVE  (\A m \in S : cs[m].parent # 0 => cs[m].parent \in S)
                <=> (\A m \in S : ds[m].parent # 0 => ds[m].parent \in S)
  OBVIOUS
<1> QED BY <1>1 DEF Around

LEMMA AncestorsAround ==
    /\ \A i : Ancestors(i) = Around(ctxs, i)
    /\ \A i : Ancestors(i)' = Around(ctxs', i)
BY DEF Ancestors, Around, Parent

LEMMA CtxNested == ASSUME TypeOK, CtxInv PROVE Nested(ctxs)
<1>1. ctxs \in Seq(CtxSet) /\ Len(ctxs) \in Nat
  BY DEF TypeOK, CtxSet
<1>2. ASSUME NEW m \in 1..Len(ctxs) PROVE ctxs[m].parent \in 0..(m - 1)
  <2>1. CASE m = 1
    BY <2>1 DEF CtxInv, Parent
  <2>2. CASE m # 1
    <3>1. m \in 2..Len(ctxs)
      BY <1>1, <2>2
    <3> QED BY <3>1 DEF CtxInv, Parent
  <2> QED BY <2>1, <2>2
<1> QED BY <1>1, <1>2 DEF Nested

\* Activation: the least set of contexts that is closed.
LEMMA ActivationClosed ==
    ASSUME TypeOK, CtxInv, NEW i \in 1..Len(ctxs)
    PROVE  /\ i \in Activation(i) /\ Activation(i) \subseteq 1..i
           /\ \A m \in Activation(i) : ctxs[m].type \in Local => m - 1 \in Activation(i)
<1>0. Len(ctxs) \in Nat
  BY DEF TypeOK
<1>1. i \in Activation(i) /\ Activation(i) \subseteq 1..i
  BY <1>0 DEF Activation
<1>2. ASSUME NEW m \in Activation(i), ctxs[m].type \in Local
      PROVE  m - 1 \in Activation(i)
  <2>1. m \in 1..Len(ctxs) /\ m \in 1..i
    BY <1>0, <1>1
  <2>2. m # 1
    BY <1>2 DEF CtxInv, Local
  <2>3. m \in 2..Len(ctxs)
    BY <1>0, <2>1, <2>2
  <2>4. Parent(m) = m - 1 /\ m - 1 \in 1..i
    BY <1>0, <1>2, <2>1, <2>3 DEF CtxInv
  <2>5. m - 1 \in Activation(i)
    BY <1>2, <2>4 DEF Activation
  <2> QED BY <2>5
<1> QED BY <1>1, <1>2

LEMMA ActivationLeast ==
    ASSUME TypeOK, CtxInv, NEW i \in 1..Len(ctxs), NEW S \in SUBSET (1..i), i \in S,
           \A m \in S : ctxs[m].type \in Local => m - 1 \in S
    PROVE  Activation(i) \subseteq S
<1>0. Len(ctxs) \in Nat
  BY DEF TypeOK
<1>1. ASSUME NEW m \in S, ctxs[m].type \in Local PROVE Parent(m) \in S
  <2>1. m \in 1..Len(ctxs) /\ m # 1
    BY <1>0, <1>1 DEF CtxInv, Local
  <2>2. m \in 2..Len(ctxs)
    BY <1>0, <2>1
  <2>3. Parent(m) = m - 1
    BY <1>1, <2>2 DEF CtxInv
  <2> QED BY <1>1, <2>3
<1> QED BY <1>1 DEF Activation

\* The activation of the last context is an interval, of loops and switches above
\* its first.
LEMMA ActivationInterval ==
    ASSUME TypeOK, CtxInv, NEW m \in Activation(Len(ctxs)), NEW k \in 1..Len(ctxs), m < k
    PROVE  k \in Activation(Len(ctxs)) /\ ctxs[k].type \in Local
<1> DEFINE N == Len(ctxs)
           A == Activation(N)
           S == {x \in A : x > k}
           R == {x \in A : x >= k}
<1>0. N \in Nat /\ N \in 1..N
  BY DEF TypeOK
<1>a. N \in A /\ A \subseteq 1..N /\ \A x \in A : ctxs[x].type \in Local => x - 1 \in A
  BY <1>0, ActivationClosed
<1> HIDE DEF A
<1>1. k \in A
  <2> SUFFICES ASSUME k \notin A PROVE FALSE
    OBVIOUS
  <2>1. N \in S /\ S \in SUBSET (1..N)
    <3>1. k \in 1..N /\ k # N
      BY <1>a
    <3>2. N > k
      BY <1>0, <3>1
    <3> QED BY <1>a, <3>2
  <2>2. ASSUME NEW x \in S, ctxs[x].type \in Local PROVE x - 1 \in S
    <3>1. x - 1 \in A /\ x \in 1..N /\ x > k
      BY <1>a, <2>2
    <3>2. x - 1 # k
      BY <3>1
    <3>3. x - 1 > k
      BY <1>0, <3>1, <3>2
    <3> QED BY <3>1, <3>3
  <2>3. A \subseteq S
    <3> HIDE DEF S
    <3> QED BY <1>0, <2>1, <2>2, ActivationLeast DEF A
  <2>4. m \in A /\ m \in 1..N
    BY <1>a DEF A
  <2> QED BY <2>3, <2>4
<1>2. ctxs[k].type \in Local
  <2> SUFFICES ASSUME ctxs[k].type \notin Local PROVE FALSE
    OBVIOUS
  <2>1. N \in R /\ R \in SUBSET (1..N)
    <3>1. k \in 1..N
      OBVIOUS
    <3>2. N >= k
      BY <1>0, <3>1
    <3> QED BY <1>a, <3>2
  <2>2. ASSUME NEW x \in R, ctxs[x].type \in Local PROVE x - 1 \in R
    <3>1. x - 1 \in A /\ x \in 1..N /\ x >= k
      BY <1>a, <2>2
    <3>2. x # k
      BY <2>2
    <3>3. x - 1 >= k
      BY <1>0, <3>1, <3>2
    <3> QED BY <3>1, <3>3
  <2>3. A \subseteq R
    <3> HIDE DEF R
    <3> QED BY <1>0, <2>1, <2>2, ActivationLeast DEF A
  <2>4. m \in A /\ m \in 1..N
    BY <1>a DEF A
  <2> QED BY <2>3, <2>4
<1> QED BY <1>1, <1>2 DEF A

-----------------------------------------------------------------------------
(* What the invariant says of the innermost instruction.                   *)

LEMMA Elements ==
    ASSUME TypeOK
    PROVE  /\ ctxs \in Seq(CtxSet) /\ Len(ctxs) \in Nat
           /\ \A i \in 1..Len(ctxs) : ctxs[i] \in CtxSet
           /\ stack \in Seq(FrameSet) /\ Len(stack) \in Nat
           /\ \A j \in 1..Len(stack) : stack[j] \in FrameSet
           /\ current \in 1..Len(ctxs)
<1>1. ctxs \in Seq(CtxSet) /\ stack \in Seq(FrameSet) /\ current \in DOMAIN ctxs
  BY DEF TypeOK, CtxSet
<1> QED BY <1>1

\* The innermost owner owns the last context.
LEMMA TopFrame ==
    ASSUME IndInv
    PROVE  /\ Len(stack) \in 1..Len(stack) /\ Len(ctxs) \in 1..Len(ctxs)
           /\ Top = stack[Len(stack)] /\ Top \in FrameSet /\ Shape(Top)
           /\ Top.own # 0 => Top.own = Len(ctxs)
           /\ Here \in 1..Len(ctxs)
           /\ Top.op # "File" => Len(stack) > 1 /\ Top.in = ContextOf(stack[Len(stack) - 1])
           /\ Top.op = "File" => Len(stack) = 1
<1>. USE Elements DEF IndInv
<1>1. Len(stack) \in 1..Len(stack) /\ Len(ctxs) \in 1..Len(ctxs)
  <2>1. Len(stack) # 0
    BY DEF StackInv
  <2>2. Len(ctxs) # 0
    BY DEF CtxInv
  <2> QED BY <2>1, <2>2
<1>2. Top = stack[Len(stack)] /\ Top \in FrameSet /\ Shape(Top)
  BY <1>1 DEF Top, Last, StackInv
<1>3. ASSUME Top.own # 0 PROVE Top.own = Len(ctxs)
  <2>1. PICK j \in 1..Len(stack) : stack[j].own = Len(ctxs)
    BY <1>1 DEF OwnInv
  <2>2. CASE j = Len(stack)
    BY <1>2, <2>1, <2>2
  <2>3. CASE j < Len(stack)
    <3>1. stack[j].own < Top.own /\ Top.own \in 0..Len(ctxs)
      BY <1>1, <1>2, <1>3, <2>3 DEF OwnInv
    <3> QED BY <2>1, <3>1
  <2> QED BY <2>2, <2>3
<1>4. Here \in 1..Len(ctxs)
  <2>1. Top.own \in 0..Len(ctxs) /\ Top.in \in 1..Len(ctxs)
    BY <1>1, <1>2 DEF OwnInv
  <2>2. Top.at \in {"head", "body", "default"} => Top.own # 0
    BY <1>2 DEF Shape, FrameSet, Local, Calls
  <2> QED BY <2>1, <2>2 DEF Here, ContextOf
<1>5. /\ Top.op # "File" => Len(stack) > 1 /\ Top.in = ContextOf(stack[Len(stack) - 1])
      /\ Top.op = "File" => Len(stack) = 1
  <2>1. Top.op = "File" <=> Len(stack) = 1
    BY <1>1, <1>2 DEF StackInv
  <2>2. Len(stack) > 1 => Top.in = ContextOf(stack[Len(stack) - 1])
    <3>1. \A j \in 1..Len(stack) : j > 1 => stack[j].in = ContextOf(stack[j - 1])
      BY DEF StackInv
    <3> QED BY <1>1, <1>2, <3>1
  <2>3. ASSUME Top.op # "File" PROVE Len(stack) > 1
    <3> DEFINE T == Len(stack)
    <3>1. T \in Nat /\ T >= 1 /\ T # 1
      BY <1>1, <2>1, <2>3
    <3> HIDE DEF T
    <3>2. T > 1
      BY ONLY <3>1
    <3> QED BY <3>2 DEF T
  <2> QED BY <2>1, <2>2, <2>3
<1> QED BY <1>1, <1>2, <1>3, <1>4, <1>5

\* An owner's context is the last one exactly if the owner is innermost.
LEMMA OwnsBody ==
    ASSUME IndInv, Top.at \in {"head", "body", "default"}
    PROVE  /\ Top.own = Len(ctxs) /\ Here = Len(ctxs)
           /\ \A j \in 1..(Len(stack) - 1) : stack[j].own < Len(ctxs)
           /\ Top.op # "File" => \A j \in 1..Len(stack) : stack[j].in < Len(ctxs)
<1>1. Top.own # 0
  BY TopFrame DEF Shape, FrameSet, Local, Calls
<1>2. Top.own = Len(ctxs)
  BY <1>1, TopFrame
<1>3. Here = Len(ctxs)
  BY <1>2 DEF Here, ContextOf
<1>4. ASSUME NEW j \in 1..(Len(stack) - 1) PROVE stack[j].own < Len(ctxs)
  <2>1. j \in 1..Len(stack) /\ Len(stack) \in 1..Len(stack) /\ j < Len(stack)
    BY TopFrame, Elements DEF IndInv
  <2>2. stack[j].own < stack[Len(stack)].own
    BY <1>1, <2>1, TopFrame DEF IndInv, OwnInv
  <2> QED BY <1>2, <2>2, TopFrame
<1>5. ASSUME Top.op # "File", NEW j \in 1..Len(stack) PROVE stack[j].in < Len(ctxs)
  <2>1. Len(stack) \in 1..Len(stack) /\ j <= Len(stack) /\ Len(stack) > 1
    BY <1>5, TopFrame, Elements DEF IndInv
  <2>2. stack[j].in < stack[Len(stack)].own
    BY <1>1, <2>1, TopFrame DEF IndInv, OwnInv
  <2> QED BY <1>2, <2>2, TopFrame
<1> QED BY <1>2, <1>3, <1>4, <1>5

Left(k) == stack[k].own # 0 /\ ~(ctxs[stack[k].own].flags \subseteq {"exit"})

\* While an instruction is executed or an operand evaluated, nothing was left by a
\* jump.
LEMMA NothingLeft ==
    ASSUME IndInv, Top.at # "body" \/ ~Interrupted(Here), NEW k \in 1..Len(stack)
    PROVE  ~Left(k)
<1> SUFFICES ASSUME Left(k) PROVE FALSE
  OBVIOUS
<1>1. /\ stack[k].at = "body"
      /\ \A j \in (k + 1)..Len(stack) :
            stack[j].at = "body" /\ "return" \in ctxs[stack[j].own].flags
  BY DEF Left, IndInv, JumpInv
<1>2. Len(stack) \in 1..Len(stack) /\ Top = stack[Len(stack)]
  BY TopFrame
<1>3. Top.at = "body" /\ (k = Len(stack) \/ Len(stack) \in (k + 1)..Len(stack))
  BY <1>1, <1>2, Elements DEF IndInv
<1>4. Top.own = Len(ctxs) /\ Here = Len(ctxs) /\ ctxs[Here].flags = {}
  BY <1>3, OwnsBody DEF Interrupted
<1> QED BY <1>1, <1>2, <1>3, <1>4 DEF Left

\* The code around the innermost instruction is around the context it created and
\* around the one it executes in.
LEMMA CoverOwn ==
    ASSUME IndInv, Top.own # 0, NEW j \in 1..(Len(stack) - 1)
    PROVE  Covered(Top.own, j)
<1> DEFINE T == Len(stack)
<1>1. /\ T \in 2..T /\ T \in 1..T /\ Top = stack[T] /\ Top.op # "File"
  BY TopFrame, Elements DEF IndInv
<1>2. Top.op \in Local \cup Calls
  BY <1>1, TopFrame DEF Shape, FrameSet
<1>3. Covered(Parent(Top.own), j)
  <2>1. CASE Top.op \in Local \cup {"Call"}
    <3>1. Parent(Top.own) = Top.in
      BY <1>1, <2>1 DEF IndInv, OwnInv
    <3>2. Covered(Top.in, j)
      BY <1>1 DEF IndInv, CoverInv
    <3> QED BY <3>1, <3>2
  <2>2. CASE Top.op \in Calls
    BY <1>1, <2>2 DEF IndInv, CoverInv
  <2> QED BY <1>2, <2>1, <2>2
<1>4. Ancestors(Parent(Top.own)) \subseteq Ancestors(Top.own)
  <2>1. Nested(ctxs) /\ Top.own = Len(ctxs) /\ Len(ctxs) \in 1..Len(ctxs)
    BY TopFrame, CtxNested DEF IndInv
  <2>2. CASE Parent(Top.own) = 0
    <3>1. Ancestors(0) = {}
      BY DEF Ancestors
    <3> QED BY <2>2, <3>1
  <2>3. CASE Parent(Top.own) # 0
    BY <2>1, <2>3, AroundClosed, AroundIn, AncestorsAround DEF Parent
  <2> QED BY <2>2, <2>3
<1> QED BY <1>3, <1>4 DEF Covered

LEMMA CoverHere ==
    ASSUME IndInv, NEW j \in 1..Len(stack)
    PROVE  Covered(Here, j)
<1>1. /\ Len(stack) \in 1..Len(stack) /\ Top = stack[Len(stack)]
      /\ j = Len(stack) \/ j \in 1..(Len(stack) - 1)
  BY TopFrame, Elements DEF IndInv
<1>2. CASE j = Len(stack)
  <2>1. Here \in Ancestors(Here)
    BY TopFrame, CtxNested, AroundClosed, AncestorsAround DEF IndInv
  <2> QED BY <1>1, <1>2, <2>1 DEF Covered, Here
<1>3. CASE j \in 1..(Len(stack) - 1)
  <2>1. CASE Here = Top.own
    <3>1. Top.own # 0
      BY <2>1, TopFrame
    <3> QED BY <1>3, <2>1, <3>1, CoverOwn
  <2>2. CASE Here = Top.in
    <3>1. Len(stack) \in 2..Len(stack)
      BY <1>3, Elements DEF IndInv
    <3> QED BY <1>1, <1>3, <2>2, <3>1 DEF IndInv, CoverInv
  <2> QED BY <2>1, <2>2 DEF Here, ContextOf
<1> QED BY <1>1, <1>2, <1>3

-----------------------------------------------------------------------------
(* The effects of the steps on the contexts and on the stack.              *)

Created(c) ==
    /\ ctxs' \in Seq(CtxSet) /\ Len(ctxs') = Len(ctxs) + 1
    /\ \A i \in 1..Len(ctxs) : ctxs'[i] = ctxs[i]
    /\ ctxs'[Len(ctxs) + 1] = c

Destroyed ==
    /\ ctxs' \in Seq(CtxSet) /\ Len(ctxs') = Len(ctxs) - 1
    /\ \A i \in 1..(Len(ctxs) - 1) : ctxs'[i] = ctxs[i]

\* No context came or went; their flags may have changed.
Reflagged ==
    /\ ctxs' \in Seq(CtxSet) /\ Len(ctxs') = Len(ctxs)
    /\ \A i \in 1..Len(ctxs) :
        ctxs'[i].type = ctxs[i].type /\ ctxs'[i].parent = ctxs[i].parent

Pushed(f) ==
    /\ stack' \in Seq(FrameSet) /\ Len(stack') = Len(stack) + 1
    /\ \A k \in 1..Len(stack) : stack'[k] = stack[k]
    /\ stack'[Len(stack) + 1] = f

\* The innermost instruction ended; others may have been noted as open.
Popped ==
    /\ stack' \in Seq(FrameSet) /\ Len(stack') = Len(stack) - 1
    /\ \A k \in 1..(Len(stack) - 1) :
        /\ stack'[k].op = stack[k].op /\ stack'[k].in = stack[k].in
        /\ stack'[k].own = stack[k].own /\ stack'[k].at = stack[k].at

Replaced(f) ==
    /\ stack' \in Seq(FrameSet) /\ Len(stack') = Len(stack)
    /\ \A k \in 1..(Len(stack) - 1) : stack'[k] = stack[k]
    /\ stack'[Len(stack)] = f

LEMMA CreatedBy ==
    ASSUME TypeOK, NEW c \in CtxSet, ctxs' = Append(ctxs, c)
    PROVE  Created(c)
BY Elements, AppendElements DEF Created

LEMMA DestroyedBy ==
    ASSUME IndInv, ctxs' = Front(ctxs)
    PROVE  Destroyed
<1>1. ctxs \in Seq(CtxSet) /\ ctxs # <<>>
  BY Elements DEF IndInv, CtxInv
<1> QED BY <1>1, FrontElements DEF Destroyed

LEMMA ReflaggedBy ==
    ASSUME TypeOK, NEW S, NEW flag \in Flag, ctxs' = Flagged(S, flag)
    PROVE  Reflagged
<1>1. Flagged(S, flag) \in Seq(CtxSet) /\ Len(Flagged(S, flag)) = Len(ctxs)
  BY FlaggedLength
<1>2. ASSUME NEW i \in 1..Len(ctxs)
      PROVE  /\ Flagged(S, flag)[i].type = ctxs[i].type
             /\ Flagged(S, flag)[i].parent = ctxs[i].parent
  BY FlaggedElement
<1> QED BY <1>1, <1>2 DEF Reflagged

LEMMA SameReflagged ==
    ASSUME TypeOK, ctxs' = ctxs
    PROVE  Reflagged
BY Elements DEF Reflagged

LEMMA PushedBy ==
    ASSUME TypeOK, NEW f \in FrameSet, Push(f)
    PROVE  Pushed(f)
BY Elements, AppendElements DEF Pushed, Push

LEMMA PoppedBy ==
    ASSUME IndInv, Pop
    PROVE  Popped /\ \A k \in 1..(Len(stack) - 1) : stack'[k] = stack[k]
<1>1. stack \in Seq(FrameSet) /\ stack # <<>>
  BY Elements DEF IndInv, StackInv
<1> QED BY <1>1, FrontElements DEF Popped, Pop

LEMMA ReplacedBy ==
    ASSUME IndInv, NEW f \in FrameSet, stack' = [stack EXCEPT ![Len(stack)] = f]
    PROVE  Replaced(f)
<1>1. stack \in Seq(FrameSet) /\ Len(stack) \in 1..Len(stack)
  BY TopFrame, Elements DEF IndInv
<1>2. stack' \in Seq(FrameSet) /\ Len(stack') = Len(stack)
  BY <1>1
<1>3. /\ \A k \in 1..(Len(stack) - 1) : stack'[k] = stack[k]
      /\ stack'[Len(stack)] = f
  BY <1>1
<1> QED BY <1>2, <1>3 DEF Replaced

LEMMA PhaseReplaced ==
    ASSUME IndInv, NEW phase, [Top EXCEPT !.at = phase] \in FrameSet, Phase(phase)
    PROVE  Replaced([Top EXCEPT !.at = phase])
<1>1. stack' = [stack EXCEPT ![Len(stack)] = [Top EXCEPT !.at = phase]]
  BY TopFrame, Elements DEF Phase, IndInv
<1> QED BY <1>1, ReplacedBy

-----------------------------------------------------------------------------
(* Steps preserve CtxInv.                                                  *)

LEMMA CtxCreate ==
    ASSUME IndInv, NEW type \in Type \ {"File"}, NEW p \in 1..Len(ctxs),
           Created(NewContext(type, p)), type \in Local => p = Len(ctxs)
    PROVE  CtxInv'
<1>1. Len(ctxs) \in 1..Len(ctxs) /\ Len(ctxs) \in Nat
  BY TopFrame, Elements DEF IndInv
<1>2. ctxs'[1].type = "File" /\ ctxs'[1].parent = 0 /\ ctxs' # <<>>
  BY <1>1 DEF Created, IndInv, CtxInv, Parent
<1>3. ASSUME NEW i \in 2..Len(ctxs')
      PROVE  /\ ctxs'[i].type # "File" /\ ctxs'[i].parent \in 1..(i - 1)
             /\ ctxs'[i].type \in Local => ctxs'[i].parent = i - 1
  <2>1. CASE i \in 2..Len(ctxs)
    <3>1. ctxs'[i] = ctxs[i]
      BY <1>1, <2>1 DEF Created
    <3> QED BY <2>1, <3>1 DEF IndInv, CtxInv, Parent
  <2>2. CASE i = Len(ctxs) + 1
    <3>1. ctxs'[i].type = type /\ ctxs'[i].parent = p
      BY <2>2 DEF Created, NewContext
    <3> QED BY <1>1, <2>2, <3>1
  <2> QED BY <1>1, <2>1, <2>2 DEF Created
<1> QED BY <1>2, <1>3 DEF CtxInv, Parent

LEMMA CtxDestroy ==
    ASSUME IndInv, Destroyed, Len(ctxs) > 1
    PROVE  CtxInv'
<1>1. Len(ctxs) \in Nat
  BY Elements DEF IndInv
<1>2. ctxs'[1].type = "File" /\ ctxs'[1].parent = 0 /\ ctxs' # <<>>
  BY <1>1 DEF Destroyed, IndInv, CtxInv, Parent
<1>3. ASSUME NEW i \in 2..Len(ctxs')
      PROVE  /\ ctxs'[i].type # "File" /\ ctxs'[i].parent \in 1..(i - 1)
             /\ ctxs'[i].type \in Local => ctxs'[i].parent = i - 1
  <2>1. i \in 2..Len(ctxs) /\ ctxs'[i] = ctxs[i]
    BY <1>1 DEF Destroyed
  <2> QED BY <2>1 DEF IndInv, CtxInv, Parent
<1> QED BY <1>2, <1>3 DEF CtxInv, Parent

LEMMA CtxReflag ==
    ASSUME IndInv, Reflagged
    PROVE  CtxInv'
<1>1. Len(ctxs) \in 1..Len(ctxs) /\ Len(ctxs) \in Nat
  BY TopFrame, Elements DEF IndInv
<1>2. ctxs'[1].type = "File" /\ ctxs'[1].parent = 0 /\ ctxs' # <<>>
  BY <1>1 DEF Reflagged, IndInv, CtxInv, Parent
<1>3. ASSUME NEW i \in 2..Len(ctxs')
      PROVE  /\ ctxs'[i].type # "File" /\ ctxs'[i].parent \in 1..(i - 1)
             /\ ctxs'[i].type \in Local => ctxs'[i].parent = i - 1
  <2>1. /\ i \in 2..Len(ctxs) /\ ctxs'[i].type = ctxs[i].type
        /\ ctxs'[i].parent = ctxs[i].parent
    BY <1>1 DEF Reflagged
  <2> QED BY <2>1 DEF IndInv, CtxInv, Parent
<1> QED BY <1>2, <1>3 DEF CtxInv, Parent

-----------------------------------------------------------------------------
(* Steps preserve StackInv.                                                *)

\* StackInv of a frame alone, and of what is around a statement.
FrameInv(s, j) ==
    /\ Shape(s[j])
    /\ s[j].op = "File" <=> j = 1
    /\ j > 1 => s[j].in = ContextOf(s[j - 1])

StatementInv(s, l) ==
    s[l].op \in Local \cup {"Return"} =>
        \A j \in 1..(l - 1) :
            \/ s[j].at = "body"
            \/ \E m \in (j + 1)..(l - 1) : s[m].op \in Calls /\ s[m].at = "body"

LEMMA StackInvParts ==
    /\ StackInv <=> /\ stack # <<>>
                    /\ \A j \in 1..Len(stack) : FrameInv(stack, j) /\ StatementInv(stack, j)
    /\ StackInv' <=> /\ stack' # <<>>
                     /\ \A j \in 1..Len(stack') : FrameInv(stack', j) /\ StatementInv(stack', j)
BY DEF StackInv, FrameInv, StatementInv

\* Frames of the same instructions in the same contexts and phases.
LEMMA SameFrames ==
    ASSUME NEW s, NEW t, NEW j \in Nat \ {0}, FrameInv(s, j), StatementInv(s, j),
           t[j].op = s[j].op, t[j].in = s[j].in, t[j].own = s[j].own, t[j].at = s[j].at,
           \A k \in 1..(j - 1) : /\ t[k].op = s[k].op /\ t[k].in = s[k].in
                                 /\ t[k].own = s[k].own /\ t[k].at = s[k].at
    PROVE  FrameInv(t, j) /\ StatementInv(t, j)
<1>1. FrameInv(t, j)
  <2>1. Shape(t[j])
    BY DEF Shape, FrameInv
  <2>2. j > 1 => ContextOf(t[j - 1]) = ContextOf(s[j - 1])
    <3>1. j > 1 => j - 1 \in 1..(j - 1)
      OBVIOUS
    <3> QED BY <3>1 DEF ContextOf
  <2> QED BY <2>1, <2>2 DEF FrameInv
<1>2. StatementInv(t, j)
  <2> SUFFICES ASSUME t[j].op \in Local \cup {"Return"}, NEW k \in 1..(j - 1), t[k].at # "body"
               PROVE  \E m \in (k + 1)..(j - 1) : t[m].op \in Calls /\ t[m].at = "body"
    BY DEF StatementInv
  <2>1. PICK m \in (k + 1)..(j - 1) : s[m].op \in Calls /\ s[m].at = "body"
    BY DEF StatementInv
  <2>2. m \in 1..(j - 1)
    OBVIOUS
  <2> QED BY <2>1, <2>2
<1> QED BY <1>1, <1>2

LEMMA StackPush ==
    ASSUME IndInv, NEW f \in FrameSet, Pushed(f), Shape(f), f.op # "File", f.in = Here,
           f.op \in Local \cup {"Return"} => Top.at = "body"
    PROVE  StackInv'
<1> DEFINE T == Len(stack)
<1>1. /\ T \in Nat /\ T \in 1..T /\ Top = stack[T] /\ Len(stack') = T + 1
      /\ stack'[T + 1] = f /\ \A k \in 1..T : stack'[k] = stack[k]
  BY TopFrame, Elements DEF IndInv, Pushed
<1>2. \A j \in 1..T : FrameInv(stack, j) /\ StatementInv(stack, j)
  BY StackInvParts DEF IndInv
<1> HIDE DEF T
<1>3. ASSUME NEW j \in 1..T PROVE FrameInv(stack', j) /\ StatementInv(stack', j)
  <2>1. j \in Nat \ {0} /\ \A k \in 1..(j - 1) : k \in 1..T
    BY <1>1
  <2>2. stack'[j] = stack[j] /\ \A k \in 1..(j - 1) : stack'[k] = stack[k]
    BY <1>1, <2>1
  <2> QED BY <1>2, <2>1, <2>2, SameFrames
<1>4. FrameInv(stack', T + 1)
  <2>1. stack'[(T + 1) - 1] = Top
    BY <1>1
  <2> QED BY <1>1, <2>1 DEF FrameInv, Here
<1>5. StatementInv(stack', T + 1)
  <2> SUFFICES ASSUME f.op \in Local \cup {"Return"}, NEW j \in 1..T, stack[j].at # "body"
               PROVE  \E m \in (j + 1)..T : stack[m].op \in Calls /\ stack[m].at = "body"
    <3>1. (T + 1) - 1 = T
      BY <1>1
    <3>2. \A j \in 1..T : \A m \in (j + 1)..T : m \in 1..T
      BY <1>1
    <3> QED BY <1>1, <3>1, <3>2 DEF StatementInv
  <2>1. Top.at = "body" /\ j # T /\ j \in 1..(T - 1) /\ T \in (j + 1)..T
    BY <1>1
  <2>2. CASE Top.op \in Calls
    BY <1>1, <2>1, <2>2
  <2>3. CASE Top.op \in Local
    <3>1. PICK m \in (j + 1)..(T - 1) : stack[m].op \in Calls /\ stack[m].at = "body"
      BY <1>1, <1>2, <2>1, <2>3 DEF StatementInv
    <3> QED BY <1>1, <3>1
  <2>4. Top.op \in Calls \cup Local
    <3>1. Top.op # "File"
      BY <1>1, <2>1, TopFrame DEF T
    <3> QED BY <2>1, <3>1, TopFrame DEF Shape, FrameSet
  <2> QED BY <2>2, <2>3, <2>4
<1>6. stack' # <<>>
  BY <1>1
<1>7. \A j \in 1..(T + 1) : j \in 1..T \/ j = T + 1
  BY <1>1
<1> QED BY <1>1, <1>3, <1>4, <1>5, <1>6, <1>7, StackInvParts

LEMMA StackPop ==
    ASSUME IndInv, Popped, Top.op # "File"
    PROVE  StackInv'
<1> DEFINE T == Len(stack)
<1>1. T \in Nat /\ T > 1 /\ Len(stack') = T - 1
  BY TopFrame, Elements DEF IndInv, Popped
<1>2. \A k \in 1..(T - 1) : /\ stack'[k].op = stack[k].op /\ stack'[k].in = stack[k].in
                            /\ stack'[k].own = stack[k].own /\ stack'[k].at = stack[k].at
  BY DEF Popped
<1>3. \A j \in 1..T : FrameInv(stack, j) /\ StatementInv(stack, j)
  BY StackInvParts DEF IndInv
<1> HIDE DEF T
<1>4. ASSUME NEW j \in 1..(T - 1) PROVE FrameInv(stack', j) /\ StatementInv(stack', j)
  <2>1. j \in 1..T /\ j \in Nat \ {0} /\ \A k \in 1..(j - 1) : k \in 1..(T - 1)
    BY <1>1
  <2> QED BY <1>2, <1>3, <2>1, SameFrames
<1>5. stack' # <<>>
  BY <1>1
<1> QED BY <1>1, <1>4, <1>5, StackInvParts

\* The innermost instruction enters another phase.
LEMMA StackReplace ==
    ASSUME IndInv, NEW f \in FrameSet, Replaced(f), Shape(f), f.op = Top.op, f.in = Top.in
    PROVE  StackInv'
<1> DEFINE T == Len(stack)
<1>1. /\ T \in Nat /\ T \in 1..T /\ Top = stack[T] /\ Len(stack') = T
      /\ stack'[T] = f /\ \A k \in 1..(T - 1) : stack'[k] = stack[k]
  BY TopFrame, Elements DEF IndInv, Replaced
<1>2. \A j \in 1..T : FrameInv(stack, j) /\ StatementInv(stack, j)
  BY StackInvParts DEF IndInv
<1> HIDE DEF T
<1>3. ASSUME NEW j \in 1..(T - 1) PROVE FrameInv(stack', j) /\ StatementInv(stack', j)
  <2>1. j \in 1..T /\ j \in Nat \ {0} /\ \A k \in 1..(j - 1) : k \in 1..(T - 1)
    BY <1>1
  <2>2. stack'[j] = stack[j] /\ \A k \in 1..(j - 1) : stack'[k] = stack[k]
    BY <1>1, <2>1
  <2> QED BY <1>2, <2>1, <2>2, SameFrames
<1>4. FrameInv(stack', T)
  <2>1. T > 1 => stack'[T - 1] = stack[T - 1]
    BY <1>1
  <2>2. /\ f.op = "File" <=> T = 1
        /\ T > 1 => f.in = ContextOf(stack[T - 1])
    BY <1>1, <1>2 DEF FrameInv
  <2> QED BY <1>1, <2>1, <2>2 DEF FrameInv
<1>5. StatementInv(stack', T)
  <2> SUFFICES ASSUME f.op \in Local \cup {"Return"}, NEW k \in 1..(T - 1), stack[k].at # "body"
               PROVE  \E m \in (k + 1)..(T - 1) : stack'[m].op \in Calls /\ stack'[m].at = "body"
    BY <1>1 DEF StatementInv
  <2>1. PICK m \in (k + 1)..(T - 1) : stack[m].op \in Calls /\ stack[m].at = "body"
    BY <1>1, <1>2 DEF StatementInv
  <2>2. m \in 1..(T - 1)
    BY <1>1
  <2> QED BY <1>1, <2>1, <2>2
<1>6. stack' # <<>>
  BY <1>1
<1>7. \A j \in 1..T : j \in 1..(T - 1) \/ j = T
  BY <1>1
<1> QED BY <1>1, <1>3, <1>4, <1>5, <1>6, <1>7, StackInvParts

-----------------------------------------------------------------------------
(* Steps preserve OwnInv.                                                  *)

\* The parts of OwnInv, for contexts c and a stack s.
Bounded(c, s) ==
    \A j \in 1..Len(s) : s[j].own \in 0..Len(c) /\ s[j].in \in 1..Len(c)

Ordered(s) ==
    \A j, l \in 1..Len(s) : s[l].own # 0 =>
        /\ j < l => s[j].own < s[l].own
        /\ j <= l /\ l > 1 => s[j].in < s[l].own

Owned(c, s) == \A i \in 1..Len(c) : \E j \in 1..Len(s) : s[j].own = i

OwnType(c, f) ==
    f.own # 0 =>
        /\ f.op \in Local => c[f.own].type \in Local
        /\ f.op \in Calls => c[f.own].type = "Function"
        /\ f.op \in Local \cup {"Call"} => c[f.own].parent = f.in

OwnTypes(c, s) == \A j \in 1..Len(s) : OwnType(c, s[j])

LEMMA OwnInvParts ==
    /\ OwnInv <=> /\ Bounded(ctxs, stack) /\ Ordered(stack)
                  /\ Owned(ctxs, stack) /\ OwnTypes(ctxs, stack)
    /\ OwnInv' <=> /\ Bounded(ctxs', stack') /\ Ordered(stack')
                   /\ Owned(ctxs', stack') /\ OwnTypes(ctxs', stack')
BY DEF OwnInv, Bounded, Ordered, Owned, OwnTypes, OwnType, Parent

\* An instruction without a context begins.
LEMMA OwnPush ==
    ASSUME IndInv, ctxs' = ctxs, NEW f \in FrameSet, Pushed(f), f.own = 0, f.in = Here
    PROVE  OwnInv'
<1> DEFINE T == Len(stack)
<1>1. /\ T \in Nat /\ Len(stack') = T + 1 /\ Here \in 1..Len(ctxs) /\ Len(ctxs) \in Nat
      /\ stack'[T + 1] = f /\ \A k \in 1..T : stack'[k] = stack[k]
  BY TopFrame, Elements DEF IndInv, Pushed
<1>2. /\ Bounded(ctxs, stack) /\ Ordered(stack)
      /\ Owned(ctxs, stack) /\ OwnTypes(ctxs, stack)
  BY OwnInvParts DEF IndInv
<1> HIDE DEF T
<1>3. \A j \in 1..(T + 1) : j \in 1..T \/ j = T + 1
  BY <1>1
<1>4. Bounded(ctxs', stack')
  BY <1>1, <1>2, <1>3 DEF Bounded, T
<1>5. Ordered(stack')
  <2> SUFFICES ASSUME NEW j \in 1..(T + 1), NEW l \in 1..(T + 1), stack'[l].own # 0
               PROVE  /\ j < l => stack'[j].own < stack'[l].own
                      /\ j <= l /\ l > 1 => stack'[j].in < stack'[l].own
    BY <1>1 DEF Ordered
  <2>1. l \in 1..T
    BY <1>1, <1>3
  <2>2. j <= l => j \in 1..T
    BY <1>1, <2>1
  <2>3. CASE j \in 1..T
    BY <1>1, <1>2, <2>1, <2>3 DEF Ordered, T
  <2>4. CASE ~(j <= l)
    BY <1>1, <2>1, <2>4
  <2> QED BY <2>2, <2>3, <2>4
<1>6. Owned(ctxs', stack')
  BY <1>1, <1>2, <1>3 DEF Owned, T
<1>7. OwnTypes(ctxs', stack')
  BY <1>1, <1>2, <1>3 DEF OwnTypes, OwnType, T
<1> QED BY <1>4, <1>5, <1>6, <1>7, OwnInvParts

\* A loop or a switch begins.
LEMMA OwnPushContext ==
    ASSUME IndInv, NEW c \in CtxSet, Created(c), NEW f \in FrameSet, Pushed(f),
           f.own = Len(ctxs) + 1, f.in = Here, OwnType(ctxs', f)
    PROVE  OwnInv'
<1> DEFINE T == Len(stack)
           N == Len(ctxs)
<1>1. /\ T \in Nat /\ Len(stack') = T + 1 /\ Here \in 1..N /\ N \in Nat
      /\ stack'[T + 1] = f /\ \A k \in 1..T : stack'[k] = stack[k]
      /\ Len(ctxs') = N + 1 /\ \A i \in 1..N : ctxs'[i] = ctxs[i]
  BY TopFrame, Elements DEF IndInv, Pushed, Created
<1>2. /\ Bounded(ctxs, stack) /\ Ordered(stack)
      /\ Owned(ctxs, stack) /\ OwnTypes(ctxs, stack)
  BY OwnInvParts DEF IndInv
<1>a. /\ \A j \in 1..T : stack[j].own \in 0..N /\ stack[j].in \in 1..N
      /\ f.own = N + 1 /\ f.in \in 1..N
  BY <1>1, <1>2 DEF Bounded
<1> HIDE DEF T, N
<1>3. \A j \in 1..(T + 1) : j \in 1..T \/ j = T + 1
  BY <1>1
<1>4. Bounded(ctxs', stack')
  <2>1. ASSUME NEW j \in 1..(T + 1)
        PROVE stack'[j].own \in 0..(N + 1) /\ stack'[j].in \in 1..(N + 1)
    <3>1. CASE j \in 1..T
      <4>1. stack'[j] = stack[j] /\ stack[j].own \in 0..N /\ stack[j].in \in 1..N
        BY <1>1, <1>a, <3>1
      <4> QED BY <1>1, <4>1
    <3>2. CASE j = T + 1
      BY <1>1, <1>a, <3>2
    <3> QED BY <1>3, <3>1, <3>2
  <2> QED BY <1>1, <2>1 DEF Bounded
<1>5. Ordered(stack')
  <2> SUFFICES ASSUME NEW j \in 1..(T + 1), NEW l \in 1..(T + 1), stack'[l].own # 0
               PROVE  /\ j < l => stack'[j].own < stack'[l].own
                      /\ j <= l /\ l > 1 => stack'[j].in < stack'[l].own
    BY <1>1 DEF Ordered
  <2>1. CASE l = T + 1 /\ j = T + 1
    <3>1. stack'[j] = f /\ stack'[l] = f
      BY <1>1, <2>1
    <3> QED BY <1>1, <1>a, <2>1, <3>1
  <2>2. CASE l = T + 1 /\ j \in 1..T
    <3>1. stack'[j] = stack[j] /\ stack[j].own \in 0..N /\ stack[j].in \in 1..N
      BY <1>1, <1>a, <2>2
    <3> QED BY <1>1, <1>a, <2>2, <3>1
  <2>3. CASE l \in 1..T /\ j = T + 1
    BY <1>1, <2>3
  <2>4. CASE l \in 1..T /\ j \in 1..T
    BY <1>1, <1>2, <2>4 DEF Ordered, T
  <2> QED BY <1>3, <2>1, <2>2, <2>3, <2>4
<1>6. Owned(ctxs', stack')
  <2>1. ASSUME NEW i \in 1..(N + 1) PROVE \E j \in 1..(T + 1) : stack'[j].own = i
    <3>1. CASE i = N + 1
      <4>1. T + 1 \in 1..(T + 1)
        BY <1>1
      <4> QED BY <1>1, <1>a, <3>1, <4>1
    <3>2. CASE i \in 1..N
      <4>1. PICK j \in 1..T : stack[j].own = i
        BY <1>2, <3>2 DEF Owned, T, N
      <4>2. j \in 1..(T + 1)
        BY <1>1
      <4> QED BY <1>1, <4>1, <4>2
    <3> QED BY <1>1, <3>1, <3>2
  <2> QED BY <1>1, <2>1 DEF Owned
<1>7. OwnTypes(ctxs', stack')
  <2>1. ASSUME NEW j \in 1..T PROVE OwnType(ctxs', stack'[j])
    <3>1. stack[j].own # 0 => ctxs'[stack[j].own] = ctxs[stack[j].own]
      BY <1>1, <1>a
    <3> QED BY <1>1, <1>2, <3>1 DEF OwnTypes, OwnType, T
  <2> QED BY <1>1, <1>3, <2>1 DEF OwnTypes
<1> QED BY <1>4, <1>5, <1>6, <1>7, OwnInvParts

\* An instruction that has no context ends.
LEMMA OwnPop ==
    ASSUME IndInv, Reflagged, Popped, Top.own = 0
    PROVE  OwnInv'
<1> DEFINE T == Len(stack)
<1>1. /\ T \in Nat /\ T \in 1..T /\ Top = stack[T] /\ Len(stack') = T - 1
      /\ \A k \in 1..(T - 1) : /\ stack'[k].op = stack[k].op /\ stack'[k].in = stack[k].in
                               /\ stack'[k].own = stack[k].own
      /\ Len(ctxs') = Len(ctxs)
      /\ \A i \in 1..Len(ctxs) :
            ctxs'[i].type = ctxs[i].type /\ ctxs'[i].parent = ctxs[i].parent
  BY TopFrame, Elements DEF IndInv, Popped, Reflagged
<1>2. /\ Bounded(ctxs, stack) /\ Ordered(stack)
      /\ Owned(ctxs, stack) /\ OwnTypes(ctxs, stack)
  BY OwnInvParts DEF IndInv
<1>a. \A j \in 1..T : stack[j].own \in 0..Len(ctxs) /\ stack[j].in \in 1..Len(ctxs)
  BY <1>2 DEF Bounded
<1> HIDE DEF T
<1>3. \A j \in 1..(T - 1) : j \in 1..T
  BY <1>1
<1>4. Bounded(ctxs', stack')
  <2>1. ASSUME NEW j \in 1..(T - 1)
        PROVE  stack'[j].own \in 0..Len(ctxs) /\ stack'[j].in \in 1..Len(ctxs)
    BY <1>1, <1>a, <1>3
  <2> QED BY <1>1, <2>1 DEF Bounded
<1>5. Ordered(stack')
  <2>1. ASSUME NEW j \in 1..(T - 1), NEW l \in 1..(T - 1), stack'[l].own # 0
        PROVE  /\ j < l => stack'[j].own < stack'[l].own
               /\ j <= l /\ l > 1 => stack'[j].in < stack'[l].own
    BY <1>1, <1>2, <1>3, <2>1 DEF Ordered, T
  <2> QED BY <1>1, <2>1 DEF Ordered
<1>6. Owned(ctxs', stack')
  <2>1. ASSUME NEW i \in 1..Len(ctxs) PROVE \E j \in 1..(T - 1) : stack'[j].own = i
    <3>1. PICK j \in 1..T : stack[j].own = i
      BY <1>2 DEF Owned, T
    <3>2. j # T
      BY <1>1, <3>1
    <3>3. j \in 1..(T - 1)
      BY <1>1, <3>2
    <3> QED BY <1>1, <3>1, <3>3
  <2> QED BY <1>1, <2>1 DEF Owned
<1>7. OwnTypes(ctxs', stack')
  <2>1. ASSUME NEW j \in 1..(T - 1) PROVE OwnType(ctxs', stack'[j])
    <3>1. OwnType(ctxs, stack[j]) /\ stack[j].own \in 0..Len(ctxs)
      BY <1>2, <1>3, <1>a DEF OwnTypes, T
    <3> QED BY <1>1, <3>1 DEF OwnType
  <2> QED BY <1>1, <2>1 DEF OwnTypes
<1> QED BY <1>4, <1>5, <1>6, <1>7, OwnInvParts

\* A loop, a switch or a call ends, and its context with it.
LEMMA OwnPopContext ==
    ASSUME IndInv, Destroyed, Popped, Top.own # 0, Top.op # "File"
    PROVE  OwnInv'
<1> DEFINE T == Len(stack)
           N == Len(ctxs)
<1>1. /\ T \in Nat /\ T \in 1..T /\ Top = stack[T] /\ Len(stack') = T - 1 /\ T > 1
      /\ \A k \in 1..(T - 1) : /\ stack'[k].op = stack[k].op /\ stack'[k].in = stack[k].in
                               /\ stack'[k].own = stack[k].own
      /\ N \in Nat /\ Len(ctxs') = N - 1 /\ Top.own = N
      /\ \A i \in 1..(N - 1) : ctxs'[i] = ctxs[i]
  BY TopFrame, Elements DEF IndInv, Popped, Destroyed
<1>2. /\ Bounded(ctxs, stack) /\ Ordered(stack)
      /\ Owned(ctxs, stack) /\ OwnTypes(ctxs, stack)
  BY OwnInvParts DEF IndInv
<1>a. \A j \in 1..T : stack[j].own \in 0..N /\ stack[j].in \in 1..N
  BY <1>2 DEF Bounded
<1>b. ASSUME NEW j \in 1..(T - 1)
      PROVE  j \in 1..T /\ stack[j].own \in 0..(N - 1) /\ stack[j].in \in 1..(N - 1)
  <2>1. j \in 1..T /\ j < T
    BY <1>1
  <2>2. stack[j].own < stack[T].own /\ stack[j].in < stack[T].own
    BY <1>1, <1>2, <2>1 DEF Ordered
  <2> QED BY <1>1, <1>a, <2>1, <2>2
<1> HIDE DEF T, N
<1>4. Bounded(ctxs', stack')
  BY <1>1, <1>b DEF Bounded
<1>5. Ordered(stack')
  BY <1>1, <1>2, <1>b DEF Ordered, T
<1>6. Owned(ctxs', stack')
  <2>1. ASSUME NEW i \in 1..(N - 1) PROVE \E j \in 1..(T - 1) : stack'[j].own = i
    <3>1. PICK j \in 1..T : stack[j].own = i
      <4>1. i \in 1..N
        BY <1>1
      <4> QED BY <1>2, <4>1 DEF Owned, T, N
    <3>2. j # T
      BY <1>1, <3>1
    <3>3. j \in 1..(T - 1)
      BY <1>1, <3>2
    <3> QED BY <1>1, <3>1, <3>3
  <2> QED BY <1>1, <2>1 DEF Owned
<1>7. OwnTypes(ctxs', stack')
  <2>1. ASSUME NEW j \in 1..(T - 1) PROVE OwnType(ctxs', stack'[j])
    <3>1. OwnType(ctxs, stack[j])
      BY <1>2, <1>b DEF OwnTypes, T
    <3>2. stack[j].own # 0 => ctxs'[stack[j].own] = ctxs[stack[j].own]
      BY <1>1, <1>b
    <3> QED BY <1>1, <3>1, <3>2 DEF OwnType
  <2> QED BY <1>1, <2>1 DEF OwnTypes
<1> QED BY <1>4, <1>5, <1>6, <1>7, OwnInvParts

\* The innermost instruction enters another phase, or stays in its own.
LEMMA OwnReplace ==
    ASSUME IndInv, Reflagged, NEW f \in FrameSet, Replaced(f),
           f.op = Top.op, f.in = Top.in, f.own = Top.own
    PROVE  OwnInv'
<1> DEFINE T == Len(stack)
<1>1. /\ T \in Nat /\ Len(stack') = T /\ Len(ctxs') = Len(ctxs)
      /\ \A i \in 1..Len(ctxs) :
            ctxs'[i].type = ctxs[i].type /\ ctxs'[i].parent = ctxs[i].parent
  BY Elements DEF IndInv, Replaced, Reflagged
<1>2. /\ Bounded(ctxs, stack) /\ Ordered(stack)
      /\ Owned(ctxs, stack) /\ OwnTypes(ctxs, stack)
  BY OwnInvParts DEF IndInv
<1>3. ASSUME NEW k \in 1..T
      PROVE  /\ stack'[k].op = stack[k].op /\ stack'[k].in = stack[k].in
             /\ stack'[k].own = stack[k].own
  <2>1. CASE k \in 1..(T - 1)
    BY <2>1 DEF Replaced
  <2>2. CASE k = T
    BY <2>2, TopFrame DEF Replaced
  <2> QED BY <1>1, <2>1, <2>2
<1> HIDE DEF T
<1>4. Bounded(ctxs', stack')
  <2>1. ASSUME NEW j \in 1..T
        PROVE  stack'[j].own \in 0..Len(ctxs) /\ stack'[j].in \in 1..Len(ctxs)
    BY <1>2, <1>3 DEF Bounded, T
  <2> QED BY <1>1, <2>1 DEF Bounded
<1>5. Ordered(stack')
  <2>1. ASSUME NEW j \in 1..T, NEW l \in 1..T, stack'[l].own # 0
        PROVE  /\ j < l => stack'[j].own < stack'[l].own
               /\ j <= l /\ l > 1 => stack'[j].in < stack'[l].own
    BY <1>2, <1>3, <2>1 DEF Ordered, T
  <2> QED BY <1>1, <2>1 DEF Ordered
<1>6. Owned(ctxs', stack')
  <2>1. ASSUME NEW i \in 1..Len(ctxs) PROVE \E j \in 1..T : stack'[j].own = i
    <3>1. PICK j \in 1..T : stack[j].own = i
      BY <1>2 DEF Owned, T
    <3> QED BY <1>3, <3>1
  <2> QED BY <1>1, <2>1 DEF Owned
<1>7. OwnTypes(ctxs', stack')
  <2>1. ASSUME NEW j \in 1..T PROVE OwnType(ctxs', stack'[j])
    <3>1. OwnType(ctxs, stack[j]) /\ stack[j].own \in 0..Len(ctxs)
      BY <1>2 DEF OwnTypes, Bounded, T
    <3> QED BY <1>1, <1>3, <3>1 DEF OwnType
  <2> QED BY <1>1, <2>1 DEF OwnTypes
<1> QED BY <1>4, <1>5, <1>6, <1>7, OwnInvParts

\* The context of a call is created.
LEMMA OwnCall ==
    ASSUME IndInv, NEW c \in CtxSet, Created(c), NEW f \in FrameSet, Replaced(f),
           f.in = Top.in, f.own = Len(ctxs) + 1, Top.own = 0, Top.op # "File",
           OwnType(ctxs', f)
    PROVE  OwnInv'
<1> DEFINE T == Len(stack)
           N == Len(ctxs)
<1>1. /\ T \in Nat /\ T \in 1..T /\ Top = stack[T] /\ Len(stack') = T
      /\ stack'[T] = f /\ \A k \in 1..(T - 1) : stack'[k] = stack[k]
      /\ N \in Nat /\ Len(ctxs') = N + 1 /\ \A i \in 1..N : ctxs'[i] = ctxs[i]
  BY TopFrame, Elements DEF IndInv, Replaced, Created
<1>2. /\ Bounded(ctxs, stack) /\ Ordered(stack)
      /\ Owned(ctxs, stack) /\ OwnTypes(ctxs, stack)
  BY OwnInvParts DEF IndInv
<1>a. /\ \A j \in 1..T : stack[j].own \in 0..N /\ stack[j].in \in 1..N
      /\ f.own = N + 1 /\ f.in \in 1..N
  BY <1>1, <1>2 DEF Bounded
<1> HIDE DEF T, N
<1>3. \A j \in 1..T : j \in 1..(T - 1) \/ j = T
  BY <1>1
<1>4. Bounded(ctxs', stack')
  <2>1. ASSUME NEW j \in 1..T
        PROVE stack'[j].own \in 0..(N + 1) /\ stack'[j].in \in 1..(N + 1)
    <3>1. CASE j \in 1..(T - 1)
      <4>1. stack'[j] = stack[j] /\ stack[j].own \in 0..N /\ stack[j].in \in 1..N
        BY <1>1, <1>a, <3>1
      <4> QED BY <1>1, <4>1
    <3>2. CASE j = T
      BY <1>1, <1>a, <3>2
    <3> QED BY <1>3, <3>1, <3>2
  <2> QED BY <1>1, <2>1 DEF Bounded
<1>5. Ordered(stack')
  <2>1. ASSUME NEW j \in 1..T, NEW l \in 1..T, stack'[l].own # 0
        PROVE  /\ j < l => stack'[j].own < stack'[l].own
               /\ j <= l /\ l > 1 => stack'[j].in < stack'[l].own
    <3>1. CASE l = T /\ j = T
      <4>1. stack'[j] = f /\ stack'[l] = f
        BY <1>1, <3>1
      <4> QED BY <1>1, <1>a, <3>1, <4>1
    <3>2. CASE l = T /\ j \in 1..(T - 1)
      <4>1. stack'[j] = stack[j] /\ stack[j].own \in 0..N /\ stack[j].in \in 1..N
        BY <1>1, <1>a, <3>2
      <4>2. stack'[l] = f
        BY <1>1, <3>2
      <4> QED BY <1>1, <1>a, <4>1, <4>2
    <3>3. CASE l \in 1..(T - 1) /\ j = T
      BY <1>1, <3>3
    <3>4. CASE l \in 1..(T - 1) /\ j \in 1..(T - 1)
      BY <1>1, <1>2, <2>1, <3>4 DEF Ordered, T
    <3> QED BY <1>3, <3>1, <3>2, <3>3, <3>4
  <2> QED BY <1>1, <2>1 DEF Ordered
<1>6. Owned(ctxs', stack')
  <2>1. ASSUME NEW i \in 1..(N + 1) PROVE \E j \in 1..T : stack'[j].own = i
    <3>1. CASE i = N + 1
      BY <1>1, <1>a, <3>1
    <3>2. CASE i \in 1..N
      <4>1. PICK j \in 1..T : stack[j].own = i
        BY <1>2, <3>2 DEF Owned, T, N
      <4>2. j # T
        BY <1>1, <3>2, <4>1
      <4> QED BY <1>1, <1>3, <4>1, <4>2
    <3> QED BY <1>1, <3>1, <3>2
  <2> QED BY <1>1, <2>1 DEF Owned
<1>7. OwnTypes(ctxs', stack')
  <2>1. ASSUME NEW j \in 1..(T - 1) PROVE OwnType(ctxs', stack'[j])
    <3>1. stack[j].own # 0 => ctxs'[stack[j].own] = ctxs[stack[j].own]
      BY <1>1, <1>a
    <3>2. OwnType(ctxs, stack[j])
      BY <1>1, <1>2 DEF OwnTypes, T
    <3> QED BY <1>1, <3>1, <3>2 DEF OwnType
  <2> QED BY <1>1, <1>3, <2>1 DEF OwnTypes
<1> QED BY <1>4, <1>5, <1>6, <1>7, OwnInvParts

LEMMA SameReplaced ==
    ASSUME IndInv, stack' = stack
    PROVE  Replaced(Top)
BY TopFrame, Elements DEF IndInv, Replaced

-----------------------------------------------------------------------------
(* Steps preserve JumpInv.                                                 *)

\* What was not left still is not: the contexts of the frames are old ones that
\* at most an exit() left, or new.
LEMMA JumpNone ==
    ASSUME IndInv, Top.at # "body" \/ ~Interrupted(Here),
           \A k \in 1..Len(stack') :
                \/ stack'[k].own = 0
                \/ ctxs'[stack'[k].own].flags = {}
                \/ \E l \in 1..Len(stack) :
                    /\ stack'[k].own = stack[l].own
                    /\ ctxs'[stack[l].own].flags \subseteq ctxs[stack[l].own].flags \cup {"exit"}
    PROVE  JumpInv'
<1> SUFFICES ASSUME NEW k \in 1..Len(stack'), stack'[k].own # 0
             PROVE  ctxs'[stack'[k].own].flags \subseteq {"exit"}
  BY DEF JumpInv
<1>1. CASE ctxs'[stack'[k].own].flags = {}
  BY <1>1
<1>2. CASE \E l \in 1..Len(stack) :
                /\ stack'[k].own = stack[l].own
                /\ ctxs'[stack[l].own].flags \subseteq ctxs[stack[l].own].flags \cup {"exit"}
  <2>1. PICK l \in 1..Len(stack) :
                /\ stack'[k].own = stack[l].own
                /\ ctxs'[stack[l].own].flags \subseteq ctxs[stack[l].own].flags \cup {"exit"}
    BY <1>2
  <2>2. ctxs[stack[l].own].flags \subseteq {"exit"}
    BY <2>1, NothingLeft DEF Left
  <2> QED BY <2>1, <2>2
<1> QED BY <1>1, <1>2

LEMMA JumpPopContext ==
    ASSUME IndInv, Destroyed, Popped, Top.own # 0, Top.op # "File"
    PROVE  JumpInv'
<1> DEFINE T == Len(stack)
           N == Len(ctxs)
<1>1. /\ T \in Nat /\ Len(stack') = T - 1 /\ N \in Nat
      /\ \A k \in 1..(T - 1) : /\ stack'[k].op = stack[k].op /\ stack'[k].at = stack[k].at
                               /\ stack'[k].own = stack[k].own
      /\ \A i \in 1..(N - 1) : ctxs'[i] = ctxs[i]
  BY Elements DEF IndInv, Popped, Destroyed
<1>2. ASSUME NEW k \in 1..(T - 1), stack[k].own # 0
      PROVE  ctxs'[stack[k].own] = ctxs[stack[k].own]
  <2>1. /\ k \in 1..T /\ k < T /\ T \in 1..T /\ stack[T].own = N /\ stack[T].own # 0
    BY <1>1, TopFrame
  <2>2. stack[k].own < N /\ stack[k].own \in 0..N
    BY <1>2, <2>1 DEF IndInv, OwnInv
  <2> QED BY <1>1, <1>2, <2>2
<1>3. ASSUME NEW k \in 1..(T - 1), stack[k].own # 0,
             ~(ctxs'[stack[k].own].flags \subseteq {"exit"})
      PROVE  /\ stack[k].at = "body"
             /\ \A j \in (k + 1)..(T - 1) :
                    /\ stack[j].op \in Local /\ stack[j].at = "body" /\ stack[j].own # 0
                    /\ "return" \in ctxs[stack[j].own].flags
  <2>1. k \in 1..T /\ \A j \in (k + 1)..(T - 1) : j \in (k + 1)..T /\ j \in 1..T
    BY <1>1
  <2>2. /\ stack[k].at = "body"
        /\ \A j \in (k + 1)..T :
              /\ stack[j].op \in Local /\ stack[j].at = "body"
              /\ "return" \in ctxs[stack[j].own].flags
    BY <1>2, <1>3, <2>1 DEF IndInv, JumpInv
  <2>3. \A j \in 1..T : stack[j].op \in Local => stack[j].own # 0
    BY DEF IndInv, StackInv, Shape
  <2> QED BY <2>1, <2>2, <2>3
<1> HIDE DEF T, N
<1>4. ASSUME NEW k \in 1..(T - 1), stack'[k].own # 0,
             ~(ctxs'[stack'[k].own].flags \subseteq {"exit"})
      PROVE  /\ stack'[k].at = "body"
             /\ \A j \in (k + 1)..(T - 1) :
                    /\ stack'[j].op \in Local /\ stack'[j].at = "body"
                    /\ "return" \in ctxs'[stack'[j].own].flags
  <2>1. stack'[k].own = stack[k].own /\ stack'[k].at = stack[k].at
    BY <1>1
  <2>2. stack[k].at = "body"
    BY <1>3, <1>4, <2>1
  <2>3. ASSUME NEW j \in (k + 1)..(T - 1)
        PROVE  /\ stack'[j].op \in Local /\ stack'[j].at = "body"
               /\ "return" \in ctxs'[stack'[j].own].flags
    <3>1. /\ stack[j].op \in Local /\ stack[j].at = "body" /\ stack[j].own # 0
          /\ "return" \in ctxs[stack[j].own].flags
      BY <1>3, <1>4, <2>1
    <3>2. j \in 1..(T - 1)
      BY <1>1
    <3> QED BY <1>1, <1>2, <3>1, <3>2
  <2> QED BY <2>1, <2>2, <2>3
<1> QED BY <1>1, <1>4 DEF JumpInv

\* A loop goes on after its body: what is around it was not left.
LEMMA JumpEndBody ==
    ASSUME IndInv, Top.op \in Local, Top.at = "body",
           ctxs[Top.own].flags \subseteq {"continue"},
           ctxs' = [ctxs EXCEPT ![Top.own].flags = {}],
           NEW f \in FrameSet, Replaced(f), f.own = Top.own
    PROVE  JumpInv'
<1> DEFINE T == Len(stack)
           N == Len(ctxs)
<1>1. /\ T \in Nat /\ T \in 1..T /\ Top = stack[T] /\ Top.own = N /\ N \in 1..N
      /\ Len(stack') = T /\ stack'[T] = f /\ \A k \in 1..(T - 1) : stack'[k] = stack[k]
      /\ \A k \in 1..(T - 1) : stack[k].own < N
      /\ \A j \in 1..T : stack[j].own \in 0..N
  BY TopFrame, OwnsBody, Elements DEF IndInv, Replaced, OwnInv
<1>2. /\ ctxs'[N].flags = {}
      /\ \A i \in 1..N : i # N => ctxs'[i] = ctxs[i]
  BY <1>1, Elements DEF IndInv, CtxSet
<1> SUFFICES ASSUME NEW k \in 1..T, stack'[k].own # 0
             PROVE  ctxs'[stack'[k].own].flags \subseteq {"exit"}
  BY <1>1 DEF JumpInv
<1>3. CASE k = T
  BY <1>1, <1>2, <1>3
<1>4. CASE k \in 1..(T - 1)
  <2>1. /\ stack'[k] = stack[k] /\ stack[k].own \in 1..N /\ stack[k].own # N
        /\ T \in (k + 1)..T
    BY <1>1, <1>4
  <2>2. ctxs'[stack'[k].own] = ctxs[stack[k].own]
    BY <1>2, <2>1
  <2>3. "return" \notin ctxs[Top.own].flags
    OBVIOUS
  <2>4. ctxs[stack[k].own].flags \subseteq {"exit"}
    BY <1>1, <2>1, <2>3 DEF IndInv, JumpInv
  <2> QED BY <2>2, <2>4
<1> QED BY <1>1, <1>3, <1>4

\* break and continue leave the innermost body.
LEMMA JumpBreak ==
    ASSUME IndInv, ~Interrupted(Here), Top.at = "body",
           NEW flag \in Flag, ctxs' = Flagged({Here}, flag), stack' = stack
    PROVE  JumpInv'
<1> DEFINE T == Len(stack)
           N == Len(ctxs)
<1>1. /\ T \in Nat /\ T \in 1..T /\ Top = stack[T] /\ Here = N /\ N \in 1..N
      /\ \A k \in 1..(T - 1) : stack[k].own < N
      /\ \A j \in 1..T : stack[j].own \in 0..N
  BY TopFrame, OwnsBody, Elements DEF IndInv, OwnInv
<1>2. \A i \in 1..N : i # N => ctxs'[i].flags = ctxs[i].flags
  BY <1>1, FlaggedElement DEF IndInv
<1>3. ASSUME NEW k \in 1..(T - 1), stack[k].own # 0
      PROVE  ctxs'[stack[k].own].flags \subseteq {"exit"}
  <2>1. k \in 1..T /\ stack[k].own \in 1..N /\ stack[k].own # N
    BY <1>1, <1>3
  <2>2. ctxs[stack[k].own].flags \subseteq {"exit"}
    BY <1>3, <2>1, NothingLeft DEF Left
  <2> QED BY <1>2, <2>1, <2>2
<1>4. /\ stack[T].at = "body"
      /\ \A j \in (T + 1)..T : FALSE
  BY <1>1
<1>5. \A k \in 1..T : k \in 1..(T - 1) \/ k = T
  BY <1>1
<1> HIDE DEF T, N
<1>6. ASSUME NEW k \in 1..T, stack[k].own # 0,
             ~(ctxs'[stack[k].own].flags \subseteq {"exit"})
      PROVE  k = T
  BY <1>3, <1>5, <1>6
<1> QED BY <1>1, <1>4, <1>6 DEF JumpInv, T

\* The innermost instruction is a statement in a body of the last context.
LEMMA ReturnFrame ==
    ASSUME IndInv, Top.op = "Return"
    PROVE  /\ Len(stack) > 1 /\ stack[Len(stack) - 1].at = "body"
           /\ Top.own = 0 /\ Top.at # "body" /\ Top.in = Len(ctxs)
           /\ stack[Len(stack) - 1].own = Len(ctxs)
<1> DEFINE T == Len(stack)
           N == Len(ctxs)
<1>1. /\ T \in Nat /\ T > 1 /\ T \in 1..T /\ T - 1 \in 1..T /\ T - 1 \in 1..(T - 1)
      /\ Top = stack[T] /\ Top.own = 0 /\ Top.at # "body"
      /\ Top.in = ContextOf(stack[T - 1]) /\ N \in 1..N
  BY TopFrame, Elements DEF IndInv, Shape
<1>2. stack[T - 1].at = "body"
  <2>1. \/ stack[T - 1].at = "body"
        \/ \E m \in ((T - 1) + 1)..(T - 1) : TRUE
    BY <1>1 DEF IndInv, StackInv
  <2>2. ~ \E m \in ((T - 1) + 1)..(T - 1) : TRUE
    BY <1>1
  <2> QED BY <2>1, <2>2
<1>3. stack[T - 1].own # 0 /\ Top.in = stack[T - 1].own
  <2>1. stack[T - 1] \in FrameSet /\ Shape(stack[T - 1])
    BY <1>1, Elements DEF IndInv, StackInv
  <2> QED BY <1>1, <1>2, <2>1 DEF Shape, FrameSet, Local, Calls, ContextOf
<1>4. stack[T - 1].own = N
  <2>1. PICK j \in 1..T : stack[j].own = N
    BY <1>1 DEF IndInv, OwnInv
  <2>2. CASE j = T
    BY <1>1, <2>1, <2>2
  <2>3. CASE j = T - 1
    BY <2>1, <2>3
  <2>4. CASE j < T - 1
    <3>1. stack[j].own < stack[T - 1].own /\ stack[T - 1].own \in 0..N
      BY <1>1, <1>3, <2>4 DEF IndInv, OwnInv
    <3> QED BY <1>1, <2>1, <3>1
  <2> QED BY <1>1, <2>2, <2>3, <2>4
<1> QED BY <1>1, <1>2, <1>3, <1>4

\* What is around a return, up to the first context of its activation, is a body
\* of a loop or a switch.
LEMMA ReturnBodies ==
    ASSUME IndInv, Top.op = "Return", NEW k \in 1..(Len(stack) - 1), stack[k].own # 0,
           stack[k].own \in Activation(Len(ctxs))
    PROVE  /\ stack[k].at = "body"
           /\ \A j \in (k + 1)..(Len(stack) - 1) :
                /\ stack[j].op \in Local /\ stack[j].at = "body"
                /\ stack[j].own \in Activation(Len(ctxs))
<1> DEFINE T == Len(stack)
           N == Len(ctxs)
<1>1. T \in Nat /\ T \in 1..T /\ Top = stack[T] /\ N \in Nat
  BY TopFrame, Elements DEF IndInv
<1>2. ASSUME NEW j \in (k + 1)..(T - 1), stack[j].own # 0
      PROVE  stack[j].own \in Activation(N) /\ stack[j].op \in Local
  <2>1. /\ j \in 1..T /\ k \in 1..T /\ k < j /\ j > 1
    BY <1>1
  <2>2. stack[k].own < stack[j].own /\ stack[j].own \in 1..N
    BY <1>2, <2>1, <1>1 DEF IndInv, OwnInv
  <2>3. stack[j].own \in Activation(N) /\ ctxs[stack[j].own].type \in Local
    BY <2>2, ActivationInterval DEF IndInv
  <2>4. stack[j].op \notin Calls
    BY <1>2, <2>1, <2>3 DEF IndInv, OwnInv, Local
  <2>5. stack[j].op # "File" /\ stack[j].op \notin {"Return", "Runtime"}
    BY <1>2, <2>1 DEF IndInv, StackInv, Shape
  <2>6. stack[j].op \in {"File", "Return", "Runtime"} \cup Local \cup Calls
    BY <2>1, Elements DEF IndInv, FrameSet
  <2> QED BY <2>3, <2>4, <2>5, <2>6
<1>3. ASSUME NEW j \in k..(T - 1) PROVE stack[j].at = "body"
  <2>1. j \in 1..(T - 1)
    BY <1>1
  <2>2. \/ stack[j].at = "body"
        \/ \E m \in (j + 1)..(T - 1) : stack[m].op \in Calls /\ stack[m].at = "body"
    BY <1>1, <2>1 DEF IndInv, StackInv
  <2>3. ASSUME NEW m \in (j + 1)..(T - 1), stack[m].op \in Calls, stack[m].at = "body"
        PROVE  FALSE
    <3>1. m \in (k + 1)..(T - 1) /\ m \in 1..T
      BY <1>1
    <3>2. stack[m].own # 0
      <4>1. Shape(stack[m])
        BY <3>1 DEF IndInv, StackInv
      <4> QED BY <2>3, <4>1 DEF Shape
    <3>3. stack[m].op \in Local
      BY <1>2, <3>1, <3>2
    <3> QED BY <2>3, <3>3 DEF Local, Calls
  <2> QED BY <2>2, <2>3
<1>4. ASSUME NEW j \in (k + 1)..(T - 1)
      PROVE  stack[j].own # 0
  <2>1. j \in 1..T /\ j \in k..(T - 1)
    BY <1>1
  <2>2. stack[j] \in FrameSet /\ Shape(stack[j]) /\ stack[j].at = "body"
    BY <1>3, <2>1, Elements DEF IndInv, StackInv
  <2> QED BY <2>2 DEF Shape, FrameSet, Local, Calls
<1>5. k \in k..(T - 1) /\ \A j \in (k + 1)..(T - 1) : j \in k..(T - 1)
  BY <1>1
<1> QED BY <1>2, <1>3, <1>4, <1>5

LEMMA JumpReturn ==
    ASSUME IndInv, Top.op = "Return",
           ctxs' = Flagged(Activation(Top.in), "return"), Popped
    PROVE  JumpInv'
<1> DEFINE T == Len(stack)
           N == Len(ctxs)
           A == Activation(N)
<1>1. /\ T \in Nat /\ N \in Nat /\ Len(stack') = T - 1
      /\ \A k \in 1..(T - 1) : /\ stack'[k].op = stack[k].op /\ stack'[k].at = stack[k].at
                               /\ stack'[k].own = stack[k].own
      /\ \A j \in 1..T : stack[j].own \in 0..N
  BY Elements DEF IndInv, Popped, OwnInv
<1>2. "return" \in Flag /\ Top.in = N
  BY ReturnFrame DEF Flag
<1>3. ASSUME NEW i \in 1..N
      PROVE  /\ i \in A => ctxs'[i].flags = ctxs[i].flags \cup {"return"}
             /\ i \notin A => ctxs'[i].flags = ctxs[i].flags
  BY <1>2, FlaggedElement DEF IndInv
<1>a. ASSUME NEW k \in 1..(T - 1), stack[k].own \in A, stack[k].own # 0
      PROVE  /\ stack[k].at = "body"
             /\ \A j \in (k + 1)..(T - 1) :
                    stack[j].op \in Local /\ stack[j].at = "body" /\ stack[j].own \in A
  BY <1>a, ReturnBodies
<1>b. A \subseteq 1..N
  BY ActivationClosed, TopFrame DEF IndInv
<1>c. ASSUME NEW k \in 1..(T - 1), stack[k].own # 0
      PROVE  ctxs[stack[k].own].flags \subseteq {"exit"}
  <2>1. k \in 1..T
    BY <1>1
  <2> QED BY <1>c, <2>1, NothingLeft, ReturnFrame DEF Left
<1> HIDE DEF T, N, A
<1>4. ASSUME NEW k \in 1..(T - 1), stack[k].own # 0,
             ~(ctxs'[stack[k].own].flags \subseteq {"exit"})
      PROVE  stack[k].own \in A
  <2>1. stack[k].own \in 1..N
    <3>1. k \in 1..T
      BY <1>1
    <3> QED BY <1>1, <1>4, <3>1
  <2> QED BY <1>3, <1>4, <1>c, <2>1
<1>5. ASSUME NEW k \in 1..(T - 1), stack'[k].own # 0,
             ~(ctxs'[stack'[k].own].flags \subseteq {"exit"})
      PROVE  /\ stack'[k].at = "body"
             /\ \A j \in (k + 1)..(T - 1) :
                    /\ stack'[j].op \in Local /\ stack'[j].at = "body"
                    /\ "return" \in ctxs'[stack'[j].own].flags
  <2>1. stack'[k].own = stack[k].own /\ stack'[k].at = stack[k].at
    BY <1>1
  <2>2. stack[k].own \in A
    BY <1>4, <1>5, <2>1
  <2>3. stack[k].at = "body"
    BY <1>5, <1>a, <2>1, <2>2
  <2>4. ASSUME NEW j \in (k + 1)..(T - 1)
        PROVE  /\ stack'[j].op \in Local /\ stack'[j].at = "body"
               /\ "return" \in ctxs'[stack'[j].own].flags
    <3>1. stack[j].op \in Local /\ stack[j].at = "body" /\ stack[j].own \in A
      BY <1>5, <1>a, <2>1, <2>2
    <3>2. j \in 1..(T - 1)
      BY <1>1
    <3>3. ctxs'[stack[j].own].flags = ctxs[stack[j].own].flags \cup {"return"}
      BY <1>3, <1>b, <3>1
    <3> QED BY <1>1, <3>1, <3>2, <3>3
  <2> QED BY <2>1, <2>3, <2>4
<1> QED BY <1>1, <1>5 DEF JumpInv

-----------------------------------------------------------------------------
(* Steps preserve ReturnInv.                                               *)

LEMMA ReturnedCreate ==
    ASSUME IndInv, NEW type \in Type, NEW p \in Nat, Created(NewContext(type, p)),
           type \in Local => "return" \notin ctxs[Len(ctxs)].flags
    PROVE  ReturnInv'
<1>1. Len(ctxs) \in 1..Len(ctxs) /\ Len(ctxs) \in Nat
  BY TopFrame, Elements DEF IndInv
<1>2. "return" \notin ctxs'[1].flags
  BY <1>1 DEF Created, IndInv, ReturnInv
<1>3. ASSUME NEW i \in 2..(Len(ctxs) + 1), ctxs'[i].type \in Local
      PROVE  "return" \in ctxs'[i].flags <=> "return" \in ctxs'[i - 1].flags
  <2>1. CASE i \in 2..Len(ctxs)
    <3>1. i \in 1..Len(ctxs) /\ i - 1 \in 1..Len(ctxs)
      BY <1>1, <2>1
    <3>2. ctxs'[i] = ctxs[i] /\ ctxs'[i - 1] = ctxs[i - 1]
      BY <3>1 DEF Created
    <3> QED BY <1>3, <2>1, <3>2 DEF IndInv, ReturnInv
  <2>2. CASE i = Len(ctxs) + 1
    <3>1. i - 1 = Len(ctxs) /\ ctxs'[i - 1] = ctxs[Len(ctxs)]
      BY <1>1, <2>2 DEF Created
    <3>2. ctxs'[i].type = type /\ ctxs'[i].flags = {}
      BY <2>2 DEF Created, NewContext
    <3> QED BY <1>3, <3>1, <3>2
  <2> QED BY <1>1, <2>1, <2>2
<1> QED BY <1>2, <1>3 DEF ReturnInv, Created

LEMMA ReturnedDestroy ==
    ASSUME IndInv, Destroyed, Len(ctxs) > 1
    PROVE  ReturnInv'
<1>1. Len(ctxs) \in Nat
  BY Elements DEF IndInv
<1>2. "return" \notin ctxs'[1].flags
  BY <1>1 DEF Destroyed, IndInv, ReturnInv
<1>3. ASSUME NEW i \in 2..(Len(ctxs) - 1), ctxs'[i].type \in Local
      PROVE  "return" \in ctxs'[i].flags <=> "return" \in ctxs'[i - 1].flags
  <2>1. i \in 1..(Len(ctxs) - 1) /\ i - 1 \in 1..(Len(ctxs) - 1) /\ i \in 2..Len(ctxs)
    BY <1>1
  <2>2. ctxs'[i] = ctxs[i] /\ ctxs'[i - 1] = ctxs[i - 1]
    BY <2>1 DEF Destroyed
  <2> QED BY <1>3, <2>1, <2>2 DEF IndInv, ReturnInv
<1> QED BY <1>2, <1>3 DEF ReturnInv, Destroyed

\* Other flags come and go.
LEMMA ReturnedSame ==
    ASSUME IndInv, Reflagged,
           \A i \in 1..Len(ctxs) : "return" \in ctxs'[i].flags <=> "return" \in ctxs[i].flags
    PROVE  ReturnInv'
<1>1. Len(ctxs) \in 1..Len(ctxs) /\ Len(ctxs) \in Nat
  BY TopFrame, Elements DEF IndInv
<1>2. "return" \notin ctxs'[1].flags
  BY <1>1 DEF IndInv, ReturnInv
<1>3. ASSUME NEW i \in 2..Len(ctxs), ctxs'[i].type \in Local
      PROVE  "return" \in ctxs'[i].flags <=> "return" \in ctxs'[i - 1].flags
  <2>1. i \in 1..Len(ctxs) /\ i - 1 \in 1..Len(ctxs)
    BY <1>1
  <2>2. ctxs[i].type \in Local
    BY <1>3, <2>1 DEF Reflagged
  <2>3. "return" \in ctxs[i].flags <=> "return" \in ctxs[i - 1].flags
    BY <2>2 DEF IndInv, ReturnInv
  <2> QED BY <2>1, <2>3
<1> QED BY <1>2, <1>3 DEF ReturnInv, Reflagged

\* return flags a whole activation, which is not that of the file.
LEMMA ReturnedActivation ==
    ASSUME IndInv, Top.op = "Return", InFunction(Top.in),
           ctxs' = Flagged(Activation(Top.in), "return")
    PROVE  ReturnInv'
<1> DEFINE N == Len(ctxs)
           A == Activation(N)
<1>1. N \in 1..N /\ N \in Nat /\ Top.in = N /\ "return" \in Flag
  BY TopFrame, ReturnFrame, Elements DEF IndInv, Flag
<1>2. ASSUME NEW i \in 1..N
      PROVE  /\ ctxs'[i].type = ctxs[i].type
             /\ "return" \in ctxs'[i].flags <=> i \in A \/ "return" \in ctxs[i].flags
  <2>1. ctxs'[i].type = ctxs[i].type
    BY <1>1, FlaggedElement DEF IndInv
  <2>2. CASE i \in A
    <3>1. ctxs'[i].flags = ctxs[i].flags \cup {"return"}
      BY <1>1, <2>2, FlaggedElement DEF IndInv
    <3> QED BY <2>1, <2>2, <3>1
  <2>3. CASE i \notin A
    <3>1. ctxs'[i].flags = ctxs[i].flags
      BY <1>1, <2>3, FlaggedElement DEF IndInv
    <3> QED BY <2>1, <2>3, <3>1
  <2> QED BY <2>2, <2>3
<1>3. 1 \notin A
  <2> SUFFICES ASSUME 1 \in A PROVE FALSE
    OBVIOUS
  <2>1. PICK n \in Ancestors(N) : ctxs[n].type = "Function"
    BY <1>1 DEF InFunction
  <2>2. n \in 1..N
    BY <1>1 DEF Ancestors
  <2>3. n # 1
    BY <2>1 DEF IndInv, CtxInv
  <2>4. ctxs[n].type \in Local
    BY <1>1, <2>2, <2>3, ActivationInterval DEF IndInv
  <2> QED BY <2>1, <2>4 DEF Local
<1>4. ASSUME NEW i \in 2..N, ctxs[i].type \in Local
      PROVE  i \in A <=> i - 1 \in A
  <2>1. i \in 1..N /\ i - 1 \in 1..N /\ i - 1 < i
    BY <1>1
  <2>2. i \in A => i - 1 \in A
    BY <1>1, <1>4, ActivationClosed DEF IndInv
  <2>3. i - 1 \in A => i \in A
    BY <2>1, ActivationInterval DEF IndInv
  <2> QED BY <2>2, <2>3
<1>5. Len(ctxs') = N
  BY <1>1, FlaggedLength DEF IndInv
<1> HIDE DEF A
<1>6. "return" \notin ctxs'[1].flags
  BY <1>1, <1>2, <1>3 DEF IndInv, ReturnInv
<1>7. ASSUME NEW i \in 2..N, ctxs'[i].type \in Local
      PROVE  "return" \in ctxs'[i].flags <=> "return" \in ctxs'[i - 1].flags
  <2>1. i \in 1..N /\ i - 1 \in 1..N
    BY <1>1
  <2>2. ctxs[i].type \in Local
    BY <1>2, <1>7, <2>1
  <2>3. "return" \in ctxs[i].flags <=> "return" \in ctxs[i - 1].flags
    BY <2>2 DEF IndInv, ReturnInv
  <2> QED BY <1>2, <1>4, <2>1, <2>2, <2>3
<1> QED BY <1>5, <1>6, <1>7 DEF ReturnInv

-----------------------------------------------------------------------------
(* Steps preserve CoverInv.                                                *)

\* Covered, for contexts c and a stack s.
CoveredIn(c, s, i, j) ==
    ContextOf(s[j]) \in Around(c, i) \/ \E k \in 1..j : s[k].at = "default"

LEMMA CoverInvParts ==
    /\ \A i, j : Covered(i, j) <=> CoveredIn(ctxs, stack, i, j)
    /\ CoverInv <=>
        /\ \A m \in 2..Len(stack) : \A j \in 1..(m - 1) :
            /\ CoveredIn(ctxs, stack, stack[m].in, j)
            /\ stack[m].op \in Calls /\ stack[m].own # 0 =>
                    CoveredIn(ctxs, stack, ctxs[stack[m].own].parent, j)
        /\ \A j \in 1..Len(stack) : CoveredIn(ctxs, stack, current, j)
    /\ CoverInv' <=>
        /\ \A m \in 2..Len(stack') : \A j \in 1..(m - 1) :
            /\ CoveredIn(ctxs', stack', stack'[m].in, j)
            /\ stack'[m].op \in Calls /\ stack'[m].own # 0 =>
                    CoveredIn(ctxs', stack', ctxs'[stack'[m].own].parent, j)
        /\ \A j \in 1..Len(stack') : CoveredIn(ctxs', stack', current', j)
<1>1. /\ \A i, j : Covered(i, j) <=> CoveredIn(ctxs, stack, i, j)
      /\ \A i, j : Covered(i, j)' <=> CoveredIn(ctxs', stack', i, j)
  BY AncestorsAround DEF Covered, CoveredIn, Preparing, ContextOf
<1> QED BY <1>1 DEF CoverInv, Parent

\* What is covered stays so: around a context nothing changes, nor in the frames
\* up to the one in question.
LEMMA CoverSame ==
    ASSUME NEW c, NEW d, NEW s, NEW t, NEW i \in Nat, NEW j \in Nat,
           \A m \in 1..i : c[m].parent = d[m].parent,
           \A k \in 1..j : /\ s[k].in = t[k].in
                           /\ s[k].own = t[k].own /\ s[k].at = t[k].at,
           j # 0, CoveredIn(c, s, i, j)
    PROVE  CoveredIn(d, t, i, j)
<1>1. Around(c, i) = Around(d, i)
  BY AroundSame
<1>2. j \in 1..j
  OBVIOUS
<1>3. ContextOf(s[j]) = ContextOf(t[j])
  BY <1>2 DEF ContextOf
<1> QED BY <1>1, <1>3 DEF CoveredIn

LEMMA NextNested ==
    ASSUME ctxs' \in Seq(CtxSet), CtxInv'
    PROVE  Nested(ctxs')
<1>1. Len(ctxs') \in Nat
  OBVIOUS
<1>2. ASSUME NEW m \in 1..Len(ctxs') PROVE ctxs'[m].parent \in 0..(m - 1)
  <2>1. CASE m = 1
    BY <2>1 DEF CtxInv, Parent
  <2>2. CASE m # 1
    <3>1. m \in 2..Len(ctxs')
      BY <1>1, <2>2
    <3> QED BY <3>1 DEF CtxInv, Parent
  <2> QED BY <2>1, <2>2
<1> QED BY <1>2 DEF Nested

\* The frames up to h, of contexts up to p, are the same before and after a step.
Unmoved(h, p) ==
    /\ \A i \in 1..p : ctxs'[i].parent = ctxs[i].parent
    /\ \A m \in 1..h : /\ stack'[m].op = stack[m].op /\ stack'[m].in = stack[m].in
                       /\ stack'[m].own = stack[m].own
                       /\ stack[m].in <= p /\ stack[m].own <= p
    /\ \A k \in 1..(h - 1) : stack'[k].at = stack[k].at

\* Their phases too.
LEMMA CoverKept ==
    ASSUME IndInv, NEW h \in 1..Len(stack), NEW p \in 1..Len(ctxs), Unmoved(h, p),
           NEW i \in 0..p, NEW j \in 1..h, j < h \/ stack'[h].at = stack[h].at,
           Covered(i, j)
    PROVE  CoveredIn(ctxs', stack', i, j)
<1>1. Len(stack) \in Nat /\ Len(ctxs) \in Nat
  BY Elements DEF IndInv
<1>2. CoveredIn(ctxs, stack, i, j)
  BY CoverInvParts
<1>3. \A m \in 1..i : ctxs[m].parent = ctxs'[m].parent
  BY <1>1 DEF Unmoved
<1>4. ASSUME NEW k \in 1..j
      PROVE  /\ stack[k].in = stack'[k].in
             /\ stack[k].own = stack'[k].own /\ stack[k].at = stack'[k].at
  <2>1. k \in 1..h /\ (k \in 1..(h - 1) \/ (k = h /\ j = h))
    BY <1>1
  <2>2. stack[k].at = stack'[k].at
    BY <1>1, <2>1 DEF Unmoved
  <2> QED BY <2>1, <2>2 DEF Unmoved
<1>5. i \in Nat /\ j \in Nat /\ j # 0
  BY <1>1
<1> QED BY <1>2, <1>3, <1>4, <1>5, CoverSame

LEMMA CoverFrames ==
    ASSUME IndInv, NEW h \in 1..Len(stack), NEW p \in 1..Len(ctxs), Unmoved(h, p),
           NEW m \in 2..h, NEW j \in 1..(m - 1)
    PROVE  /\ CoveredIn(ctxs', stack', stack'[m].in, j)
           /\ stack'[m].op \in Calls /\ stack'[m].own # 0 =>
                    CoveredIn(ctxs', stack', ctxs'[stack'[m].own].parent, j)
<1>1. /\ Len(stack) \in Nat /\ Len(ctxs) \in Nat /\ m \in 2..Len(stack) /\ m \in 1..h
      /\ j \in 1..h /\ j < h /\ m \in 1..Len(stack)
  BY Elements DEF IndInv
<1>2. /\ stack'[m].op = stack[m].op /\ stack'[m].in = stack[m].in
      /\ stack'[m].own = stack[m].own
      /\ stack[m].in \in 0..p /\ stack[m].own \in 0..p
  BY <1>1 DEF Unmoved, IndInv, OwnInv
<1>3. CoveredIn(ctxs', stack', stack'[m].in, j)
  <2>1. Covered(stack[m].in, j)
    BY <1>1 DEF IndInv, CoverInv
  <2> QED BY <1>1, <1>2, <2>1, CoverKept
<1>4. ASSUME stack[m].op \in Calls, stack[m].own # 0
      PROVE  CoveredIn(ctxs', stack', ctxs'[stack'[m].own].parent, j)
  <2>1. Covered(Parent(stack[m].own), j)
    BY <1>1, <1>4 DEF IndInv, CoverInv
  <2>2. stack[m].own \in 1..Len(ctxs)
    BY <1>1, <1>2, <1>4
  <2>3. Parent(stack[m].own) \in 0..(stack[m].own - 1)
    BY <2>2, CtxNested DEF IndInv, Nested, Parent
  <2>4. Parent(stack[m].own) \in 0..p
    BY <1>1, <1>2, <2>3
  <2>5. Covered(Parent(stack[m].own), j) => CoveredIn(ctxs', stack', Parent(stack[m].own), j)
    BY <1>1, <2>4, CoverKept
  <2>6. ctxs'[stack'[m].own].parent = Parent(stack[m].own)
    <3>1. stack[m].own \in 1..p
      BY <1>1, <1>2, <1>4
    <3> QED BY <1>2, <3>1 DEF Unmoved, Parent
  <2> QED BY <2>1, <2>5, <2>6
<1> QED BY <1>2, <1>3, <1>4

LEMMA AllUnmoved ==
    ASSUME IndInv, NEW h \in 1..Len(stack),
           \A i \in 1..Len(ctxs) : ctxs'[i].parent = ctxs[i].parent,
           \A m \in 1..h : /\ stack'[m].op = stack[m].op /\ stack'[m].in = stack[m].in
                           /\ stack'[m].own = stack[m].own,
           \A k \in 1..(h - 1) : stack'[k].at = stack[k].at
    PROVE  Unmoved(h, Len(ctxs))
<1>1. \A m \in 1..h : m \in 1..Len(stack)
  BY Elements DEF IndInv
<1>2. \A m \in 1..h : stack[m].in \in 1..Len(ctxs) /\ stack[m].own \in 0..Len(ctxs)
  BY <1>1 DEF IndInv, OwnInv
<1>3. \A m \in 1..h : stack[m].in <= Len(ctxs) /\ stack[m].own <= Len(ctxs)
  BY <1>2, Elements DEF IndInv
<1> QED BY <1>3 DEF Unmoved

\* An instruction begins in the context of the one around it.
LEMMA CoverPush ==
    ASSUME IndInv, ctxs' = ctxs, current' = current,
           NEW f \in FrameSet, Pushed(f), f.own = 0, f.in = Here, ContextOf(f) = Here
    PROVE  CoverInv'
<1> DEFINE T == Len(stack)
           N == Len(ctxs)
<1>1. /\ T \in Nat /\ T \in 1..T /\ N \in 1..N /\ Len(stack') = T + 1
      /\ stack'[T + 1] = f /\ \A k \in 1..T : stack'[k] = stack[k]
      /\ Here \in 0..N /\ current \in 0..N /\ Top = stack[T]
  BY TopFrame, Elements DEF IndInv, Pushed
<1>2. Unmoved(T, N)
  <2>1. \A k \in 1..(T - 1) : k \in 1..T
    BY <1>1
  <2> QED BY <1>1, <2>1, AllUnmoved
<1>3. ASSUME NEW i \in 0..N, NEW j \in 1..T, Covered(i, j)
      PROVE  CoveredIn(ctxs', stack', i, j)
  BY <1>1, <1>2, <1>3, CoverKept
<1>4. ASSUME NEW m \in 2..(T + 1), NEW j \in 1..(m - 1)
      PROVE  /\ CoveredIn(ctxs', stack', stack'[m].in, j)
             /\ stack'[m].op \in Calls /\ stack'[m].own # 0 =>
                    CoveredIn(ctxs', stack', ctxs'[stack'[m].own].parent, j)
  <2>1. CASE m \in 2..T
    BY <1>1, <1>2, <2>1, CoverFrames
  <2>2. CASE m = T + 1
    <3>1. j \in 1..T
      BY <1>1, <2>2
    <3>2. CoveredIn(ctxs', stack', Here, j)
      BY <1>1, <1>3, <3>1, CoverHere
    <3> QED BY <1>1, <2>2, <3>2
  <2> QED BY <1>1, <2>1, <2>2
<1>5. ASSUME NEW j \in 1..(T + 1) PROVE CoveredIn(ctxs', stack', current', j)
  <2>1. \A k \in 1..T : Covered(current, k)
    BY DEF IndInv, CoverInv
  <2>2. CASE j \in 1..T
    BY <1>1, <1>3, <2>1, <2>2
  <2>3. CASE j = T + 1
    <3>1. CoveredIn(ctxs', stack', current, T)
      BY <1>1, <1>3, <2>1
    <3>2. stack'[T] = Top /\ stack'[T + 1] = f /\ \A k \in 1..T : k \in 1..(T + 1)
      BY <1>1
    <3>3. ContextOf(stack'[T + 1]) = ContextOf(stack'[T])
      BY <3>2 DEF Here
    <3> QED BY <2>3, <3>1, <3>2, <3>3 DEF CoveredIn
  <2> QED BY <1>1, <2>2, <2>3
<1> QED BY <1>1, <1>4, <1>5, CoverInvParts

\* A loop or a switch begins, in a context of its own.
LEMMA CoverPushContext ==
    ASSUME IndInv, CtxInv', NEW type \in Type, Created(NewContext(type, Here)),
           current' = Len(ctxs) + 1,
           NEW f \in FrameSet, Pushed(f), f.op \in Local, f.in = Here,
           ContextOf(f) = Len(ctxs) + 1
    PROVE  CoverInv'
<1> DEFINE T == Len(stack)
           N == Len(ctxs)
<1>1. /\ T \in Nat /\ T \in 1..T /\ N \in 1..N /\ N \in Nat /\ Len(stack') = T + 1
      /\ stack'[T + 1] = f /\ \A k \in 1..T : stack'[k] = stack[k]
      /\ Here \in 1..N /\ Here \in 0..N /\ Top = stack[T]
      /\ Len(ctxs') = N + 1 /\ \A i \in 1..N : ctxs'[i] = ctxs[i]
      /\ ctxs'[N + 1].parent = Here
  BY TopFrame, Elements DEF IndInv, Pushed, Created, NewContext
<1>2. Unmoved(T, N)
  <2>1. \A k \in 1..(T - 1) : k \in 1..T
    BY <1>1
  <2> QED BY <1>1, <2>1, AllUnmoved
<1>3. ASSUME NEW j \in 1..T PROVE CoveredIn(ctxs', stack', Here, j)
  BY <1>1, <1>2, <1>3, CoverKept, CoverHere
<1>4. ASSUME NEW m \in 2..(T + 1), NEW j \in 1..(m - 1)
      PROVE  /\ CoveredIn(ctxs', stack', stack'[m].in, j)
             /\ stack'[m].op \in Calls /\ stack'[m].own # 0 =>
                    CoveredIn(ctxs', stack', ctxs'[stack'[m].own].parent, j)
  <2>1. CASE m \in 2..T
    BY <1>1, <1>2, <2>1, CoverFrames
  <2>2. CASE m = T + 1
    <3>1. j \in 1..T
      BY <1>1, <2>2
    <3> QED BY <1>1, <1>3, <2>2, <3>1 DEF Local, Calls
  <2> QED BY <1>1, <2>1, <2>2
<1>5. Around(ctxs', Here) \subseteq Around(ctxs', N + 1) /\ N + 1 \in Around(ctxs', N + 1)
  <2>1. Nested(ctxs') /\ N + 1 \in 1..Len(ctxs') /\ Here # 0
    BY <1>1, NextNested DEF Created
  <2>2. Here \in Around(ctxs', N + 1) /\ N + 1 \in Around(ctxs', N + 1)
    BY <1>1, <2>1, AroundClosed
  <2> QED BY <2>1, <2>2, AroundIn
<1>6. ASSUME NEW j \in 1..(T + 1) PROVE CoveredIn(ctxs', stack', current', j)
  <2>1. CASE j \in 1..T
    BY <1>3, <1>5, <2>1 DEF CoveredIn
  <2>2. CASE j = T + 1
    BY <1>1, <1>5, <2>2 DEF CoveredIn
  <2> QED BY <1>1, <2>1, <2>2
<1> QED BY <1>1, <1>4, <1>6, CoverInvParts

\* The innermost instruction enters another phase.
LEMMA CoverReplace ==
    ASSUME IndInv, Reflagged, NEW f \in FrameSet, Replaced(f),
           f.op = Top.op, f.in = Top.in, f.own = Top.own,
           \/ /\ current' = current
              /\ ContextOf(f) = Here /\ (Top.at = "default" => f.at = "default")
           \/ /\ current' = current /\ Top.op # "File" /\ ContextOf(f) = Top.in
           \/ /\ current' = Top.own /\ Top.own # 0 /\ ContextOf(f) = Top.own
    PROVE  CoverInv'
<1> DEFINE T == Len(stack)
           N == Len(ctxs)
<1>1. /\ T \in Nat /\ T \in 1..T /\ N \in 1..N /\ N \in Nat /\ Len(stack') = T
      /\ stack'[T] = f /\ \A k \in 1..(T - 1) : stack'[k] = stack[k]
      /\ Here \in 0..N /\ current \in 0..N /\ Top = stack[T]
      /\ \A i \in 1..N : ctxs'[i].parent = ctxs[i].parent
  BY TopFrame, Elements DEF IndInv, Replaced, Reflagged
<1>2. Unmoved(T, N)
  <2>1. ASSUME NEW k \in 1..T
        PROVE  /\ stack'[k].op = stack[k].op /\ stack'[k].in = stack[k].in
               /\ stack'[k].own = stack[k].own
    <3>1. k \in 1..(T - 1) \/ k = T
      BY <1>1
    <3> QED BY <1>1, <3>1
  <2> QED BY <1>1, <2>1, AllUnmoved
<1>3. ASSUME NEW i \in 0..N, NEW j \in 1..(T - 1), Covered(i, j)
      PROVE  CoveredIn(ctxs', stack', i, j)
  <2>1. j \in 1..T /\ j < T
    BY <1>1
  <2> QED BY <1>1, <1>2, <1>3, <2>1, CoverKept
<1>4. ASSUME NEW m \in 2..T, NEW j \in 1..(m - 1)
      PROVE  /\ CoveredIn(ctxs', stack', stack'[m].in, j)
             /\ stack'[m].op \in Calls /\ stack'[m].own # 0 =>
                    CoveredIn(ctxs', stack', ctxs'[stack'[m].own].parent, j)
  BY <1>1, <1>2, <1>4, CoverFrames
<1>a. \A k \in 1..T : Covered(current, k)
  BY DEF IndInv, CoverInv
<1>5. ASSUME NEW j \in 1..T PROVE CoveredIn(ctxs', stack', current', j)
  <2>0. j \in 1..(T - 1) \/ j = T
    BY <1>1
  <2>1. CASE /\ current' = current
             /\ ContextOf(f) = Here /\ (Top.at = "default" => f.at = "default")
    <3>1. CASE j \in 1..(T - 1)
      <4>1. j \in 1..T
        BY <1>1
      <4> QED BY <1>1, <1>3, <1>a, <2>1, <3>1, <4>1
    <3>2. CASE j = T
      <4>1. Around(ctxs', current) = Around(ctxs, current)
        <5>1. current \in Nat /\ \A i \in 1..current : ctxs'[i].parent = ctxs[i].parent
          BY <1>1
        <5> QED BY <5>1, AroundSame
      <4>2. CoveredIn(ctxs, stack, current, T)
        BY <1>1, <1>a, CoverInvParts
      <4>3. \A k \in 1..T : stack[k].at = "default" => stack'[k].at = "default"
        <5>1. \A k \in 1..T : k \in 1..(T - 1) \/ k = T
          BY <1>1
        <5> QED BY <1>1, <2>1, <5>1
      <4>4. ContextOf(stack'[T]) = ContextOf(stack[T])
        BY <1>1, <2>1 DEF Here
      <4> QED BY <2>1, <3>2, <4>1, <4>2, <4>3, <4>4 DEF CoveredIn
    <3> QED BY <2>0, <3>1, <3>2
  <2>2. CASE current' = current /\ Top.op # "File" /\ ContextOf(f) = Top.in
    <3>1. T > 1 /\ Top.in = ContextOf(stack[T - 1])
      BY <2>2, TopFrame
    <3>2. CASE j \in 1..(T - 1)
      <4>1. j \in 1..T
        BY <1>1
      <4> QED BY <1>1, <1>3, <1>a, <2>2, <3>2, <4>1
    <3>3. CASE j = T
      <4>1. T - 1 \in 1..(T - 1) /\ T - 1 \in 1..T /\ \A k \in 1..(T - 1) : k \in 1..T
        BY <1>1, <3>1
      <4>2. CoveredIn(ctxs', stack', current, T - 1)
        BY <1>1, <1>3, <1>a, <4>1
      <4>3. ContextOf(stack'[T]) = ContextOf(stack'[T - 1])
        BY <1>1, <2>2, <3>1, <4>1
      <4> QED BY <2>2, <3>3, <4>1, <4>2, <4>3 DEF CoveredIn
    <3> QED BY <2>0, <3>2, <3>3
  <2>3. CASE current' = Top.own /\ Top.own # 0 /\ ContextOf(f) = Top.own
    <3>1. CASE j \in 1..(T - 1)
      <4>1. Covered(Top.own, j)
        BY <2>3, <3>1, CoverOwn
      <4>2. Top.own \in 0..N
        BY <1>1, <2>3, TopFrame
      <4> QED BY <1>3, <2>3, <3>1, <4>1, <4>2
    <3>2. CASE j = T
      <4>1. Top.own \in 1..N
        BY <1>1, <2>3, TopFrame
      <4>2. Top.own \in Around(ctxs', Top.own)
        BY <4>1 DEF Around
      <4> QED BY <1>1, <2>3, <3>2, <4>2 DEF CoveredIn
    <3> QED BY <2>0, <3>1, <3>2
  <2> QED BY <2>1, <2>2, <2>3
<1> QED BY <1>1, <1>4, <1>5, CoverInvParts

\* An instruction that has no context ends.
LEMMA CoverPop ==
    ASSUME IndInv, Reflagged, Popped, Top.op # "File", current' = current
    PROVE  CoverInv'
<1> DEFINE T == Len(stack)
           N == Len(ctxs)
<1>1. /\ T \in Nat /\ T > 1 /\ N \in 1..N /\ N \in Nat /\ Len(stack') = T - 1
      /\ \A k \in 1..(T - 1) : /\ stack'[k].op = stack[k].op /\ stack'[k].in = stack[k].in
                               /\ stack'[k].own = stack[k].own /\ stack'[k].at = stack[k].at
      /\ current \in 0..N /\ T - 1 \in 1..T /\ T - 1 \in 1..(T - 1)
      /\ \A i \in 1..N : ctxs'[i].parent = ctxs[i].parent
  BY TopFrame, Elements DEF IndInv, Popped, Reflagged
<1>2. Unmoved(T - 1, N)
  <2>1. \A k \in 1..((T - 1) - 1) : k \in 1..(T - 1)
    BY <1>1
  <2> QED BY <1>1, <2>1, AllUnmoved
<1>3. ASSUME NEW m \in 2..(T - 1), NEW j \in 1..(m - 1)
      PROVE  /\ CoveredIn(ctxs', stack', stack'[m].in, j)
             /\ stack'[m].op \in Calls /\ stack'[m].own # 0 =>
                    CoveredIn(ctxs', stack', ctxs'[stack'[m].own].parent, j)
  BY <1>1, <1>2, <1>3, CoverFrames
<1>4. ASSUME NEW j \in 1..(T - 1) PROVE CoveredIn(ctxs', stack', current', j)
  <2>1. j \in 1..T
    BY <1>1
  <2>2. Covered(current, j)
    BY <2>1 DEF IndInv, CoverInv
  <2> QED BY <1>1, <1>2, <2>2, CoverKept
<1> QED BY <1>1, <1>3, <1>4, CoverInvParts

\* A loop, a switch or a call ends, and its context with it.
LEMMA CoverPopContext ==
    ASSUME IndInv, Destroyed, Popped, Top.at \in {"head", "body"}, Top.op # "File",
           \/ current' = Top.in
           \/ Top.op \in Calls /\ current' = Parent(Top.own)
    PROVE  CoverInv'
<1> DEFINE T == Len(stack)
           N == Len(ctxs)
<1>1. /\ T \in Nat /\ T > 1 /\ N \in 1..N /\ N \in Nat /\ Len(stack') = T - 1
      /\ \A k \in 1..(T - 1) : /\ stack'[k].op = stack[k].op /\ stack'[k].in = stack[k].in
                               /\ stack'[k].own = stack[k].own /\ stack'[k].at = stack[k].at
      /\ T - 1 \in 1..T /\ T - 1 \in 1..(T - 1) /\ Top = stack[T] /\ T \in 2..T /\ T \in 1..T
      /\ \A i \in 1..(N - 1) : ctxs'[i].parent = ctxs[i].parent
  BY TopFrame, Elements DEF IndInv, Popped, Destroyed
<1>2. /\ Top.own = N
      /\ \A j \in 1..(T - 1) : stack[j].own < N
      /\ \A j \in 1..T : stack[j].in < N /\ stack[j].in \in 1..N /\ stack[j].own \in 0..N
  BY OwnsBody DEF IndInv, OwnInv
<1>3. N - 1 \in 1..N /\ Top.in \in 0..(N - 1)
  BY <1>1, <1>2
<1>4. Parent(Top.own) \in 0..(N - 1)
  BY <1>1, <1>2, CtxNested DEF IndInv, Nested, Parent
<1>5. Unmoved(T - 1, N - 1)
  <2>1. \A k \in 1..(T - 1) : /\ k \in 1..T
                              /\ stack[k].in <= N - 1 /\ stack[k].own <= N - 1
    BY <1>1, <1>2
  <2>2. \A k \in 1..((T - 1) - 1) : k \in 1..(T - 1)
    BY <1>1
  <2> QED BY <1>1, <2>1, <2>2 DEF Unmoved
<1>6. ASSUME NEW m \in 2..(T - 1), NEW j \in 1..(m - 1)
      PROVE  /\ CoveredIn(ctxs', stack', stack'[m].in, j)
             /\ stack'[m].op \in Calls /\ stack'[m].own # 0 =>
                    CoveredIn(ctxs', stack', ctxs'[stack'[m].own].parent, j)
  BY <1>1, <1>3, <1>5, <1>6, CoverFrames
<1>7. ASSUME NEW j \in 1..(T - 1) PROVE CoveredIn(ctxs', stack', current', j)
  <2>1. ASSUME NEW i \in 0..(N - 1), Covered(i, j) PROVE CoveredIn(ctxs', stack', i, j)
    BY <1>1, <1>3, <1>5, <2>1, CoverKept
  <2>2. CASE current' = Top.in
    <3>1. Covered(Top.in, j)
      BY <1>1 DEF IndInv, CoverInv
    <3> QED BY <1>3, <2>1, <2>2, <3>1
  <2>3. CASE Top.op \in Calls /\ current' = Parent(Top.own)
    <3>1. Top.own # 0
      BY <1>1, <1>2
    <3>2. Covered(Parent(Top.own), j)
      BY <1>1, <2>3, <3>1 DEF IndInv, CoverInv
    <3> QED BY <1>4, <2>1, <2>3, <3>2
  <2> QED BY <2>2, <2>3
<1> QED BY <1>1, <1>6, <1>7, CoverInvParts

\* The context of a call is created, in that of the caller or the current one.
LEMMA CoverCall ==
    ASSUME IndInv, NEW p \in {current, Top.in}, Created(NewContext("Function", p)),
           NEW f \in FrameSet, Replaced(f), f.op = Top.op, f.in = Top.in,
           f.own = Len(ctxs) + 1, f.at = "default", Top.op # "File", current' = current
    PROVE  CoverInv'
<1> DEFINE T == Len(stack)
           N == Len(ctxs)
<1>1. /\ T \in Nat /\ T > 1 /\ T \in 1..T /\ N \in 1..N /\ N \in Nat /\ Len(stack') = T
      /\ stack'[T] = f /\ \A k \in 1..(T - 1) : stack'[k] = stack[k]
      /\ current \in 0..N /\ Top = stack[T] /\ T - 1 \in 1..T /\ T - 1 \in 1..(T - 1)
      /\ \A i \in 1..N : ctxs'[i].parent = ctxs[i].parent
      /\ ctxs'[N + 1].parent = p /\ T \in 2..T
  BY TopFrame, Elements DEF IndInv, Replaced, Created, NewContext
<1>2. Unmoved(T - 1, N)
  <2>1. \A k \in 1..((T - 1) - 1) : k \in 1..(T - 1)
    BY <1>1
  <2> QED BY <1>1, <2>1, AllUnmoved
<1>3. ASSUME NEW i \in 0..N, NEW j \in 1..(T - 1), Covered(i, j)
      PROVE  CoveredIn(ctxs', stack', i, j)
  BY <1>1, <1>2, <1>3, CoverKept
<1>4. Top.in \in 0..N
  BY <1>1 DEF IndInv, OwnInv
<1>5. ASSUME NEW j \in 1..(T - 1)
      PROVE  /\ CoveredIn(ctxs', stack', Top.in, j) /\ CoveredIn(ctxs', stack', current, j)
             /\ CoveredIn(ctxs', stack', p, j)
  <2>1. j \in 1..T
    BY <1>1
  <2>2. Covered(Top.in, j) /\ Covered(current, j)
    BY <1>1, <2>1 DEF IndInv, CoverInv
  <2>3. CoveredIn(ctxs', stack', Top.in, j) /\ CoveredIn(ctxs', stack', current, j)
    BY <1>1, <1>3, <1>4, <2>2
  <2> QED BY <2>3
<1>6. ASSUME NEW m \in 2..T, NEW j \in 1..(m - 1)
      PROVE  /\ CoveredIn(ctxs', stack', stack'[m].in, j)
             /\ stack'[m].op \in Calls /\ stack'[m].own # 0 =>
                    CoveredIn(ctxs', stack', ctxs'[stack'[m].own].parent, j)
  <2>1. CASE m \in 2..(T - 1)
    BY <1>1, <1>2, <2>1, CoverFrames
  <2>2. CASE m = T
    BY <1>1, <1>5, <2>2
  <2> QED BY <1>1, <2>1, <2>2
<1>7. ASSUME NEW j \in 1..T PROVE CoveredIn(ctxs', stack', current', j)
  <2>1. CASE j \in 1..(T - 1)
    BY <1>5, <2>1
  <2>2. CASE j = T
    <3>1. T \in 1..j /\ stack'[T].at = "default"
      BY <1>1, <2>2
    <3> QED BY <3>1 DEF CoveredIn
  <2> QED BY <1>1, <2>1, <2>2
<1> QED BY <1>1, <1>6, <1>7, CoverInvParts

-----------------------------------------------------------------------------
(* Steps preserve ExitInv.                                                 *)

\* The parts of ExitInv, for contexts c and a stack s.
ExitedIn(c, i) == "exit" \in c[i].flags

RunsOpenIn(s, k) == s[k].open /\ s[k].at \in {"default", "body"}

ExitUp(c) == \A i \in 2..Len(c) : ExitedIn(c, i) => ExitedIn(c, c[i].parent)

ExitFrame(c, s, j) ==
    /\ s[j].open => s[j].op \in Calls
    /\ ExitedIn(c, 1) => ExitedIn(c, ContextOf(s[j])) \/ \E k \in 1..j : RunsOpenIn(s, k)
    /\ s[j].op \in Calls /\ s[j].at # "body" /\ ExitedIn(c, s[j].in) => s[j].open
    /\ s[j].open => ExitedIn(c, s[j].in) \/ \E k \in 1..(j - 1) : RunsOpenIn(s, k)

LEMMA ExitInvParts ==
    /\ ExitInv <=> /\ ~stray /\ ExitUp(ctxs)
                   /\ \A j \in 1..Len(stack) : ExitFrame(ctxs, stack, j)
    /\ ExitInv' <=> /\ ~stray' /\ ExitUp(ctxs')
                    /\ \A j \in 1..Len(stack') : ExitFrame(ctxs', stack', j)
BY DEF ExitInv, ExitUp, ExitFrame, ExitedIn, RunsOpenIn, Exited, RunsOpen, Parent

\* No exit() takes place in a step.
ExitsKept(p) == \A i \in 1..p : ExitedIn(ctxs', i) <=> ExitedIn(ctxs, i)

LEMMA ContextsOfFrame ==
    ASSUME IndInv, NEW j \in 1..Len(stack)
    PROVE  /\ ContextOf(stack[j]) \in 1..Len(ctxs) /\ stack[j].in \in 1..Len(ctxs)
           /\ ContextOf(stack[j]) \in {stack[j].in, stack[j].own}
<1>1. stack[j] \in FrameSet /\ Shape(stack[j])
  BY Elements DEF IndInv, StackInv
<1>2. stack[j].own \in 0..Len(ctxs) /\ stack[j].in \in 1..Len(ctxs)
  BY DEF IndInv, OwnInv
<1>3. stack[j].at \in {"head", "body", "default"} => stack[j].own # 0
  BY <1>1 DEF Shape, FrameSet, Local, Calls
<1>4. ContextOf(stack[j]) \in {stack[j].in, stack[j].own}
  BY DEF ContextOf
<1>5. ContextOf(stack[j]) \in 1..Len(ctxs)
  BY <1>2, <1>3 DEF ContextOf
<1> QED BY <1>2, <1>4, <1>5

\* Frames up to h that execute in contexts up to p keep what the invariant says.
LEMMA ExitKept ==
    ASSUME IndInv, NEW p \in 1..Len(ctxs), ExitsKept(p), NEW j \in 1..Len(stack),
           \A k \in 1..j : stack'[k] = stack[k],
           stack[j].in <= p, stack[j].own <= p
    PROVE  ExitFrame(ctxs', stack', j)
<1>1. Len(stack) \in Nat /\ Len(ctxs) \in Nat
  BY Elements DEF IndInv
<1>2. ExitFrame(ctxs, stack, j)
  BY ExitInvParts DEF IndInv
<1>3. 1 \in 1..p /\ stack[j].in \in 1..p /\ ContextOf(stack[j]) \in 1..p
  BY <1>1, ContextsOfFrame
<1>4. /\ ExitedIn(ctxs', 1) <=> ExitedIn(ctxs, 1)
      /\ ExitedIn(ctxs', stack[j].in) <=> ExitedIn(ctxs, stack[j].in)
      /\ ExitedIn(ctxs', ContextOf(stack[j])) <=> ExitedIn(ctxs, ContextOf(stack[j]))
  BY <1>3 DEF ExitsKept
<1>5. /\ j \in 1..j /\ stack'[j] = stack[j]
      /\ \A k \in 1..j : RunsOpenIn(stack', k) <=> RunsOpenIn(stack, k)
      /\ \A k \in 1..(j - 1) : k \in 1..j
  BY <1>1 DEF RunsOpenIn
<1> HIDE DEF ExitsKept
<1> QED BY <1>2, <1>4, <1>5 DEF ExitFrame

LEMMA ExitUpCreated ==
    ASSUME IndInv, NEW type, NEW q, Created(NewContext(type, q))
    PROVE  ExitUp(ctxs') /\ ExitsKept(Len(ctxs))
<1>1. Len(ctxs) \in Nat
  BY Elements DEF IndInv
<1>2. ASSUME NEW i \in 2..(Len(ctxs) + 1), ExitedIn(ctxs', i)
      PROVE  ExitedIn(ctxs', ctxs'[i].parent)
  <2>1. CASE i \in 2..Len(ctxs)
    <3>1. ctxs'[i] = ctxs[i] /\ ctxs[i].parent \in 1..(i - 1)
      BY <1>1, <2>1 DEF Created, IndInv, CtxInv, Parent
    <3>2. ctxs[i].parent \in 1..Len(ctxs)
      BY <1>1, <2>1, <3>1
    <3>3. ctxs'[ctxs[i].parent] = ctxs[ctxs[i].parent]
      BY <3>2 DEF Created
    <3>4. ExitUp(ctxs)
      BY ExitInvParts DEF IndInv
    <3> QED BY <1>2, <2>1, <3>1, <3>3, <3>4 DEF ExitUp, ExitedIn
  <2>2. CASE i = Len(ctxs) + 1
    BY <1>2, <2>2 DEF Created, NewContext, ExitedIn
  <2> QED BY <1>1, <2>1, <2>2
<1> QED BY <1>2 DEF ExitUp, ExitsKept, ExitedIn, Created

LEMMA ExitUpDestroyed ==
    ASSUME IndInv, Destroyed
    PROVE  ExitUp(ctxs') /\ ExitsKept(Len(ctxs) - 1)
<1>1. Len(ctxs) \in Nat
  BY Elements DEF IndInv
<1>2. ASSUME NEW i \in 2..(Len(ctxs) - 1), ExitedIn(ctxs', i)
      PROVE  ExitedIn(ctxs', ctxs'[i].parent)
  <2>1. i \in 2..Len(ctxs) /\ i \in 1..(Len(ctxs) - 1)
    BY <1>1
  <2>2. ctxs'[i] = ctxs[i] /\ ctxs[i].parent \in 1..(i - 1)
    BY <2>1 DEF Destroyed, IndInv, CtxInv, Parent
  <2>3. ctxs[i].parent \in 1..(Len(ctxs) - 1)
    BY <1>1, <2>1, <2>2
  <2>4. ctxs'[ctxs[i].parent] = ctxs[ctxs[i].parent]
    BY <2>3 DEF Destroyed
  <2>5. ExitUp(ctxs)
    BY ExitInvParts DEF IndInv
  <2> QED BY <1>2, <2>1, <2>2, <2>4, <2>5 DEF ExitUp, ExitedIn
<1> QED BY <1>2 DEF ExitUp, ExitsKept, ExitedIn, Destroyed

LEMMA ExitUpReflagged ==
    ASSUME IndInv, Reflagged, ExitsKept(Len(ctxs))
    PROVE  ExitUp(ctxs')
<1>1. Len(ctxs) \in Nat
  BY Elements DEF IndInv
<1>2. ASSUME NEW i \in 2..Len(ctxs), ExitedIn(ctxs', i)
      PROVE  ExitedIn(ctxs', ctxs'[i].parent)
  <2>1. i \in 1..Len(ctxs) /\ ctxs[i].parent \in 1..(i - 1)
    BY <1>1 DEF IndInv, CtxInv, Parent
  <2>2. ctxs[i].parent \in 1..Len(ctxs) /\ ctxs'[i].parent = ctxs[i].parent
    BY <1>1, <2>1 DEF Reflagged
  <2>3. ExitUp(ctxs)
    BY ExitInvParts DEF IndInv
  <2> QED BY <1>2, <2>1, <2>2, <2>3 DEF ExitUp, ExitsKept
<1> QED BY <1>2 DEF ExitUp, Reflagged

\* Instructions begin only in contexts that were not left.
LEMMA ExitPush ==
    ASSUME IndInv, ~Interrupted(Here), stray' = stray,
           ExitUp(ctxs') /\ ExitsKept(Len(ctxs)),
           NEW f \in FrameSet, Pushed(f), f.in = Here, f.open = FALSE
    PROVE  ExitInv'
<1> DEFINE T == Len(stack)
           N == Len(ctxs)
<1>1. /\ T \in Nat /\ T \in 1..T /\ N \in 1..N /\ Len(stack') = T + 1 /\ 1 \in 1..N
      /\ stack'[T + 1] = f /\ \A k \in 1..T : stack'[k] = stack[k]
      /\ Here \in 1..N /\ Top = stack[T]
  BY TopFrame, Elements DEF IndInv, Pushed
<1>2. ASSUME NEW j \in 1..T PROVE ExitFrame(ctxs', stack', j)
  <2>1. \A k \in 1..j : k \in 1..T
    BY <1>1
  <2>2. stack[j].in <= N /\ stack[j].own <= N
    <3>1. stack[j].in \in 1..N /\ stack[j].own \in 0..N
      BY DEF IndInv, OwnInv
    <3> QED BY <1>1, <3>1
  <2> QED BY <1>1, <2>1, <2>2, ExitKept
<1>3. ExitFrame(ctxs', stack', T + 1)
  <2>1. ~ExitedIn(ctxs, Here) /\ ~ExitedIn(ctxs', Here)
    BY <1>1 DEF Interrupted, ExitedIn, ExitsKept
  <2>2. ExitFrame(ctxs, stack, T) /\ ContextOf(stack[T]) = Here
    BY <1>1, ExitInvParts DEF IndInv, Here
  <2>3. ExitedIn(ctxs', 1) => \E k \in 1..T : RunsOpenIn(stack, k)
    BY <1>1, <2>1, <2>2 DEF ExitFrame, ExitsKept
  <2>4. \A k \in 1..T : k \in 1..(T + 1) /\ (RunsOpenIn(stack, k) <=> RunsOpenIn(stack', k))
    BY <1>1 DEF RunsOpenIn
  <2> QED BY <1>1, <2>1, <2>3, <2>4 DEF ExitFrame
<1>4. \A j \in 1..(T + 1) : j \in 1..T \/ j = T + 1
  BY <1>1
<1>5. ~stray'
  BY DEF IndInv, ExitInv
<1> QED BY <1>1, <1>2, <1>3, <1>4, <1>5, ExitInvParts

\* The innermost instruction ends, or is replaced by f, of which the invariant holds.
LEMMA ExitPop ==
    ASSUME IndInv, stray' = FALSE, NEW p \in 1..Len(ctxs), ExitUp(ctxs') /\ ExitsKept(p),
           Len(stack') = Len(stack) - 1 \/
               (Len(stack') = Len(stack) /\ ExitFrame(ctxs', stack', Len(stack))),
           \A k \in 1..(Len(stack) - 1) :
                stack'[k] = stack[k] /\ stack[k].in <= p /\ stack[k].own <= p
    PROVE  ExitInv'
<1> DEFINE T == Len(stack)
<1>1. T \in Nat /\ T \in 1..T
  BY TopFrame, Elements DEF IndInv
<1>2. ASSUME NEW j \in 1..(T - 1) PROVE ExitFrame(ctxs', stack', j)
  <2>1. j \in 1..T /\ \A k \in 1..j : k \in 1..(T - 1)
    BY <1>1
  <2> QED BY <2>1, ExitKept
<1>3. \A j \in 1..T : j \in 1..(T - 1) \/ j = T
  BY <1>1
<1> QED BY <1>2, <1>3, ExitInvParts

\* A call enters another phase: it was noted if it is in a context that was left.
LEMMA ExitCallPhase ==
    ASSUME IndInv, ExitsKept(Len(ctxs)), NEW f \in FrameSet, Replaced(f),
           Top.op \in Calls, f.op = Top.op, f.in = Top.in, f.open = Top.open,
           Top.at # "body", f.at \in {"default", "actual", "body"}
    PROVE  ExitFrame(ctxs', stack', Len(stack))
<1> DEFINE T == Len(stack)
           N == Len(ctxs)
<1>1. /\ T \in Nat /\ T > 1 /\ T \in 1..T /\ T - 1 \in 1..T /\ 1 \in 1..N
      /\ stack'[T] = f /\ \A k \in 1..(T - 1) : stack'[k] = stack[k]
      /\ Top = stack[T] /\ Top.in = ContextOf(stack[T - 1])
  <2>1. Top.op # "File"
    BY DEF Calls
  <2> QED BY <2>1, TopFrame, Elements DEF IndInv, Replaced
<1>2. Top.in \in 1..N
  BY <1>1, ContextsOfFrame
<1>3. ExitFrame(ctxs, stack, T) /\ ExitFrame(ctxs, stack, T - 1)
  BY <1>1, ExitInvParts DEF IndInv
<1>4. /\ ExitedIn(ctxs', 1) <=> ExitedIn(ctxs, 1)
      /\ ExitedIn(ctxs', Top.in) <=> ExitedIn(ctxs, Top.in)
  BY <1>1, <1>2 DEF ExitsKept
<1>5. \A k \in 1..(T - 1) : k \in 1..T /\ (RunsOpenIn(stack', k) <=> RunsOpenIn(stack, k))
  BY <1>1 DEF RunsOpenIn
<1>6. ExitedIn(ctxs, Top.in) => Top.open
  BY <1>1, <1>3 DEF ExitFrame
<1>7. ExitedIn(ctxs', 1) =>
        ExitedIn(ctxs', ContextOf(f)) \/ \E k \in 1..T : RunsOpenIn(stack', k)
  <2> SUFFICES ASSUME ExitedIn(ctxs', 1)
               PROVE  ExitedIn(ctxs', ContextOf(f)) \/ \E k \in 1..T : RunsOpenIn(stack', k)
    OBVIOUS
  <2>1. ExitedIn(ctxs, Top.in) \/ \E k \in 1..(T - 1) : RunsOpenIn(stack, k)
    BY <1>1, <1>3, <1>4 DEF ExitFrame
  <2>2. CASE \E k \in 1..(T - 1) : RunsOpenIn(stack, k)
    BY <1>5, <2>2
  <2>3. CASE ExitedIn(ctxs, Top.in) /\ f.at = "actual"
    BY <1>4, <2>3 DEF ContextOf
  <2>4. CASE ExitedIn(ctxs, Top.in) /\ f.at # "actual"
    BY <1>1, <1>6, <2>4 DEF RunsOpenIn
  <2> QED BY <2>1, <2>2, <2>3, <2>4
<1>8. f.open => ExitedIn(ctxs', f.in) \/ \E k \in 1..(T - 1) : RunsOpenIn(stack', k)
  BY <1>1, <1>3, <1>4, <1>5 DEF ExitFrame
<1> QED BY <1>1, <1>4, <1>6, <1>7, <1>8 DEF ExitFrame

\* A loop or a switch goes on.
LEMMA ExitBlockPhase ==
    ASSUME IndInv, ExitsKept(Len(ctxs)), NEW f \in FrameSet, Replaced(f),
           Top.op \notin Calls, f.op = Top.op, f.in = Top.in, f.open = Top.open,
           ContextOf(f) = Here
    PROVE  ExitFrame(ctxs', stack', Len(stack))
<1> DEFINE T == Len(stack)
           N == Len(ctxs)
<1>1. /\ T \in Nat /\ T \in 1..T /\ 1 \in 1..N /\ Here \in 1..N
      /\ stack'[T] = f /\ \A k \in 1..(T - 1) : stack'[k] = stack[k]
      /\ Top = stack[T]
  BY TopFrame, Elements DEF IndInv, Replaced
<1>2. ExitFrame(ctxs, stack, T) /\ ~Top.open
  BY <1>1, ExitInvParts DEF IndInv, ExitFrame
<1>3. /\ ExitedIn(ctxs', 1) <=> ExitedIn(ctxs, 1)
      /\ ExitedIn(ctxs', Here) <=> ExitedIn(ctxs, Here)
  BY <1>1 DEF ExitsKept
<1>4. \A k \in 1..T : RunsOpenIn(stack', k) <=> RunsOpenIn(stack, k)
  <2>1. \A k \in 1..T : k \in 1..(T - 1) \/ k = T
    BY <1>1
  <2> QED BY <1>1, <1>2, <2>1 DEF RunsOpenIn
<1>5. ExitedIn(ctxs', 1) =>
        ExitedIn(ctxs', ContextOf(f)) \/ \E k \in 1..T : RunsOpenIn(stack', k)
  BY <1>1, <1>2, <1>3, <1>4 DEF ExitFrame, Here
<1> QED BY <1>1, <1>2, <1>5 DEF ExitFrame

\* exit() reaches the contexts of all that is under execution, but where a call is
\* being prepared on the way, and that call is noted.
LEMMA ExitExit ==
    ASSUME IndInv, Top.op = "Runtime", stray' = stray,
           ctxs' = Flagged(Ancestors(Top.in), "exit"),
           Len(stack') = Len(stack) - 1,
           \A k \in 1..(Len(stack) - 1) :
                stack'[k] = [stack[k] EXCEPT
                    !.open = @ \/ (stack[k].op \in Calls /\ stack[k].at # "body")]
    PROVE  ExitInv'
<1> DEFINE T == Len(stack)
           N == Len(ctxs)
           A == Ancestors(Top.in)
<1>1. /\ T \in Nat /\ T > 1 /\ T \in 1..T /\ T \in 2..T /\ N \in 1..N /\ N \in Nat
      /\ Top = stack[T] /\ "exit" \in Flag
  BY TopFrame, Elements DEF IndInv, Flag
<1>2. Top.in \in 1..N
  BY <1>1 DEF IndInv, OwnInv
<1>3. A \subseteq 1..N /\ \A m \in A : ctxs[m].parent # 0 => ctxs[m].parent \in A
  <2>1. Nested(ctxs)
    BY CtxNested DEF IndInv
  <2>2. A = Around(ctxs, Top.in)
    BY AncestorsAround
  <2>3. Around(ctxs, Top.in) \subseteq 1..Top.in
    BY <1>2, <2>1, AroundClosed
  <2> QED BY <1>1, <1>2, <2>1, <2>2, <2>3, AroundClosed
<1>4. ASSUME NEW i \in 1..N
      PROVE  /\ ctxs'[i].parent = ctxs[i].parent
             /\ ExitedIn(ctxs', i) <=> i \in A \/ ExitedIn(ctxs, i)
  <2>1. CASE i \in A
    <3>1. ctxs'[i].flags = ctxs[i].flags \cup {"exit"} /\ ctxs'[i].parent = ctxs[i].parent
      BY <1>1, <2>1, FlaggedElement DEF IndInv
    <3> QED BY <2>1, <3>1 DEF ExitedIn
  <2>2. CASE i \notin A
    <3>1. ctxs'[i].flags = ctxs[i].flags /\ ctxs'[i].parent = ctxs[i].parent
      BY <1>1, <2>2, FlaggedElement DEF IndInv
    <3> QED BY <2>2, <3>1 DEF ExitedIn
  <2> QED BY <2>1, <2>2
<1>5. Len(ctxs') = N
  BY <1>1, FlaggedLength DEF IndInv
<1> HIDE DEF A
<1>6. ExitUp(ctxs')
  <2>1. ASSUME NEW i \in 2..N, ExitedIn(ctxs', i) PROVE ExitedIn(ctxs', ctxs'[i].parent)
    <3>1. i \in 1..N /\ ctxs[i].parent \in 1..(i - 1)
      BY <1>1, <2>1 DEF IndInv, CtxInv, Parent
    <3>2. ctxs[i].parent \in 1..N /\ ctxs[i].parent # 0 /\ ctxs'[i].parent = ctxs[i].parent
      BY <1>1, <1>4, <3>1
    <3>3. i \in A => ctxs[i].parent \in A
      BY <1>3, <3>2
    <3>4. ExitedIn(ctxs, i) => ExitedIn(ctxs, ctxs[i].parent)
      BY <2>1, ExitInvParts DEF IndInv, ExitUp
    <3> QED BY <1>4, <2>1, <3>1, <3>2, <3>3, <3>4
  <2> QED BY <1>5, <2>1 DEF ExitUp
<1>7. ASSUME NEW k \in 1..(T - 1)
      PROVE  /\ k \in 1..T /\ stack[k] \in FrameSet /\ Shape(stack[k])
             /\ stack'[k].op = stack[k].op /\ stack'[k].at = stack[k].at
             /\ stack'[k].in = stack[k].in /\ stack'[k].own = stack[k].own
             /\ stack'[k].open <=>
                    stack[k].open \/ (stack[k].op \in Calls /\ stack[k].at # "body")
  <2>1. k \in 1..T
    BY <1>1
  <2>2. stack[k] \in FrameSet /\ Shape(stack[k])
    BY <2>1, Elements DEF IndInv, StackInv
  <2>3. stack'[k] = [stack[k] EXCEPT
                        !.open = @ \/ (stack[k].op \in Calls /\ stack[k].at # "body")]
    OBVIOUS
  <2>4. stack'[k].open = (stack[k].open \/ (stack[k].op \in Calls /\ stack[k].at # "body"))
    BY <2>2, <2>3 DEF FrameSet
  <2> QED BY <2>1, <2>2, <2>3, <2>4 DEF FrameSet
\* What is under execution was left, or runs in a call that was noted.
<1>8. ASSUME NEW j \in 1..(T - 1)
      PROVE  ExitedIn(ctxs', ContextOf(stack[j])) \/ \E k \in 1..j : RunsOpenIn(stack', k)
  <2>1. Covered(Top.in, j)
    BY <1>1 DEF IndInv, CoverInv
  <2>2. CASE ContextOf(stack[j]) \in A
    BY <1>3, <1>4, <2>2
  <2>3. CASE \E k \in 1..j : stack[k].at = "default"
    <3>1. PICK k \in 1..j : stack[k].at = "default"
      BY <2>3
    <3>2. k \in 1..(T - 1)
      BY <1>1
    <3>3. stack[k].op \in Calls
      BY <1>7, <3>1, <3>2 DEF Shape, FrameSet, Local
    <3> QED BY <1>7, <3>1, <3>2, <3>3 DEF RunsOpenIn
  <2> QED BY <2>1, <2>2, <2>3 DEF Covered, Preparing, A
<1>9. ASSUME NEW j \in 1..(T - 1) PROVE ExitFrame(ctxs', stack', j)
  <2>1. ExitFrame(ctxs, stack, j)
    BY <1>7, ExitInvParts DEF IndInv
  <2>2. stack'[j].open => stack'[j].op \in Calls
    BY <1>7, <2>1 DEF ExitFrame
  <2>3. ContextOf(stack'[j]) = ContextOf(stack[j])
    BY <1>7 DEF ContextOf
  <2>4. stack'[j].op \in Calls => \/ ExitedIn(ctxs', stack'[j].in)
                                  \/ \E k \in 1..(j - 1) : RunsOpenIn(stack', k)
    <3> SUFFICES ASSUME stack'[j].op \in Calls
                 PROVE  \/ ExitedIn(ctxs', stack'[j].in)
                        \/ \E k \in 1..(j - 1) : RunsOpenIn(stack', k)
      OBVIOUS
    <3>1. j # 1
      BY <1>7 DEF IndInv, StackInv, Calls
    <3>2. j > 1 /\ j \in 1..T /\ j - 1 \in 1..(T - 1)
      BY <1>1, <3>1
    <3>3. stack[j].in = ContextOf(stack[j - 1])
      BY <3>2 DEF IndInv, StackInv
    <3> QED BY <1>7, <1>8, <3>2, <3>3
  <2> QED BY <1>7, <1>8, <2>2, <2>3, <2>4 DEF ExitFrame
<1>10. ~stray'
  BY DEF IndInv, ExitInv
<1> QED BY <1>1, <1>6, <1>9, <1>10, ExitInvParts

-----------------------------------------------------------------------------
(* The steps, one by one.                                                  *)

LEMMA NextType ==
    ASSUME ctxs' \in Seq(CtxSet), stack' \in Seq(FrameSet), current' \in 1..Len(ctxs'),
           state' \in {"run", "done", "error"}, expired' \in BOOLEAN, stray' \in BOOLEAN
    PROVE  TypeOK'
BY DEF TypeOK, CtxSet

\* Nothing runs: an exception, the end of the file, the clock.
LEMMA QuietStep ==
    ASSUME IndInv, UNCHANGED <<ctxs, stack, current, stray>>,
           state' \in {"run", "done", "error"}, expired' \in BOOLEAN
    PROVE  IndInv'
<1>1. TypeOK'
  BY DEF IndInv, TypeOK
<1>2. CtxInv' /\ StackInv'
  BY DEF IndInv, CtxInv, StackInv, Parent, Shape, ContextOf
<1>3. OwnInv'
  BY DEF IndInv, OwnInv, Parent
<1>4. JumpInv' /\ ReturnInv'
  BY DEF IndInv, JumpInv, ReturnInv
<1>5. CoverInv' /\ ExitInv'
  BY CoverInvParts, ExitInvParts DEF IndInv
<1> QED BY <1>1, <1>2, <1>3, <1>4, <1>5 DEF IndInv

LEMMA EnterBlockStep ==
    ASSUME IndInv, NEW type \in Local, NEW at \in {"head", "body"}, EnterBlock(type, at)
    PROVE  IndInv'
<1> DEFINE f == Frame(type, Here, Len(ctxs) + 1, at)
           c == NewContext(type, Here)
<1>1. ~Interrupted(Here) /\ Top.at = "body" /\ current' = Len(ctxs) + 1
      /\ UNCHANGED <<state, expired, stray>>
  BY DEF EnterBlock, CanExecute
<1>2. /\ Here \in 1..Len(ctxs) /\ Here = Len(ctxs) /\ Len(ctxs) \in Nat
      /\ Top = stack[Len(stack)] /\ Len(stack) \in 1..Len(stack)
  BY <1>1, TopFrame, OwnsBody, Elements DEF IndInv
<1>3. type \in Type /\ type # "File" /\ type \in Type \ {"File"}
  BY DEF Local, Type
<1>4. f \in FrameSet /\ c \in CtxSet
  BY <1>2, <1>3 DEF Frame, FrameSet, NewContext, CtxSet, Local
<1>5. /\ f.op = type /\ f.in = Here /\ f.own = Len(ctxs) + 1 /\ f.at = at
      /\ f.open = FALSE
  BY DEF Frame
<1>6. Created(c) /\ Pushed(f)
  <2>1. ctxs' = Append(ctxs, c) /\ Push(f)
    BY DEF EnterBlock
  <2> HIDE DEF c, f
  <2> QED BY <1>4, <2>1, CreatedBy, PushedBy DEF IndInv
<1>7. ctxs'[Len(ctxs) + 1].type = type /\ ctxs'[Len(ctxs) + 1].parent = Here
      /\ ctxs'[Len(ctxs) + 1].flags = {}
  BY <1>6 DEF Created, NewContext
<1>8. Shape(f) /\ ContextOf(f) = Len(ctxs) + 1 /\ OwnType(ctxs', f)
  <2> HIDE DEF f, c
  <2> QED BY <1>2, <1>5, <1>7 DEF Shape, ContextOf, OwnType, Local, Calls
<1> HIDE DEF f
<1>9. CtxInv'
  BY <1>2, <1>3, <1>6, CtxCreate
<1>10. StackInv'
  BY <1>1, <1>3, <1>4, <1>5, <1>6, <1>8, StackPush
<1>11. OwnInv'
  <2> HIDE DEF c
  <2> QED BY <1>4, <1>5, <1>6, <1>8, OwnPushContext
<1>12. JumpInv'
  <2> SUFFICES ASSUME NEW k \in 1..(Len(stack) + 1)
               PROVE  \/ stack'[k].own = 0
                      \/ ctxs'[stack'[k].own].flags = {}
                      \/ \E l \in 1..Len(stack) :
                            /\ stack'[k].own = stack[l].own
                            /\ ctxs'[stack[l].own].flags
                                    \subseteq ctxs[stack[l].own].flags \cup {"exit"}
    BY <1>1, <1>6, JumpNone DEF Pushed
  <2>1. CASE k = Len(stack) + 1
    BY <1>5, <1>6, <1>7, <2>1 DEF Pushed
  <2>2. CASE k \in 1..Len(stack)
    <3>1. stack'[k] = stack[k] /\ stack[k].own \in 0..Len(ctxs)
      BY <1>6, <2>2 DEF Pushed, IndInv, OwnInv
    <3>2. stack[k].own # 0 => ctxs'[stack[k].own] = ctxs[stack[k].own]
      BY <1>2, <1>6, <3>1 DEF Created
    <3> QED BY <2>2, <3>1, <3>2
  <2> QED BY <1>2, <2>1, <2>2
<1>13. ReturnInv'
  <2>1. "return" \notin ctxs[Len(ctxs)].flags
    BY <1>1, <1>2 DEF Interrupted
  <2> QED BY <1>2, <1>3, <1>6, <2>1, ReturnedCreate
<1>14. CoverInv'
  BY <1>1, <1>3, <1>4, <1>5, <1>6, <1>8, <1>9, CoverPushContext
<1>15. ExitInv'
  <2>1. ExitUp(ctxs') /\ ExitsKept(Len(ctxs))
    BY <1>6, ExitUpCreated
  <2> QED BY <1>1, <1>4, <1>5, <1>6, <2>1, ExitPush
<1>16. TypeOK'
  <2>1. current' \in 1..Len(ctxs')
    BY <1>1, <1>2, <1>6 DEF Created
  <2> QED BY <1>1, <1>6, <2>1, NextType DEF Created, Pushed, IndInv, TypeOK
<1> QED BY <1>9, <1>10, <1>11, <1>12, <1>13, <1>14, <1>15, <1>16 DEF IndInv

\* A return, a call or a call of a function of the engine begins.
LEMMA BeginStep ==
    ASSUME IndInv, CanExecute, NEW f \in FrameSet, Push(f), Shape(f),
           f.op \in {"Return", "Runtime"} \cup Calls, f.op = "Return" => Top.at = "body",
           f.in = Here, f.own = 0, f.open = FALSE, ContextOf(f) = Here,
           UNCHANGED <<state, ctxs, current, expired, stray>>
    PROVE  IndInv'
<1>1. ~Interrupted(Here) /\ Pushed(f)
  BY PushedBy DEF CanExecute, IndInv
<1>2. Len(stack) \in Nat
  BY Elements DEF IndInv
<1>3. Reflagged
  BY SameReflagged DEF IndInv
<1>4. CtxInv'
  BY <1>3, CtxReflag
<1>5. StackInv'
  <2>1. f.op # "File" /\ (f.op \in Local \cup {"Return"} => Top.at = "body")
    BY DEF Local, Calls
  <2> QED BY <1>1, <2>1, StackPush
<1>6. OwnInv'
  BY <1>1, OwnPush
<1>7. JumpInv'
  <2> SUFFICES ASSUME NEW k \in 1..(Len(stack) + 1)
               PROVE  \/ stack'[k].own = 0
                      \/ \E l \in 1..Len(stack) :
                            /\ stack'[k].own = stack[l].own
                            /\ ctxs'[stack[l].own].flags
                                    \subseteq ctxs[stack[l].own].flags \cup {"exit"}
    BY <1>1, JumpNone DEF Pushed
  <2>1. CASE k = Len(stack) + 1
    BY <1>1, <2>1 DEF Pushed
  <2>2. CASE k \in 1..Len(stack)
    BY <1>1, <2>2 DEF Pushed
  <2> QED BY <1>2, <2>1, <2>2
<1>8. ReturnInv'
  BY <1>3, ReturnedSame
<1>9. CoverInv'
  BY <1>1, CoverPush
<1>10. ExitInv'
  <2>1. ExitsKept(Len(ctxs))
    BY DEF ExitsKept, ExitedIn
  <2> QED BY <1>1, <1>3, <2>1, ExitUpReflagged, ExitPush
<1>11. TypeOK'
  BY <1>1, <1>3, NextType, Elements DEF Pushed, Reflagged, IndInv, TypeOK
<1> QED BY <1>4, <1>5, <1>6, <1>7, <1>8, <1>9, <1>10, <1>11 DEF IndInv

LEMMA BeginReturnStep == ASSUME IndInv, BeginReturn PROVE IndInv'
<1> DEFINE f == Frame("Return", Here, 0, "value")
<1>1. /\ CanExecute /\ Top.at = "body" /\ Push(f)
      /\ UNCHANGED <<state, ctxs, current, expired, stray>>
  BY DEF BeginReturn
<1>2. Here \in Nat \ {0}
  BY TopFrame, Elements DEF IndInv
<1>3. /\ f \in FrameSet /\ f.op = "Return" /\ f.in = Here /\ f.own = 0 /\ f.at = "value"
      /\ f.open = FALSE
  BY <1>2 DEF Frame, FrameSet
<1> HIDE DEF f
<1>4. Shape(f) /\ ContextOf(f) = Here
  BY <1>3 DEF Shape, ContextOf, Local, Calls
<1> QED BY <1>1, <1>3, <1>4, BeginStep

LEMMA BeginCallStep == ASSUME IndInv, NEW op \in Calls, BeginCall(op) PROVE IndInv'
<1> DEFINE f == Frame(op, Here, 0, "where")
<1>1. /\ CanExecute /\ Push(f)
      /\ UNCHANGED <<state, ctxs, current, expired, stray>>
  BY DEF BeginCall
<1>2. Here \in Nat \ {0}
  BY TopFrame, Elements DEF IndInv
<1>3. /\ f \in FrameSet /\ f.op = op /\ f.in = Here /\ f.own = 0 /\ f.at = "where"
      /\ f.open = FALSE
  BY <1>2 DEF Frame, FrameSet
<1> HIDE DEF f
<1>4. Shape(f) /\ ContextOf(f) = Here
  BY <1>3 DEF Shape, ContextOf, Local, Calls
<1>5. f.op \in {"Return", "Runtime"} \cup Calls /\ f.op # "Return"
  BY <1>3 DEF Calls
<1> QED BY <1>1, <1>3, <1>4, <1>5, BeginStep

LEMMA BeginRuntimeStep == ASSUME IndInv, BeginRuntime PROVE IndInv'
<1> DEFINE f == Frame("Runtime", Here, 0, "arg")
<1>1. /\ CanExecute /\ Push(f)
      /\ UNCHANGED <<state, ctxs, current, expired, stray>>
  BY DEF BeginRuntime
<1>2. Here \in Nat \ {0}
  BY TopFrame, Elements DEF IndInv
<1>3. /\ f \in FrameSet /\ f.op = "Runtime" /\ f.in = Here /\ f.own = 0 /\ f.at = "arg"
      /\ f.open = FALSE
  BY <1>2 DEF Frame, FrameSet
<1> HIDE DEF f
<1>4. Shape(f) /\ ContextOf(f) = Here
  BY <1>3 DEF Shape, ContextOf, Local, Calls
<1> QED BY <1>1, <1>3, <1>4, BeginStep

\* The innermost instruction goes on: no context changes, nothing was left before.
LEMMA PhaseStep ==
    ASSUME IndInv, Top.at # "body", NEW f \in FrameSet, Replaced(f), Shape(f),
           f.op = Top.op, f.in = Top.in, f.own = Top.own,
           UNCHANGED <<state, ctxs, expired, stray>>, CoverInv',
           current' \in 1..Len(ctxs), ExitFrame(ctxs', stack', Len(stack))
    PROVE  IndInv'
<1>1. Reflagged /\ ExitsKept(Len(ctxs))
  BY SameReflagged DEF IndInv, ExitsKept, ExitedIn
<1>2. /\ Len(stack) \in 1..Len(stack) /\ Len(stack) \in Nat /\ Top = stack[Len(stack)]
      /\ Len(ctxs) \in 1..Len(ctxs)
  BY TopFrame, Elements DEF IndInv
<1>3. CtxInv'
  BY <1>1, CtxReflag
<1>4. StackInv'
  BY StackReplace
<1>5. OwnInv'
  BY <1>1, OwnReplace
<1>6. JumpInv'
  <2> SUFFICES ASSUME NEW k \in 1..Len(stack)
               PROVE  \E l \in 1..Len(stack) :
                        /\ stack'[k].own = stack[l].own
                        /\ ctxs'[stack[l].own].flags
                                \subseteq ctxs[stack[l].own].flags \cup {"exit"}
    BY JumpNone DEF Replaced
  <2>1. CASE k = Len(stack)
    BY <1>2, <2>1 DEF Replaced
  <2>2. CASE k \in 1..(Len(stack) - 1)
    BY <2>2 DEF Replaced
  <2> QED BY <1>2, <2>1, <2>2
<1>7. ReturnInv'
  BY <1>1, ReturnedSame
<1>8. ExitInv'
  <2>1. ASSUME NEW k \in 1..(Len(stack) - 1)
        PROVE  /\ stack'[k] = stack[k]
               /\ stack[k].in <= Len(ctxs) /\ stack[k].own <= Len(ctxs)
    <3>1. k \in 1..Len(stack)
      BY <1>2
    <3>2. stack[k].in \in 1..Len(ctxs) /\ stack[k].own \in 0..Len(ctxs)
      BY <3>1 DEF IndInv, OwnInv
    <3> QED BY <1>2, <3>2 DEF Replaced
  <2>2. ExitUp(ctxs') /\ Len(stack') = Len(stack) /\ stray' = FALSE
    BY <1>1, ExitUpReflagged DEF Replaced, IndInv, ExitInv, TypeOK
  <2> QED BY <1>1, <1>2, <2>1, <2>2, ExitPop
<1>9. TypeOK'
  BY <1>1, NextType DEF Reflagged, Replaced, IndInv, TypeOK
<1> QED BY <1>3, <1>4, <1>5, <1>6, <1>7, <1>8, <1>9 DEF IndInv

LEMMA IterateStep == ASSUME IndInv, Iterate PROVE IndInv'
<1> DEFINE f == [Top EXCEPT !.at = "body"]
<1>1. /\ Top.op \in Local /\ Top.at = "head" /\ Phase("body")
      /\ UNCHANGED <<state, ctxs, current, expired, stray>>
  BY DEF Iterate, At
<1>2. Top \in FrameSet /\ Shape(Top)
  BY TopFrame
<1>3. /\ f \in FrameSet /\ f.op = Top.op /\ f.in = Top.in /\ f.own = Top.own
      /\ f.at = "body" /\ f.open = Top.open
  BY <1>2 DEF FrameSet
<1>4. Replaced(f)
  BY <1>1, <1>3, PhaseReplaced
<1> HIDE DEF f
<1>5. Shape(f) /\ ContextOf(f) = Here
  BY <1>1, <1>2, <1>3 DEF Shape, ContextOf, Here, Local, Calls
<1>6. Reflagged /\ ExitsKept(Len(ctxs))
  BY <1>1, SameReflagged DEF IndInv, ExitsKept, ExitedIn
<1>7. CoverInv'
  BY <1>1, <1>3, <1>4, <1>5, <1>6, CoverReplace
<1>8. ExitFrame(ctxs', stack', Len(stack))
  <2>1. Top.op \notin Calls
    BY <1>1 DEF Local, Calls
  <2> QED BY <1>3, <1>4, <1>5, <1>6, <2>1, ExitBlockPhase
<1> QED BY <1>1, <1>3, <1>4, <1>5, <1>7, <1>8, PhaseStep, Elements DEF IndInv

LEMMA FillActualsStep == ASSUME IndInv, FillActuals PROVE IndInv'
<1> DEFINE f == [Top EXCEPT !.at = "actual"]
<1>1. /\ Top.op = "Call" /\ Top.at = "default" /\ Phase("actual")
      /\ UNCHANGED <<state, ctxs, current, expired, stray>>
  BY DEF FillActuals, At
<1>2. Top \in FrameSet /\ Shape(Top)
  BY TopFrame
<1>3. /\ f \in FrameSet /\ f.op = Top.op /\ f.in = Top.in /\ f.own = Top.own
      /\ f.at = "actual" /\ f.open = Top.open
  BY <1>2 DEF FrameSet
<1>4. Replaced(f)
  BY <1>1, <1>3, PhaseReplaced
<1> HIDE DEF f
<1>5. Shape(f) /\ ContextOf(f) = Top.in
  BY <1>1, <1>2, <1>3 DEF Shape, ContextOf, Local, Calls
<1>6. Reflagged /\ ExitsKept(Len(ctxs))
  BY <1>1, SameReflagged DEF IndInv, ExitsKept, ExitedIn
<1>7. CoverInv'
  BY <1>1, <1>3, <1>4, <1>5, <1>6, CoverReplace
<1>8. ExitFrame(ctxs', stack', Len(stack))
  <2>1. Top.op \in Calls
    BY <1>1 DEF Calls
  <2> QED BY <1>1, <1>3, <1>4, <1>6, <2>1, ExitCallPhase
<1> QED BY <1>1, <1>3, <1>4, <1>5, <1>7, <1>8, PhaseStep, Elements DEF IndInv

LEMMA EnterBodyStep == ASSUME IndInv, EnterBody PROVE IndInv'
<1> DEFINE f == [Top EXCEPT !.at = "body"]
<1>1. /\ Top.op \in Calls /\ Top.at \in {"actual", "default"} /\ Phase("body")
      /\ current' = Top.own /\ UNCHANGED <<state, ctxs, expired, stray>>
  BY DEF EnterBody, At, Calls
<1>2. Top \in FrameSet /\ Shape(Top)
  BY TopFrame
<1>3. /\ f \in FrameSet /\ f.op = Top.op /\ f.in = Top.in /\ f.own = Top.own
      /\ f.at = "body" /\ f.open = Top.open
  BY <1>2 DEF FrameSet
<1>4. Replaced(f)
  BY <1>1, <1>3, PhaseReplaced
<1> HIDE DEF f
<1>5. Shape(f) /\ ContextOf(f) = Top.own /\ Top.own # 0
  BY <1>1, <1>2, <1>3 DEF Shape, ContextOf, Local, Calls
<1>6. Reflagged /\ ExitsKept(Len(ctxs))
  BY <1>1, SameReflagged DEF IndInv, ExitsKept, ExitedIn
<1>7. CoverInv'
  BY <1>1, <1>3, <1>4, <1>5, <1>6, CoverReplace
<1>8. ExitFrame(ctxs', stack', Len(stack))
  BY <1>1, <1>3, <1>4, <1>6, ExitCallPhase
<1>9. current' \in 1..Len(ctxs)
  BY <1>1, <1>5, TopFrame
<1> QED BY <1>1, <1>3, <1>4, <1>5, <1>7, <1>8, <1>9, PhaseStep

\* The context of a call is created in that of the caller, or in the current one.
LEMMA FillDefaultsStep == ASSUME IndInv, FillDefaults PROVE IndInv'
<1> DEFINE p == IF Top.op = "Hook" THEN current ELSE Top.in
           c == NewContext("Function", p)
           f == [Top EXCEPT !.own = Len(ctxs) + 1, !.at = "default"]
<1>1. /\ Top.op \in Calls /\ Top.at = "where"
      /\ UNCHANGED <<state, current, expired, stray>>
      /\ ctxs' = Append(ctxs, c)
  BY DEF FillDefaults, At
<1>2. /\ Top \in FrameSet /\ Shape(Top) /\ Top = stack[Len(stack)]
      /\ Len(stack) \in 1..Len(stack) /\ Len(ctxs) \in 1..Len(ctxs)
      /\ Len(ctxs) \in Nat /\ Len(stack) \in Nat /\ current \in 1..Len(ctxs)
      /\ stack \in Seq(FrameSet)
  BY TopFrame, Elements DEF IndInv
<1>3. p \in 1..Len(ctxs) /\ p \in {current, Top.in}
  BY <1>2 DEF IndInv, OwnInv
<1>4. /\ f \in FrameSet /\ f.op = Top.op /\ f.in = Top.in /\ f.own = Len(ctxs) + 1
      /\ f.at = "default" /\ f.open = Top.open
  <2>1. ASSUME NEW t \in FrameSet, NEW n \in Nat
        PROVE  LET g == [t EXCEPT !.own = n, !.at = "default"]
               IN  /\ g \in FrameSet /\ g.op = t.op /\ g.in = t.in /\ g.own = n
                   /\ g.at = "default" /\ g.open = t.open
    BY DEF FrameSet
  <2>2. Len(ctxs) + 1 \in Nat /\ Top \in FrameSet
    BY <1>2
  <2> QED BY <2>1, <2>2
<1>5. Replaced(f)
  <2>1. stack' = [stack EXCEPT ![Len(stack)] = f]
    BY <1>2 DEF FillDefaults
  <2> HIDE DEF f
  <2> QED BY <1>4, <2>1, ReplacedBy
<1> HIDE DEF f, p
<1>6. c \in CtxSet
  BY <1>2, <1>3 DEF CtxSet, NewContext, Type
<1>7. Created(c)
  <2> HIDE DEF c
  <2> QED BY <1>1, <1>6, CreatedBy DEF IndInv
<1>8. /\ ctxs'[Len(ctxs) + 1].type = "Function" /\ ctxs'[Len(ctxs) + 1].parent = p
      /\ ctxs'[Len(ctxs) + 1].flags = {}
  BY <1>7 DEF Created, NewContext
<1>9. Shape(f) /\ Top.own = 0 /\ Top.op # "File"
  BY <1>1, <1>2, <1>4 DEF Shape, Local, Calls
<1>10. CtxInv'
  <2>1. "Function" \in Type \ {"File"} /\ "Function" \notin Local
    BY DEF Type, Local
  <2> QED BY <1>3, <1>7, <2>1, CtxCreate
<1>11. StackInv'
  BY <1>4, <1>5, <1>9, StackReplace
<1>12. OwnInv'
  <2>1. OwnType(ctxs', f)
    <3>1. f.op \notin Local
      BY <1>1, <1>4 DEF Local, Calls
    <3>2. f.op = "Call" => p = f.in
      BY <1>4 DEF p
    <3> QED BY <1>4, <1>8, <3>1, <3>2 DEF OwnType
  <2> HIDE DEF c
  <2> QED BY <1>4, <1>5, <1>6, <1>7, <1>9, <2>1, OwnCall
<1>13. JumpInv'
  <2> SUFFICES ASSUME NEW k \in 1..Len(stack)
               PROVE  \/ stack'[k].own = 0
                      \/ ctxs'[stack'[k].own].flags = {}
                      \/ \E l \in 1..Len(stack) :
                            /\ stack'[k].own = stack[l].own
                            /\ ctxs'[stack[l].own].flags
                                    \subseteq ctxs[stack[l].own].flags \cup {"exit"}
    BY <1>1, <1>5, JumpNone DEF Replaced
  <2>1. CASE k = Len(stack)
    BY <1>4, <1>5, <1>8, <2>1 DEF Replaced
  <2>2. CASE k \in 1..(Len(stack) - 1)
    <3>1. k \in 1..Len(stack) /\ stack'[k] = stack[k] /\ stack[k].own \in 0..Len(ctxs)
      BY <1>2, <1>5, <2>2 DEF Replaced, IndInv, OwnInv
    <3>2. stack[k].own # 0 => ctxs'[stack[k].own] = ctxs[stack[k].own]
      BY <1>2, <1>7, <3>1 DEF Created
    <3> QED BY <3>1, <3>2
  <2> QED BY <1>2, <2>1, <2>2
<1>14. ReturnInv'
  <2>1. "Function" \in Type /\ "Function" \notin Local /\ p \in Nat
    BY <1>2, <1>3 DEF Type, Local
  <2> QED BY <1>7, <2>1, ReturnedCreate
<1>15. CoverInv'
  BY <1>1, <1>3, <1>4, <1>5, <1>7, <1>9, CoverCall
<1>16. ExitInv'
  <2>1. ExitUp(ctxs') /\ ExitsKept(Len(ctxs))
    BY <1>7, ExitUpCreated
  <2>2. ExitFrame(ctxs', stack', Len(stack))
    BY <1>1, <1>4, <1>5, <2>1, ExitCallPhase
  <2>3. ASSUME NEW k \in 1..(Len(stack) - 1)
        PROVE  /\ stack'[k] = stack[k]
               /\ stack[k].in <= Len(ctxs) /\ stack[k].own <= Len(ctxs)
    <3>1. k \in 1..Len(stack)
      BY <1>2
    <3>2. stack[k].in \in 1..Len(ctxs) /\ stack[k].own \in 0..Len(ctxs)
      BY <3>1 DEF IndInv, OwnInv
    <3> QED BY <1>2, <1>5, <3>2 DEF Replaced
  <2>4. stray' = FALSE /\ Len(stack') = Len(stack)
    BY <1>1, <1>5 DEF Replaced, IndInv, ExitInv, TypeOK
  <2> QED BY <1>2, <2>1, <2>2, <2>3, <2>4, ExitPop
<1>17. TypeOK'
  <2>1. current' \in 1..Len(ctxs')
    BY <1>1, <1>2, <1>7 DEF Created
  <2> QED BY <1>1, <1>5, <1>7, <2>1, NextType DEF Created, Replaced, IndInv, TypeOK
<1> QED BY <1>10, <1>11, <1>12, <1>13, <1>14, <1>15, <1>16, <1>17 DEF IndInv

\* An instruction that has no context ends, and leaves the flags alone.
LEMMA PopStep ==
    ASSUME IndInv, Pop, Top.own = 0, Top.op # "File", Top.at # "body",
           UNCHANGED <<state, ctxs, current, expired>>, stray' = FALSE
    PROVE  IndInv'
<1>1. Popped /\ \A k \in 1..(Len(stack) - 1) : stack'[k] = stack[k]
  BY PoppedBy
<1>2. Reflagged /\ ExitsKept(Len(ctxs))
  BY SameReflagged DEF IndInv, ExitsKept, ExitedIn
<1>3. Len(stack) \in Nat /\ Len(ctxs) \in 1..Len(ctxs)
  BY TopFrame, Elements DEF IndInv
<1>4. CtxInv' /\ StackInv' /\ OwnInv'
  BY <1>1, <1>2, CtxReflag, StackPop, OwnPop
<1>5. JumpInv'
  <2> SUFFICES ASSUME NEW k \in 1..(Len(stack) - 1)
               PROVE  \E l \in 1..Len(stack) :
                        /\ stack'[k].own = stack[l].own
                        /\ ctxs'[stack[l].own].flags
                                \subseteq ctxs[stack[l].own].flags \cup {"exit"}
    BY <1>1, JumpNone DEF Popped
  <2>1. k \in 1..Len(stack)
    BY <1>3
  <2> QED BY <1>1, <2>1
<1>6. ReturnInv'
  BY <1>2, ReturnedSame
<1>7. CoverInv'
  BY <1>1, <1>2, CoverPop
<1>8. ExitInv'
  <2>1. ASSUME NEW k \in 1..(Len(stack) - 1)
        PROVE  /\ stack'[k] = stack[k]
               /\ stack[k].in <= Len(ctxs) /\ stack[k].own <= Len(ctxs)
    <3>1. k \in 1..Len(stack)
      BY <1>3
    <3>2. stack[k].in \in 1..Len(ctxs) /\ stack[k].own \in 0..Len(ctxs)
      BY <3>1 DEF IndInv, OwnInv
    <3> QED BY <1>1, <1>3, <3>2
  <2>2. ExitUp(ctxs') /\ Len(stack') = Len(stack) - 1
    BY <1>1, <1>2, ExitUpReflagged DEF Popped
  <2> QED BY <1>2, <1>3, <2>1, <2>2, ExitPop
<1>9. TypeOK'
  BY <1>1, <1>2, NextType, Elements DEF Reflagged, Popped, IndInv, TypeOK
<1> QED BY <1>4, <1>5, <1>6, <1>7, <1>8, <1>9 DEF IndInv

\* A loop, a switch or a call ends, and its context with it.
LEMMA LeaveStep ==
    ASSUME IndInv, Pop, ctxs' = Front(ctxs), Top.at \in {"head", "body"}, Top.op # "File",
           \/ current' = Top.in
           \/ Top.op \in Calls /\ current' = Parent(Top.own),
           UNCHANGED <<state, expired, stray>>
    PROVE  IndInv'
<1>1. /\ Popped /\ \A k \in 1..(Len(stack) - 1) : stack'[k] = stack[k]
      /\ Destroyed
  BY PoppedBy, DestroyedBy
<1>2. /\ Len(stack) \in Nat /\ Len(ctxs) \in 1..Len(ctxs) /\ Len(ctxs) \in Nat
      /\ Top = stack[Len(stack)] /\ Len(stack) \in 1..Len(stack)
  BY TopFrame, Elements DEF IndInv
<1>3. /\ Top.own = Len(ctxs) /\ Top.own # 0
      /\ \A j \in 1..(Len(stack) - 1) : stack[j].own < Len(ctxs)
      /\ \A j \in 1..Len(stack) : stack[j].in < Len(ctxs)
  BY <1>2, OwnsBody
<1>4. Top.in \in 1..Len(ctxs) /\ Top.in < Len(ctxs) /\ Len(ctxs) > 1
  <2>1. Top.in \in 1..Len(ctxs)
    BY <1>2 DEF IndInv, OwnInv
  <2> QED BY <1>2, <1>3, <2>1
<1>5. CtxInv' /\ StackInv' /\ OwnInv'
  BY <1>1, <1>3, <1>4, CtxDestroy, StackPop, OwnPopContext
<1>6. JumpInv' /\ ReturnInv'
  BY <1>1, <1>3, <1>4, JumpPopContext, ReturnedDestroy
<1>7. CoverInv'
  BY <1>1, CoverPopContext
<1>8. ExitInv'
  <2>1. ASSUME NEW k \in 1..(Len(stack) - 1)
        PROVE  /\ stack'[k] = stack[k]
               /\ stack[k].in <= Len(ctxs) - 1 /\ stack[k].own <= Len(ctxs) - 1
    <3>1. k \in 1..Len(stack)
      BY <1>2
    <3>2. stack[k].in \in 1..Len(ctxs) /\ stack[k].own \in 0..Len(ctxs)
      BY <3>1 DEF IndInv, OwnInv
    <3>3. stack[k].in < Len(ctxs) /\ stack[k].own < Len(ctxs)
      BY <1>3, <3>1
    <3> QED BY <1>1, <1>2, <3>2, <3>3
  <2>2. ExitUp(ctxs') /\ ExitsKept(Len(ctxs) - 1)
    BY <1>1, ExitUpDestroyed
  <2>3. Len(stack') = Len(stack) - 1 /\ stray' = FALSE /\ Len(ctxs) - 1 \in 1..Len(ctxs)
    BY <1>1, <1>2, <1>4 DEF Popped, IndInv, ExitInv, TypeOK
  <2> QED BY <2>1, <2>2, <2>3, ExitPop
<1>9. TypeOK'
  <2>1. current' \in 1..(Len(ctxs) - 1)
    <3>1. CASE current' = Top.in
      BY <1>2, <1>4, <3>1
    <3>2. CASE Top.op \in Calls /\ current' = Parent(Top.own)
      <4>1. Len(ctxs) \in 2..Len(ctxs)
        BY <1>2, <1>4
      <4>2. Parent(Len(ctxs)) \in 1..(Len(ctxs) - 1)
        BY <4>1 DEF IndInv, CtxInv
      <4> QED BY <1>3, <3>2, <4>2
    <3> QED BY <3>1, <3>2
  <2>2. current' \in 1..Len(ctxs')
    BY <1>1, <2>1 DEF Destroyed
  <2> QED BY <1>1, <2>2, NextType DEF Destroyed, Popped, IndInv, TypeOK
<1> QED BY <1>5, <1>6, <1>7, <1>8, <1>9 DEF IndInv

LEMMA EndBlockStep == ASSUME IndInv, EndBlock PROVE IndInv'
<1>1. /\ Top.at = "head" /\ Top.op \in Local /\ Pop /\ ctxs' = Front(ctxs)
      /\ current' = Top.in /\ UNCHANGED <<state, expired, stray>>
  BY DEF EndBlock, At, LeaveBlock
<1>2. Top.op # "File"
  BY <1>1 DEF Local
<1> QED BY <1>1, <1>2, LeaveStep

LEMMA LeaveCallStep == ASSUME IndInv, LeaveCall PROVE IndInv'
<1>1. /\ Top.at = "body" /\ Top.op \in Calls /\ Pop /\ ctxs' = Front(ctxs)
      /\ current' = Parent(Top.own) /\ UNCHANGED <<state, expired, stray>>
  BY DEF LeaveCall, At, Parent
<1>2. Top.op # "File"
  BY <1>1 DEF Calls
<1> QED BY <1>1, <1>2, LeaveStep

\* A body ends: its loop or switch was left, or goes on and forgets a continue.
LEMMA EndBodyStep == ASSUME IndInv, EndBody PROVE IndInv'
<1> DEFINE flags == ctxs[Top.own].flags \ (IF Top.op = "Loop" THEN {"continue"} ELSE {})
           f == [Top EXCEPT !.at = "head"]
<1>1. /\ Top.op \in Local /\ Top.at = "body" /\ UNCHANGED <<state, expired, stray>>
  BY DEF EndBody, At
<1>2. CASE flags # {}
  <2>1. Pop /\ ctxs' = Front(ctxs) /\ current' = Top.in
    BY <1>2 DEF EndBody, LeaveBlock
  <2>2. Top.op # "File"
    BY <1>1 DEF Local
  <2> QED BY <1>1, <2>1, <2>2, LeaveStep
<1>3. CASE flags = {}
  <2>1. /\ ctxs' = [ctxs EXCEPT ![Top.own].flags = {}] /\ Phase("head")
        /\ current' = current
    BY <1>3 DEF EndBody
  <2>2. ctxs[Top.own].flags \subseteq {"continue"}
    BY <1>3
  <2>3. /\ Top \in FrameSet /\ Shape(Top) /\ Top.own = Len(ctxs)
        /\ Len(ctxs) \in 1..Len(ctxs) /\ Len(ctxs) \in Nat /\ ctxs \in Seq(CtxSet)
        /\ \A i \in 1..Len(ctxs) : ctxs[i] \in CtxSet
        /\ Len(stack) \in 1..Len(stack) /\ Len(stack) \in Nat
        /\ Top = stack[Len(stack)]
    BY <1>1, TopFrame, OwnsBody, Elements DEF IndInv
  <2>4. /\ f \in FrameSet /\ f.op = Top.op /\ f.in = Top.in /\ f.own = Top.own
        /\ f.at = "head" /\ f.open = Top.open
    BY <2>3 DEF FrameSet
  <2>5. Replaced(f)
    BY <2>1, <2>4, PhaseReplaced
  <2> HIDE DEF f, flags
  <2>6. Shape(f) /\ ContextOf(f) = Here
    BY <1>1, <2>3, <2>4 DEF Shape, ContextOf, Here, Local, Calls
  <2>7. ASSUME NEW i \in 1..Len(ctxs)
        PROVE  /\ ctxs'[i].type = ctxs[i].type /\ ctxs'[i].parent = ctxs[i].parent
               /\ ctxs'[i].flags = IF i = Len(ctxs) THEN {} ELSE ctxs[i].flags
    BY <2>1, <2>3 DEF CtxSet
  <2>8. Reflagged
    <3>1. [ctxs[Len(ctxs)] EXCEPT !.flags = {}] \in CtxSet
      BY <2>3 DEF CtxSet
    <3>2. ctxs' = [ctxs EXCEPT ![Len(ctxs)] = [ctxs[Len(ctxs)] EXCEPT !.flags = {}]]
      BY <2>1, <2>3
    <3>3. ctxs' \in Seq(CtxSet) /\ Len(ctxs') = Len(ctxs)
      BY <2>3, <3>1, <3>2
    <3> QED BY <2>7, <3>3 DEF Reflagged
  <2>9. /\ ExitsKept(Len(ctxs))
        /\ \A i \in 1..Len(ctxs) : "return" \in ctxs'[i].flags <=> "return" \in ctxs[i].flags
    BY <2>2, <2>3, <2>7 DEF ExitsKept, ExitedIn
  <2>10. CtxInv' /\ StackInv' /\ OwnInv'
    BY <2>4, <2>5, <2>6, <2>8, CtxReflag, StackReplace, OwnReplace
  <2>11. JumpInv'
    BY <1>1, <2>1, <2>2, <2>4, <2>5, JumpEndBody
  <2>12. ReturnInv'
    BY <2>8, <2>9, ReturnedSame
  <2>13. CoverInv'
    BY <1>1, <2>1, <2>4, <2>5, <2>6, <2>8, CoverReplace
  <2>14. ExitInv'
    <3>1. Top.op \notin Calls
      BY <1>1 DEF Local, Calls
    <3>2. ExitFrame(ctxs', stack', Len(stack))
      BY <2>4, <2>5, <2>6, <2>9, <3>1, ExitBlockPhase
    <3>3. ASSUME NEW k \in 1..(Len(stack) - 1)
          PROVE  /\ stack'[k] = stack[k]
                 /\ stack[k].in <= Len(ctxs) /\ stack[k].own <= Len(ctxs)
      <4>1. k \in 1..Len(stack)
        BY <2>3
      <4>2. stack[k].in \in 1..Len(ctxs) /\ stack[k].own \in 0..Len(ctxs)
        BY <4>1 DEF IndInv, OwnInv
      <4> QED BY <2>3, <2>5, <4>2 DEF Replaced
    <3>4. ExitUp(ctxs') /\ Len(stack') = Len(stack) /\ stray' = FALSE
      BY <1>1, <2>5, <2>8, <2>9, ExitUpReflagged DEF Replaced, IndInv, ExitInv, TypeOK
    <3> QED BY <2>3, <2>9, <3>2, <3>3, <3>4, ExitPop
  <2>15. TypeOK'
    <3>1. current' \in 1..Len(ctxs')
      BY <2>1, <2>8, Elements DEF Reflagged, IndInv
    <3> QED BY <1>1, <2>5, <2>8, <3>1, NextType DEF Reflagged, Replaced, IndInv, TypeOK
  <2> QED BY <2>10, <2>11, <2>12, <2>13, <2>14, <2>15 DEF IndInv
<1> QED BY <1>2, <1>3

\* break and continue, where they do not throw.
LEMMA JumpStep ==
    ASSUME IndInv, CanExecute, Top.at = "body", NEW flag \in {"break", "continue"},
           ctxs' = Flagged({Here}, flag), UNCHANGED <<state, stack, current, expired, stray>>
    PROVE  IndInv'
<1>1. flag \in Flag /\ flag # "return" /\ flag # "exit" /\ ~Interrupted(Here)
  BY DEF Flag, CanExecute
<1>2. Reflagged /\ Replaced(Top) /\ Top \in FrameSet /\ Shape(Top)
  BY <1>1, ReflaggedBy, SameReplaced, TopFrame DEF IndInv
<1>3. /\ Len(stack) \in 1..Len(stack) /\ Len(stack) \in Nat /\ Len(ctxs) \in 1..Len(ctxs)
      /\ Len(ctxs) \in Nat
  BY TopFrame, Elements DEF IndInv
<1>4. ASSUME NEW i \in 1..Len(ctxs)
      PROVE  /\ "return" \in ctxs'[i].flags <=> "return" \in ctxs[i].flags
             /\ "exit" \in ctxs'[i].flags <=> "exit" \in ctxs[i].flags
  <2>1. CASE i \in {Here}
    <3>1. ctxs'[i].flags = ctxs[i].flags \cup {flag}
      BY <1>1, <2>1, FlaggedElement DEF IndInv
    <3> QED BY <1>1, <3>1
  <2>2. CASE i \notin {Here}
    <3>1. ctxs'[i].flags = ctxs[i].flags
      BY <1>1, <2>2, FlaggedElement DEF IndInv
    <3> QED BY <3>1
  <2> QED BY <2>1, <2>2
<1>5. CtxInv' /\ StackInv' /\ OwnInv'
  BY <1>2, CtxReflag, StackReplace, OwnReplace
<1>6. JumpInv'
  BY <1>1, JumpBreak
<1>7. ReturnInv'
  BY <1>2, <1>4, ReturnedSame
<1>8. CoverInv'
  BY <1>2, CoverReplace DEF Here
<1>9. ExitInv'
  <2>1. ExitsKept(Len(ctxs))
    BY <1>4 DEF ExitsKept, ExitedIn
  <2>2. ExitUp(ctxs')
    BY <1>2, <2>1, ExitUpReflagged
  <2>3. ASSUME NEW k \in 1..Len(stack)
        PROVE  /\ stack'[k] = stack[k]
               /\ stack[k].in <= Len(ctxs) /\ stack[k].own <= Len(ctxs)
    <3>1. stack[k].in \in 1..Len(ctxs) /\ stack[k].own \in 0..Len(ctxs)
      BY DEF IndInv, OwnInv
    <3> QED BY <1>3, <3>1
  <2>4. ASSUME NEW j \in 1..Len(stack) PROVE ExitFrame(ctxs', stack', j)
    <3>1. \A k \in 1..j : stack'[k] = stack[k]
      OBVIOUS
    <3> QED BY <1>3, <2>1, <2>3, <3>1, ExitKept
  <2> QED BY <2>2, <2>4, ExitInvParts DEF IndInv
<1>10. TypeOK'
  <2>1. current' \in 1..Len(ctxs')
    BY <1>2, Elements DEF Reflagged, IndInv
  <2> QED BY <1>2, <2>1, NextType DEF Reflagged, Replaced, IndInv, TypeOK
<1> QED BY <1>5, <1>6, <1>7, <1>8, <1>9, <1>10 DEF IndInv

LEMMA ThrowStep == ASSUME IndInv, Throw PROVE IndInv'
BY QuietStep DEF Throw, IndInv, TypeOK

LEMMA ReturnStep == ASSUME IndInv, Return PROVE IndInv'
<1>1. Top.op = "Return" /\ Top.at = "value"
  BY DEF Return, At
<1>2. CASE ~InFunction(Top.in)
  BY <1>2, ThrowStep DEF Return
<1>3. CASE InFunction(Top.in)
  <2>1. /\ ctxs' = Flagged(Activation(Top.in), "return") /\ Pop
        /\ UNCHANGED <<state, current, expired, stray>>
    BY <1>3 DEF Return
  <2>2. /\ Popped /\ \A k \in 1..(Len(stack) - 1) : stack'[k] = stack[k]
        /\ "return" \in Flag
    BY <2>1, PoppedBy DEF Flag
  <2>3. Reflagged
    BY <2>1, <2>2, ReflaggedBy DEF IndInv
  <2>4. Top.own = 0 /\ Top.op # "File"
    BY <1>1, ReturnFrame
  <2>5. Len(stack) \in Nat /\ Len(ctxs) \in 1..Len(ctxs) /\ Len(ctxs) \in Nat
    BY TopFrame, Elements DEF IndInv
  <2>6. ExitsKept(Len(ctxs))
    <3>1. ASSUME NEW i \in 1..Len(ctxs)
          PROVE  "exit" \in ctxs'[i].flags <=> "exit" \in ctxs[i].flags
      <4>1. CASE i \in Activation(Top.in)
        <5>1. ctxs'[i].flags = ctxs[i].flags \cup {"return"}
          BY <2>1, <2>2, <4>1, FlaggedElement DEF IndInv
        <5> QED BY <5>1
      <4>2. CASE i \notin Activation(Top.in)
        <5>1. ctxs'[i].flags = ctxs[i].flags
          BY <2>1, <2>2, <4>2, FlaggedElement DEF IndInv
        <5> QED BY <5>1
      <4> QED BY <4>1, <4>2
    <3> QED BY <3>1 DEF ExitsKept, ExitedIn
  <2>7. CtxInv' /\ StackInv' /\ OwnInv'
    BY <2>2, <2>3, <2>4, CtxReflag, StackPop, OwnPop
  <2>8. JumpInv' /\ ReturnInv'
    BY <1>1, <1>3, <2>1, <2>2, JumpReturn, ReturnedActivation
  <2>9. CoverInv'
    BY <2>1, <2>2, <2>3, <2>4, CoverPop
  <2>10. ExitInv'
    <3>1. ASSUME NEW k \in 1..(Len(stack) - 1)
          PROVE  /\ stack'[k] = stack[k]
                 /\ stack[k].in <= Len(ctxs) /\ stack[k].own <= Len(ctxs)
      <4>1. k \in 1..Len(stack)
        BY <2>5
      <4>2. stack[k].in \in 1..Len(ctxs) /\ stack[k].own \in 0..Len(ctxs)
        BY <4>1 DEF IndInv, OwnInv
      <4> QED BY <2>2, <2>5, <4>2
    <3>2. ExitUp(ctxs') /\ Len(stack') = Len(stack) - 1 /\ stray' = FALSE
      BY <2>1, <2>2, <2>3, <2>6, ExitUpReflagged DEF Popped, IndInv, ExitInv, TypeOK
    <3> QED BY <2>5, <2>6, <3>1, <3>2, ExitPop
  <2>11. TypeOK'
    <3>1. current' \in 1..Len(ctxs')
      BY <2>1, <2>3, Elements DEF Reflagged, IndInv
    <3> QED BY <2>1, <2>2, <2>3, <3>1, NextType DEF Reflagged, Popped, IndInv, TypeOK
  <2> QED BY <2>7, <2>8, <2>9, <2>10, <2>11 DEF IndInv
<1> QED BY <1>2, <1>3

LEMMA NoCallStep == ASSUME IndInv, NoCall PROVE IndInv'
<1>1. Top.op \in Calls /\ Top.at = "where"
  BY DEF NoCall, At
<1>2. CASE Throw
  BY <1>2, ThrowStep
<1>3. CASE Pop /\ UNCHANGED <<state, ctxs, current, expired, stray>>
  <2>1. Top.own = 0 /\ Top.op # "File"
    BY <1>1, TopFrame DEF Shape, Calls
  <2>2. stray' = FALSE
    BY <1>3 DEF IndInv, ExitInv, TypeOK
  <2> QED BY <1>1, <1>3, <2>1, <2>2, PopStep
<1> QED BY <1>2, <1>3 DEF NoCall

\* After an exit() a function of the engine is called only within a call that was
\* open.
LEMMA NotStray ==
    ASSUME IndInv, Top.op = "Runtime", ~Interrupted(Top.in), "exit" \in ctxs[1].flags
    PROVE  OpenAtExit(Len(stack))
<1> DEFINE T == Len(stack)
<1>1. /\ T \in Nat /\ T \in 1..T /\ Top = stack[T] /\ Top.at \notin {"head", "body", "default"}
  BY TopFrame, Elements DEF IndInv, Shape
<1>2. ExitFrame(ctxs, stack, T)
  BY <1>1, ExitInvParts DEF IndInv
<1>3. ContextOf(stack[T]) = Top.in /\ ~ExitedIn(ctxs, Top.in)
  BY <1>1 DEF ContextOf, Interrupted, ExitedIn
<1>4. PICK k \in 1..T : RunsOpenIn(stack, k)
  BY <1>2, <1>3 DEF ExitFrame, ExitedIn
<1>5. k # T /\ k \in 1..(T - 1)
  BY <1>1, <1>4 DEF RunsOpenIn
<1> QED BY <1>4, <1>5 DEF OpenAtExit, RunsOpenIn

LEMMA CallRuntimeStep == ASSUME IndInv, CallRuntime PROVE IndInv'
<1>1. /\ Top.op = "Runtime" /\ Top.at = "arg"
      /\ UNCHANGED <<state, current, expired>>
  BY DEF CallRuntime, At
<1>2. Top.own = 0 /\ Top.op # "File"
  BY <1>1, TopFrame DEF Shape
<1>3. CASE Pop /\ UNCHANGED <<ctxs, stray>>
  <2>1. stray' = FALSE
    BY <1>3 DEF IndInv, ExitInv, TypeOK
  <2> QED BY <1>1, <1>2, <1>3, <2>1, PopStep
<1>4. CASE /\ ~Interrupted(Top.in) /\ Pop /\ UNCHANGED ctxs
           /\ stray' = (stray \/ ("exit" \in ctxs[1].flags /\ ~OpenAtExit(Len(stack))))
  <2>1. stray' = FALSE
    BY <1>1, <1>4, NotStray DEF IndInv, ExitInv, TypeOK
  <2> QED BY <1>1, <1>2, <1>4, <2>1, PopStep
<1>5. CASE Exit(Front(stack), Top.in) /\ UNCHANGED stray
  <2>1. /\ ctxs' = Flagged(Ancestors(Top.in), "exit") /\ "exit" \in Flag
        /\ Len(stack) \in Nat /\ Len(ctxs) \in 1..Len(ctxs)
    BY <1>5, TopFrame, Elements DEF Exit, Flag, IndInv
  <2>2. Reflagged
    BY <2>1, ReflaggedBy DEF IndInv
  <2>3. /\ stack' \in Seq(FrameSet) /\ Len(stack') = Len(stack) - 1
        /\ \A k \in 1..(Len(stack) - 1) :
              stack'[k] = [stack[k] EXCEPT
                  !.open = @ \/ (stack[k].op \in Calls /\ stack[k].at # "body")]
    <3> DEFINE s == Front(stack)
               g(k) == [s[k] EXCEPT !.open = @ \/ (s[k].op \in Calls /\ s[k].at # "body")]
    <3>1. /\ s \in Seq(FrameSet) /\ Len(s) = Len(stack) - 1
          /\ \A k \in 1..(Len(stack) - 1) : s[k] = stack[k]
      BY FrontElements, Elements DEF IndInv, StackInv
    <3>2. stack' = [k \in DOMAIN s |-> g(k)]
      BY <1>5 DEF Exit
    <3> HIDE DEF s
    <3>3. DOMAIN s = 1..Len(s) /\ \A k \in 1..Len(s) : s[k] \in FrameSet
      BY <3>1
    <3>4. \A k \in DOMAIN s : g(k) \in FrameSet
      BY <3>3 DEF FrameSet
    <3> HIDE DEF g
    <3>5. stack' \in [DOMAIN s -> FrameSet]
      BY <3>2, <3>4
    <3>6. stack' \in Seq(FrameSet) /\ Len(stack') = Len(s)
      BY <3>1, <3>5, MapElements
    <3>7. \A k \in 1..(Len(stack) - 1) : stack'[k] = g(k)
      BY <3>1, <3>2, <3>3
    <3> QED BY <3>1, <3>6, <3>7 DEF g
  <2>4. Popped
    <3>1. ASSUME NEW k \in 1..(Len(stack) - 1)
          PROVE  /\ stack'[k].op = stack[k].op /\ stack'[k].in = stack[k].in
                 /\ stack'[k].own = stack[k].own /\ stack'[k].at = stack[k].at
      <4>1. stack[k] \in FrameSet
        BY <2>1, Elements DEF IndInv
      <4> QED BY <2>3, <4>1 DEF FrameSet
    <3> QED BY <2>3, <3>1 DEF Popped
  <2>5. ASSUME NEW i \in 1..Len(ctxs)
        PROVE  /\ ctxs'[i].flags \subseteq ctxs[i].flags \cup {"exit"}
               /\ "return" \in ctxs'[i].flags <=> "return" \in ctxs[i].flags
    <3>1. CASE i \in Ancestors(Top.in)
      <4>1. ctxs'[i].flags = ctxs[i].flags \cup {"exit"}
        BY <2>1, <3>1, FlaggedElement DEF IndInv
      <4> QED BY <4>1
    <3>2. CASE i \notin Ancestors(Top.in)
      <4>1. ctxs'[i].flags = ctxs[i].flags
        BY <2>1, <3>2, FlaggedElement DEF IndInv
      <4> QED BY <4>1
    <3> QED BY <3>1, <3>2
  <2>6. CtxInv' /\ StackInv' /\ OwnInv'
    BY <1>2, <2>2, <2>4, CtxReflag, StackPop, OwnPop
  <2>7. JumpInv'
    <3> SUFFICES ASSUME NEW k \in 1..(Len(stack) - 1)
                 PROVE  \/ stack'[k].own = 0
                        \/ \E l \in 1..Len(stack) :
                            /\ stack'[k].own = stack[l].own
                            /\ ctxs'[stack[l].own].flags
                                    \subseteq ctxs[stack[l].own].flags \cup {"exit"}
      BY <1>1, <2>4, JumpNone DEF Popped
    <3>1. k \in 1..Len(stack) /\ stack'[k].own = stack[k].own
      BY <2>1, <2>4 DEF Popped
    <3>2. stack[k].own \in 0..Len(ctxs)
      BY <3>1 DEF IndInv, OwnInv
    <3>3. stack[k].own # 0 => stack[k].own \in 1..Len(ctxs)
      BY <2>1, <3>2
    <3> QED BY <2>5, <3>1, <3>3
  <2>8. ReturnInv'
    BY <2>2, <2>5, ReturnedSame
  <2>9. CoverInv'
    BY <1>1, <1>2, <2>2, <2>4, CoverPop
  <2>10. ExitInv'
    BY <1>1, <1>5, <2>1, <2>3, ExitExit
  <2>11. TypeOK'
    <3>1. current' \in 1..Len(ctxs')
      BY <1>1, <2>2, Elements DEF Reflagged, IndInv
    <3> QED BY <1>1, <1>5, <2>2, <2>4, <3>1, NextType DEF Reflagged, Popped, IndInv, TypeOK
  <2> QED BY <2>6, <2>7, <2>8, <2>9, <2>10, <2>11 DEF IndInv
<1> QED BY <1>3, <1>4, <1>5 DEF CallRuntime

-----------------------------------------------------------------------------
(* The theorems.                                                           *)

LEMMA Initially == Init => IndInv
<1> SUFFICES ASSUME Init PROVE IndInv
  OBVIOUS
<1> DEFINE c == NewContext("File", 0)
           f == Frame("File", 1, 1, "body")
<1>1. /\ ctxs = <<c>> /\ stack = <<f>> /\ current = 1
      /\ state = "run" /\ expired = FALSE /\ stray = FALSE
  BY DEF Init
<1>2. /\ c.type = "File" /\ c.parent = 0 /\ c.flags = {}
      /\ f.op = "File" /\ f.in = 1 /\ f.own = 1 /\ f.at = "body" /\ f.open = FALSE
      /\ c \in CtxSet /\ f \in FrameSet
  BY DEF NewContext, Frame, CtxSet, FrameSet, Type
<1> HIDE DEF c, f
<1>3. /\ Len(ctxs) = 1 /\ ctxs[1] = c /\ Len(stack) = 1 /\ stack[1] = f
      /\ ctxs \in Seq(CtxSet) /\ stack \in Seq(FrameSet) /\ DOMAIN ctxs = {1}
      /\ 1..Len(ctxs) = {1} /\ 1..Len(stack) = {1}
      /\ 2..Len(ctxs) = {} /\ 2..Len(stack) = {} /\ ctxs # <<>> /\ stack # <<>>
  BY <1>1, <1>2
<1>4. TypeOK
  BY <1>1, <1>3 DEF TypeOK, CtxSet
<1>5. CtxInv
  BY <1>2, <1>3 DEF CtxInv, Parent
<1>6. StackInv
  BY <1>2, <1>3 DEF StackInv, Shape, Local, Calls
<1>7. OwnInv
  BY <1>2, <1>3 DEF OwnInv, Local, Calls
<1>8. JumpInv /\ ReturnInv
  BY <1>2, <1>3 DEF JumpInv, ReturnInv
<1>9. CoverInv
  <2>1. 1 \in Ancestors(1)
    BY DEF Ancestors
  <2> QED BY <1>1, <1>2, <1>3, <2>1 DEF CoverInv, Covered, ContextOf
<1>10. ExitInv
  BY <1>1, <1>2, <1>3 DEF ExitInv, Exited, RunsOpen, ContextOf, Calls
<1> QED BY <1>4, <1>5, <1>6, <1>7, <1>8, <1>9, <1>10 DEF IndInv

LEMMA Inductive == IndInv /\ [Next]_vars => IndInv'
<1> SUFFICES ASSUME IndInv, [Next]_vars PROVE IndInv'
  OBVIOUS
<1>1. CASE UNCHANGED vars
  BY <1>1, QuietStep DEF vars, IndInv, TypeOK
<1>2. CASE Expire
  BY <1>2, QuietStep DEF Expire, IndInv, TypeOK
<1>3. CASE Timeout \/ Fail
  BY <1>3, ThrowStep DEF Timeout, Fail
<1>4. CASE \E type \in Local : EnterBlock(type, "head")
  BY <1>4, EnterBlockStep
<1>5. CASE EnterBlock("Loop", "body")
  BY <1>5, EnterBlockStep DEF Local
<1>6. CASE Iterate \/ EndBlock \/ EndBody
  BY <1>6, IterateStep, EndBlockStep, EndBodyStep
<1>7. CASE Break
  BY <1>7, JumpStep, ThrowStep DEF Break
<1>8. CASE Continue
  BY <1>8, JumpStep, ThrowStep DEF Continue
<1>9. CASE BeginReturn \/ Return
  BY <1>9, BeginReturnStep, ReturnStep
<1>10. CASE EndScript
  BY <1>10, QuietStep DEF EndScript, IndInv, TypeOK
<1>11. CASE \E op \in Calls : BeginCall(op)
  BY <1>11, BeginCallStep
<1>12. CASE FillDefaults \/ NoCall \/ FillActuals \/ EnterBody \/ LeaveCall
  BY <1>12, FillDefaultsStep, NoCallStep, FillActualsStep, EnterBodyStep, LeaveCallStep
<1>13. CASE BeginRuntime \/ CallRuntime
  BY <1>13, BeginRuntimeStep, CallRuntimeStep
<1> QED BY <1>1, <1>2, <1>3, <1>4, <1>5, <1>6, <1>7, <1>8, <1>9, <1>10, <1>11,
           <1>12, <1>13 DEF Next, Step

\* The variables keep their types, whatever the script does and however deep it nests.
THEOREM TypeCorrect == Spec => []TypeOK
<1>1. IndInv => TypeOK
  BY DEF IndInv
<1> QED BY <1>1, Initially, Inductive, PTL DEF Spec

\* No script runs on after exit(): Execute and CallRutimeFunction look at the context,
\* and ExitExecuted flags every context around it, so that what still calls functions
\* of the engine is a call whose operands called exit().
THEOREM ExitCorrect == Spec => []ExitStops
<1>1. IndInv => ExitStops
  BY DEF IndInv, ExitInv, ExitStops
<1> QED BY <1>1, Initially, Inductive, PTL DEF Spec

\* return leaves all of an activation and nothing around it, in every nesting of
\* loops, switches and calls.
THEOREM ReturnCorrect == Spec => []ReturnLeavesActivation
<1>1. IndInv => ReturnLeavesActivation
  <2> SUFFICES ASSUME IndInv, NEW i \in DOMAIN ctxs
               PROVE  /\ \A n \in Activation(i) :
                            "return" \in ctxs[i].flags <=> "return" \in ctxs[n].flags
                      /\ ctxs[i].type = "File" => "return" \notin ctxs[i].flags
    BY DEF ReturnLeavesActivation
  <2> DEFINE S == {n \in Activation(i) :
                        "return" \in ctxs[i].flags <=> "return" \in ctxs[n].flags}
  <2>1. i \in 1..Len(ctxs) /\ Len(ctxs) \in Nat
    BY Elements DEF IndInv
  <2>2. /\ i \in Activation(i) /\ Activation(i) \subseteq 1..i
        /\ \A m \in Activation(i) : ctxs[m].type \in Local => m - 1 \in Activation(i)
    BY <2>1, ActivationClosed DEF IndInv
  <2>3. i \in S /\ S \in SUBSET (1..i)
    BY <2>2
  <2>4. ASSUME NEW m \in S, ctxs[m].type \in Local PROVE m - 1 \in S
    <3>1. m - 1 \in Activation(i) /\ m \in 1..i
      BY <2>2, <2>4
    <3>2. m \in 2..Len(ctxs)
      BY <2>1, <2>2, <3>1
    <3>3. "return" \in ctxs[m].flags <=> "return" \in ctxs[m - 1].flags
      BY <2>4, <3>2 DEF IndInv, ReturnInv
    <3> QED BY <2>4, <3>1, <3>3
  <2>5. Activation(i) \subseteq S
    <3> HIDE DEF S
    <3> QED BY <2>1, <2>3, <2>4, ActivationLeast DEF IndInv
  <2>6. ctxs[i].type = "File" => "return" \notin ctxs[i].flags
    <3>1. i = 1 \/ i \in 2..Len(ctxs)
      BY <2>1
    <3> QED BY <3>1 DEF IndInv, CtxInv, ReturnInv
  <2> QED BY <2>5, <2>6
<1> QED BY <1>1, Initially, Inductive, PTL DEF Spec

\* Nothing is executed inside code that a break, a continue or a return has left.
THEOREM JumpsCorrect == Spec => []JumpsAreImmediate
<1>1. IndInv => JumpsAreImmediate
  <2> SUFFICES ASSUME IndInv, CanExecute, NEW k \in DOMAIN stack, stack[k].own # 0
               PROVE  ctxs[stack[k].own].flags \subseteq {"exit"}
    BY DEF JumpsAreImmediate
  <2>1. k \in 1..Len(stack) /\ ~Interrupted(Here)
    BY Elements DEF IndInv, CanExecute
  <2> QED BY <2>1, NothingLeft DEF Left
<1> QED BY <1>1, Initially, Inductive, PTL DEF Spec

=============================================================================
