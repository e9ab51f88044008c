-------------------------- MODULE ScriptCache_proofs --------------------------
(***************************************************************************)
(* Proofs about ScriptCache, for any files, sizes and number of executors, *)
(* and about the code cache the scripts come from.                         *)
(***************************************************************************)
EXTENDS ScriptCache, ScriptSource, FiniteSetTheorems, SequenceTheorems, TLAPS

LEMMA AlignAbove ==
    ASSUME NEW a \in Nat
    PROVE  AlignInto(a) \in Nat /\ a < AlignInto(a) /\ AlignInto(a) <= a + 1000
BY DEF AlignInto

\* Sizes of files as numbers.
LEMMA Sizes ==
    ASSUME NEW n \in Name
    PROVE  /\ InsKey[n] \in Nat /\ 1 <= InsKey[n] /\ InsKey[n] <= MaxKey
           /\ ConstKey[n] \in Nat /\ 1 <= ConstKey[n] /\ ConstKey[n] <= InsKey[n]
           /\ MaxKey \in Nat /\ SharedBase \in Nat
           /\ Step \in Nat /\ Step = MaxKey + 1001
BY KeyAssumption DEF Step

LEMMA StepNext ==
    ASSUME NEW k \in Nat
    PROVE  /\ k * Step \in Nat /\ (k + 1) * Step = k * Step + Step
<1>1. Step \in Nat
  BY KeyAssumption DEF Step
<1> QED BY <1>1

LEMMA StepMonotone ==
    ASSUME NEW k \in Nat, NEW n \in Nat, k <= n
    PROVE  k * Step <= n * Step
<1>1. Step \in Nat
  BY KeyAssumption DEF Step
<1>2. PICK d \in Nat : n = k + d
  <2>1. n - k \in Nat /\ n = k + (n - k)
    OBVIOUS
  <2> QED BY <2>1
<1>3. n * Step = k * Step + d * Step /\ d * Step \in Nat /\ k * Step \in Nat
  BY <1>1, <1>2
<1> QED BY <1>3

\* A list that holds each name once is no longer than there are names.
LEMMA FewScripts ==
    ASSUME NEW m \in Seq(Script),
           \A i, j \in DOMAIN m : m[i].name = m[j].name => i = j
    PROVE  Len(m) <= Cardinality(Name) /\ Cardinality(Name) \in Nat
<1> DEFINE f == [i \in 1..Len(m) |-> m[i].name]
<1>0. Len(m) \in Nat /\ DOMAIN m = 1..Len(m) /\ \A i \in 1..Len(m) : m[i] \in Script
  OBVIOUS
<1>1. f \in [1..Len(m) -> Name]
  BY <1>0 DEF Script
<1>2. IsFiniteSet(1..Len(m)) /\ Cardinality(1..Len(m)) = Len(m)
  BY <1>0, FS_Interval
<1>3. IsFiniteSet(Name) /\ Cardinality(Name) \in Nat
  BY NameAssumption, FS_CardinalityType
<1>4. ~(Cardinality(Name) < Cardinality(1..Len(m)))
  <2> SUFFICES ASSUME Cardinality(Name) < Cardinality(1..Len(m)) PROVE FALSE
    OBVIOUS
  <2>1. \E x, y \in 1..Len(m) : x # y /\ f[x] = f[y]
    <3> HIDE DEF f
    <3> QED BY <1>1, <1>2, <1>3, FS_PigeonHole
  <2> QED BY <1>0, <2>1
<1> QED BY <1>2, <1>3, <1>4

\* A list of scripts extended by one.
LEMMA AppendScript ==
    ASSUME NEW m \in Seq(Script), NEW s \in Script
    PROVE  /\ Append(m, s) \in Seq(Script)
           /\ DOMAIN Append(m, s) = 1..(Len(m) + 1) /\ DOMAIN m = 1..Len(m)
           /\ Len(m) \in Nat
           /\ \A i \in 1..Len(m) : Append(m, s)[i] = m[i]
           /\ Append(m, s)[Len(m) + 1] = s
           /\ Range(Append(m, s)) = Range(m) \cup {s}
<1>1. /\ Append(m, s) \in Seq(Script)
      /\ DOMAIN Append(m, s) = 1..(Len(m) + 1) /\ DOMAIN m = 1..Len(m)
      /\ Len(m) \in Nat
      /\ \A i \in 1..Len(m) : Append(m, s)[i] = m[i]
      /\ Append(m, s)[Len(m) + 1] = s
  BY AppendProperties
<1>2. Range(Append(m, s)) = Range(m) \cup {s}
  BY <1>1 DEF Range
<1> QED BY <1>1, <1>2

-----------------------------------------------------------------------------
(* Types.                                                                  *)

\* The private copy of a load is a script, a little behind the last one.
LEMMA CopyType ==
    ASSUME TypeOK, NEW e \in Executor
    PROVE  /\ PrivateCopy(e) \in Script /\ PrivateCopy(e).name = target[e]
           /\ mScripts[e] = <<>> => PrivateCopy(e).ins = 0 /\ PrivateCopy(e).const = 0
           /\ \A last \in Script :
                 mScripts[e] # <<>> /\ last = mScripts[e][Len(mScripts[e])] =>
                    /\ NextIns(last) < PrivateCopy(e).ins
                    /\ NextConst(last) < PrivateCopy(e).const
                    /\ PrivateCopy(e).ins <= last.ins + Step
                    /\ PrivateCopy(e).const <= last.const + Step
<1>1. target[e] \in Name /\ mScripts[e] \in Seq(Script)
  BY DEF TypeOK
<1>2. CASE mScripts[e] = <<>>
  BY <1>1, <1>2 DEF PrivateCopy, Script
<1>3. CASE mScripts[e] # <<>>
  <2> DEFINE last == mScripts[e][Len(mScripts[e])]
  <2>1. last \in Script
    BY <1>1, <1>3
  <2>2. /\ last.name \in Name /\ last.ins \in Nat /\ last.const \in Nat
    BY <2>1 DEF Script
  <2>3. /\ NextIns(last) \in Nat /\ NextConst(last) \in Nat
        /\ NextIns(last) <= last.ins + MaxKey /\ NextConst(last) <= last.const + MaxKey
    <3> HIDE DEF last
    <3>1. /\ InsKey[last.name] \in Nat /\ InsKey[last.name] <= MaxKey
          /\ ConstKey[last.name] \in Nat /\ ConstKey[last.name] <= MaxKey /\ MaxKey \in Nat
      BY <2>2, Sizes
    <3> QED BY <2>2, <3>1 DEF NextIns, NextConst
  <2>4. PrivateCopy(e) = [name |-> target[e], ins |-> AlignInto(NextIns(last) + 1),
                          const |-> AlignInto(NextConst(last) + 1)]
    BY <1>3 DEF PrivateCopy
  <2> HIDE DEF last
  <2>5. /\ AlignInto(NextIns(last) + 1) \in Nat /\ AlignInto(NextConst(last) + 1) \in Nat
        /\ NextIns(last) < AlignInto(NextIns(last) + 1)
        /\ NextConst(last) < AlignInto(NextConst(last) + 1)
        /\ AlignInto(NextIns(last) + 1) <= NextIns(last) + 1001
        /\ AlignInto(NextConst(last) + 1) <= NextConst(last) + 1001
    BY <2>3, AlignAbove
  <2>6. PrivateCopy(e) \in Script /\ PrivateCopy(e).name = target[e]
    BY <1>1, <2>4, <2>5 DEF Script
  <2>7. /\ PrivateCopy(e).ins <= last.ins + Step
        /\ PrivateCopy(e).const <= last.const + Step
    BY <2>2, <2>3, <2>4, <2>5, Sizes
  <2>8. last = mScripts[e][Len(mScripts[e])]
    BY DEF last
  <2> QED BY <1>3, <2>4, <2>5, <2>6, <2>7, <2>8
<1> QED BY <1>2, <1>3

LEMMA EnteredType ==
    ASSUME TypeOK, NEW e \in Executor, Entered(e)
    PROVE  /\ stack' \in [Executor -> Seq(Seq(Name))]
           /\ pc' \in [Executor -> {"idle", "lookup", "parse", "run"}]
<1>1. Requires[target[e]] \in Seq(Name) /\ <<Nasl>> \in Seq(Name)
  BY NameAssumption DEF TypeOK
<1>2. <<Nasl>> \o Requires[target[e]] \in Seq(Name)
  BY <1>1, ConcatProperties
<1>3. stack[e] \in Seq(Seq(Name))
  BY DEF TypeOK
<1>4. Append(stack[e], IF stack[e] = <<>> THEN <<Nasl>> \o Requires[target[e]]
                       ELSE Requires[target[e]]) \in Seq(Seq(Name))
  BY <1>1, <1>2, <1>3
<1>5. stack' \in [Executor -> Seq(Seq(Name))]
  BY <1>4 DEF Entered, TypeOK
<1>6. pc' \in [Executor -> {"idle", "lookup", "parse", "run"}]
  BY DEF Entered, TypeOK
<1> QED BY <1>5, <1>6

LEMMA TypeStep ==
    ASSUME TypeOK, [Next]_vars PROVE TypeOK'
<1>1. ASSUME NEW e \in Executor, Execute(e) PROVE TypeOK'
  BY <1>1, NameAssumption DEF Execute, TypeOK, cacheVars
<1>2. ASSUME NEW e \in Executor, CacheHit(e) PROVE TypeOK'
  <2>1. mSharedScripts' \in [Executor -> SUBSET Script]
    BY <1>2 DEF CacheHit, TypeOK
  <2>2. stack' \in [Executor -> Seq(Seq(Name))]
        /\ pc' \in [Executor -> {"idle", "lookup", "parse", "run"}]
    BY <1>2, EnteredType DEF CacheHit
  <2> QED BY <1>2, <2>1, <2>2 DEF CacheHit, TypeOK, cacheVars
<1>3. ASSUME NEW e \in Executor, CacheMiss(e) PROVE TypeOK'
  BY <1>3 DEF CacheMiss, TypeOK, cacheVars
<1>4. ASSUME NEW e \in Executor, Publish(e) PROVE TypeOK'
  <2> DEFINE s == [name |-> target[e], ins |-> mNextInsKey, const |-> mNextInsKey]
  <2>1. s \in Script
    BY DEF TypeOK, Script
  <2>2. NextIns(s) + 1 \in Nat
    BY <2>1, Sizes DEF Script, NextIns
  <2>3. /\ mCache' = mCache \cup {s}
        /\ mNextInsKey' = AlignInto(NextIns(s) + 1)
        /\ mSharedScripts' = [mSharedScripts EXCEPT ![e] = @ \cup {s}]
    BY <1>4 DEF Publish
  <2> HIDE DEF s
  <2>4. mNextInsKey' \in Nat
    BY <2>2, <2>3, AlignAbove
  <2>5. mSharedScripts' \in [Executor -> SUBSET Script] /\ mCache' \in SUBSET Script
    BY <2>1, <2>3 DEF TypeOK
  <2>6. stack' \in [Executor -> Seq(Seq(Name))]
        /\ pc' \in [Executor -> {"idle", "lookup", "parse", "run"}]
    BY <1>4, EnteredType DEF Publish
  <2> QED BY <1>4, <2>4, <2>5, <2>6 DEF Publish, TypeOK
<1>5. ASSUME NEW e \in Executor, KeepPrivate(e) PROVE TypeOK'
  <2>1. Append(mScripts[e], PrivateCopy(e)) \in Seq(Script)
    BY CopyType DEF TypeOK
  <2>2. mScripts' \in [Executor -> Seq(Script)]
    BY <1>5, <2>1 DEF KeepPrivate, TypeOK
  <2>3. stack' \in [Executor -> Seq(Seq(Name))]
        /\ pc' \in [Executor -> {"idle", "lookup", "parse", "run"}]
    BY <1>5, EnteredType DEF KeepPrivate
  <2> QED BY <1>5, <2>2, <2>3 DEF KeepPrivate, TypeOK, cacheVars
<1>6. ASSUME NEW e \in Executor, RequireScript(e) PROVE TypeOK'
  <2> DEFINE top == Len(stack[e])
             rest == Tail(stack[e][top])
             name == Head(stack[e][top])
  <2>1. stack[e] \in Seq(Seq(Name)) /\ stack[e] # <<>> /\ stack[e][top] # <<>>
    BY <1>6 DEF RequireScript, TypeOK
  <2>2. top \in 1..Len(stack[e]) /\ stack[e][top] \in Seq(Name)
    BY <2>1
  <2>3. rest \in Seq(Name) /\ name \in Name
    BY <2>1, <2>2, HeadTailProperties
  <2>4. [stack[e] EXCEPT ![top] = rest] \in Seq(Seq(Name))
    BY <2>1, <2>2, <2>3, ExceptSeq
  <2>5. stack' = [stack EXCEPT ![e] = [stack[e] EXCEPT ![top] = rest]]
    BY <1>6 DEF RequireScript
  <2>6. stack' \in [Executor -> Seq(Seq(Name))]
    BY <2>4, <2>5 DEF TypeOK
  <2>7. target' \in [Executor -> Name]
        /\ pc' \in [Executor -> {"idle", "lookup", "parse", "run"}]
    BY <1>6, <2>3 DEF RequireScript, TypeOK
  <2> QED BY <1>6, <2>6, <2>7 DEF RequireScript, TypeOK, cacheVars
<1>7. ASSUME NEW e \in Executor, EntryEnd(e) PROVE TypeOK'
  <2>1. stack[e] \in Seq(Seq(Name))
    BY DEF TypeOK
  <2>2. SubSeq(stack[e], 1, Len(stack[e]) - 1) \in Seq(Seq(Name))
    BY <2>1, SubSeqProperties
  <2>3. stack' \in [Executor -> Seq(Seq(Name))]
    BY <1>7, <2>2 DEF EntryEnd, TypeOK
  <2>4. pc' \in [Executor -> {"idle", "lookup", "parse", "run"}]
    BY <1>7 DEF EntryEnd, TypeOK
  <2> QED BY <1>7, <2>3, <2>4 DEF EntryEnd, TypeOK, cacheVars
<1>8. ASSUME NEW e \in Executor, Fail(e) PROVE TypeOK'
  BY <1>8 DEF Fail, TypeOK, cacheVars
<1>9. CASE UNCHANGED vars
  BY <1>9 DEF vars, TypeOK, cacheVars
<1> QED BY <1>1, <1>2, <1>3, <1>4, <1>5, <1>6, <1>7, <1>8, <1>9 DEF Next, Advance

-----------------------------------------------------------------------------
(* The invariant.                                                          *)

LEMMA InvInit == ASSUME Init PROVE IndInv
<1>1. TypeOK
  <2>1. stack \in [Executor -> Seq(Seq(Name))] /\ mScripts \in [Executor -> Seq(Script)]
    BY DEF Init
  <2>2. mSharedScripts \in [Executor -> SUBSET Script] /\ runs \in [Executor -> Nat]
        /\ pc \in [Executor -> {"idle", "lookup", "parse", "run"}]
    BY DEF Init
  <2>3. target \in [Executor -> Name] /\ mNextInsKey \in Nat /\ mCache \in SUBSET Script
    BY NameAssumption, KeyAssumption DEF Init
  <2> QED BY <2>1, <2>2, <2>3 DEF TypeOK
<1>2. CacheInv
  BY KeyAssumption DEF Init, CacheInv
<1>3. PrivateInv /\ ListInv /\ PrivateMeansLost
  BY DEF Init, PrivateInv, ListInv, PrivateMeansLost, Range
<1> QED BY <1>1, <1>2, <1>3 DEF IndInv

\* A published script lies above every earlier one.
LEMMA CacheStep ==
    ASSUME TypeOK, CacheInv, [Next]_vars PROVE CacheInv' /\ mCache \subseteq mCache'
<1>1. CASE UNCHANGED cacheVars
  BY <1>1 DEF CacheInv, cacheVars, Disjoint, NextIns, NextConst
<1>2. ASSUME NEW e \in Executor, Publish(e) PROVE CacheInv' /\ mCache \subseteq mCache'
  <2> DEFINE s == [name |-> target[e], ins |-> mNextInsKey, const |-> mNextInsKey]
  <2>1. /\ mCache' = mCache \cup {s} /\ mNextInsKey' = AlignInto(NextIns(s) + 1)
        /\ s.name \in Known /\ \A t \in mCache : t.name # s.name
    BY <1>2 DEF Publish, Cacheable
  <2>2. /\ s.name \in Name /\ s.ins = mNextInsKey /\ s.const = mNextInsKey
        /\ mNextInsKey \in Nat
    BY DEF TypeOK
  <2> HIDE DEF s
  <2>3. /\ NextIns(s) \in Nat /\ NextConst(s) <= NextIns(s) /\ NextConst(s) \in Nat
        /\ s.ins <= NextIns(s)
    BY <2>2, Sizes DEF NextIns, NextConst
  <2>4. mNextInsKey' \in Nat /\ NextIns(s) <= mNextInsKey' /\ mNextInsKey <= mNextInsKey'
    <3>1. NextIns(s) + 1 < AlignInto(NextIns(s) + 1) /\ AlignInto(NextIns(s) + 1) \in Nat
      BY <2>3, AlignAbove
    <3> QED BY <2>1, <2>2, <2>3, <3>1
  <2>5. \A t \in mCache :
           /\ t.const = t.ins /\ t.ins \in Nat /\ SharedBase <= t.ins
           /\ NextIns(t) <= mNextInsKey /\ NextIns(t) \in Nat
           /\ NextConst(t) <= NextIns(t) /\ NextConst(t) \in Nat /\ t.name \in Known
    <3> TAKE t \in mCache
    <3>1. t.name \in Name /\ t.ins \in Nat /\ t.const \in Nat
      BY DEF TypeOK, Script
    <3> QED BY <3>1, Sizes DEF CacheInv, NextIns, NextConst
  <2>6. SharedBase \in Nat /\ SharedBase <= mNextInsKey
    BY KeyAssumption DEF CacheInv
  <2>7. \A t \in mCache : Disjoint(s, t) /\ Disjoint(t, s)
    BY <2>2, <2>3, <2>5 DEF Disjoint
  <2>8. mNextInsKey' >= SharedBase
    BY <2>2, <2>4, <2>6
  <2>9. \A t \in mCache' : /\ t.name \in Known /\ t.const = t.ins /\ SharedBase <= t.ins
                           /\ NextIns(t) <= mNextInsKey'
    BY <2>1, <2>2, <2>3, <2>4, <2>5, <2>6
  <2>10. \A t, u \in mCache' : t # u => t.name # u.name /\ Disjoint(t, u)
    <3> TAKE t, u \in mCache'
    <3> HAVE t # u
    <3>1. CASE t = s \/ u = s
      BY <2>1, <2>7, <3>1
    <3>2. CASE t # s /\ u # s
      BY <2>1, <3>2 DEF CacheInv
    <3> QED BY <3>1, <3>2
  <2>11. \A t, u : Disjoint(t, u)' = Disjoint(t, u) /\ NextIns(t)' = NextIns(t)
    BY DEF Disjoint, NextIns, NextConst
  <2> QED BY <2>1, <2>8, <2>9, <2>10 DEF CacheInv, Disjoint, NextIns, NextConst
<1>3. ASSUME NEW e \in Executor, ~Publish(e), Execute(e) \/ Advance(e) \/ Fail(e)
      PROVE  UNCHANGED cacheVars
  BY <1>3 DEF Execute, Advance, Fail, CacheHit, CacheMiss, KeepPrivate, RequireScript, EntryEnd
<1>4. UNCHANGED vars => UNCHANGED cacheVars
  BY DEF vars
<1>5. cacheVars = cacheVars' => mCache \subseteq mCache'
  BY DEF cacheVars
<1> QED BY <1>1, <1>2, <1>3, <1>4, <1>5 DEF Next

\* The private scripts of one executor, for PrivateInv.
LEMMA PrivateStep ==
    ASSUME TypeOK, PrivateInv, [Next]_vars PROVE PrivateInv'
<1>1. CASE UNCHANGED mScripts
  BY <1>1 DEF PrivateInv, NextIns, NextConst
<1>2. ASSUME NEW e \in Executor, Execute(e) PROVE PrivateInv'
  <2> SUFFICES ASSUME NEW f \in Executor
               PROVE  mScripts'[f] = <<>> \/ mScripts'[f] = mScripts[f]
    BY DEF PrivateInv, NextIns, NextConst
  <2> QED BY <1>2 DEF Execute, TypeOK
<1>3. ASSUME NEW e \in Executor, KeepPrivate(e) PROVE PrivateInv'
  <2> DEFINE m == mScripts[e]
             s == PrivateCopy(e)
  <2>1. mScripts' = [mScripts EXCEPT ![e] = Append(m, s)] /\ m \in Seq(Script) /\ s \in Script
    BY <1>3, CopyType DEF KeepPrivate, TypeOK
  <2>2. \A f \in Executor : f # e => mScripts'[f] = mScripts[f]
    BY <2>1 DEF TypeOK
  <2>3. mScripts'[e] = Append(m, s)
    BY <2>1 DEF TypeOK
  <2>4. /\ \A i \in DOMAIN m : m[i].ins <= (i - 1) * Step /\ m[i].const <= (i - 1) * Step
        /\ \A i, j \in DOMAIN m : i < j => NextIns(m[i]) <= m[j].ins
                                           /\ NextConst(m[i]) <= m[j].const
    BY DEF PrivateInv
  <2>5. \A i \in DOMAIN m : /\ m[i] \in Script /\ m[i].ins \in Nat /\ m[i].const \in Nat
                            /\ NextIns(m[i]) \in Nat /\ NextConst(m[i]) \in Nat
                            /\ m[i].ins <= NextIns(m[i]) /\ m[i].const <= NextConst(m[i])
    <3> TAKE i \in DOMAIN m
    <3>1. m[i] \in Script
      BY <2>1
    <3> HIDE DEF m
    <3>2. m[i].name \in Name /\ m[i].ins \in Nat /\ m[i].const \in Nat
      BY <3>1 DEF Script
    <3> QED BY <3>1, <3>2, Sizes DEF NextIns, NextConst
  <2>6. s.ins \in Nat /\ s.const \in Nat
    BY <2>1 DEF Script
  <2>7. m = <<>> => s.ins = 0 /\ s.const = 0
    BY CopyType
  <2>8. m # <<>> => /\ NextIns(m[Len(m)]) < s.ins /\ NextConst(m[Len(m)]) < s.const
                    /\ s.ins <= m[Len(m)].ins + Step /\ s.const <= m[Len(m)].const + Step
                    /\ Len(m) \in DOMAIN m
    <3>1. m # <<>> => Len(m) \in DOMAIN m /\ m[Len(m)] \in Script
      BY <2>1
    <3> QED BY <3>1, CopyType
  <2> HIDE DEF m, s
  <2>9. s.ins <= Len(m) * Step /\ s.const <= Len(m) * Step
    <3>1. CASE m = <<>>
      BY <2>7, <3>1, KeyAssumption DEF Step
    <3>2. CASE m # <<>>
      <4>1. Len(m) \in Nat /\ Len(m) - 1 \in Nat /\ Len(m) = (Len(m) - 1) + 1
        BY <2>1, <3>2
      <4>2. /\ Len(m) * Step = (Len(m) - 1) * Step + Step
            /\ (Len(m) - 1) * Step \in Nat
        BY <4>1, StepNext
      <4>3. /\ m[Len(m)].ins <= (Len(m) - 1) * Step /\ m[Len(m)].const <= (Len(m) - 1) * Step
            /\ m[Len(m)].ins \in Nat /\ m[Len(m)].const \in Nat
        BY <2>4, <2>5, <2>8, <3>2
      <4>4. Step \in Nat
        BY KeyAssumption DEF Step
      <4> HIDE DEF Step
      <4> QED BY <2>6, <2>8, <3>2, <4>2, <4>3, <4>4
    <3> QED BY <3>1, <3>2
  <2>10. \A i \in DOMAIN m : NextIns(m[i]) <= s.ins /\ NextConst(m[i]) <= s.const
    <3> TAKE i \in DOMAIN m
    <3>1. m # <<>> /\ i \in 1..Len(m) /\ Len(m) \in Nat /\ Len(m) \in DOMAIN m
      BY <2>1
    <3>2. CASE i = Len(m)
      BY <2>5, <2>6, <2>8, <3>1, <3>2
    <3>3. CASE i < Len(m)
      <4>1. NextIns(m[i]) <= m[Len(m)].ins /\ NextConst(m[i]) <= m[Len(m)].const
        BY <2>4, <3>1, <3>3
      <4> QED BY <2>5, <2>6, <2>8, <3>1, <4>1
    <3> QED BY <3>1, <3>2, <3>3
  <2>11. /\ DOMAIN Append(m, s) = 1..(Len(m) + 1) /\ DOMAIN m = 1..Len(m) /\ Len(m) \in Nat
         /\ \A i \in 1..Len(m) : Append(m, s)[i] = m[i]
         /\ Append(m, s)[Len(m) + 1] = s
    BY <2>1, AppendScript
  <2> DEFINE n == Append(m, s)
  <2>12. \A i \in DOMAIN n : n[i].ins <= (i - 1) * Step /\ n[i].const <= (i - 1) * Step
    <3> TAKE i \in DOMAIN n
    <3>1. CASE i \in DOMAIN m
      BY <2>4, <2>11, <3>1
    <3>2. CASE i = Len(m) + 1
      <4>1. i - 1 = Len(m) /\ n[i] = s
        BY <2>11, <3>2
      <4> QED BY <2>9, <4>1
    <3> QED BY <2>11, <3>1, <3>2
  <2>13. \A i, j \in DOMAIN n : i < j => NextIns(n[i]) <= n[j].ins
                                         /\ NextConst(n[i]) <= n[j].const
    <3> TAKE i, j \in DOMAIN n
    <3> HAVE i < j
    <3>1. i \in DOMAIN m /\ n[i] = m[i]
      BY <2>11
    <3>2. CASE j \in DOMAIN m
      BY <2>4, <2>11, <3>1, <3>2
    <3>3. CASE j = Len(m) + 1
      BY <2>10, <2>11, <3>1, <3>3
    <3> QED BY <2>11, <3>2, <3>3
  <2> SUFFICES ASSUME NEW f \in Executor
               PROVE  /\ \A i \in DOMAIN mScripts'[f] :
                            /\ mScripts'[f][i].ins <= (i - 1) * Step
                            /\ mScripts'[f][i].const <= (i - 1) * Step
                      /\ \A i, j \in DOMAIN mScripts'[f] : i < j =>
                            /\ NextIns(mScripts'[f][i]) <= mScripts'[f][j].ins
                            /\ NextConst(mScripts'[f][i]) <= mScripts'[f][j].const
    BY DEF PrivateInv, NextIns, NextConst
  <2>14. CASE f = e
    BY <2>3, <2>12, <2>13, <2>14
  <2>15. CASE f # e
    BY <2>2, <2>15 DEF PrivateInv
  <2> QED BY <2>14, <2>15
<1>4. ASSUME NEW e \in Executor, ~KeepPrivate(e), Advance(e) \/ Fail(e)
      PROVE  UNCHANGED mScripts
  BY <1>4 DEF Advance, Fail, CacheHit, CacheMiss, Publish, RequireScript, EntryEnd
<1>5. UNCHANGED vars => UNCHANGED mScripts
  BY DEF vars
<1> QED BY <1>1, <1>2, <1>3, <1>4, <1>5 DEF Next

\* What ListInv says of one executor.
ListOk(e) ==
    /\ mSharedScripts[e] \subseteq mCache
    /\ \A i, j \in DOMAIN mScripts[e] : mScripts[e][i].name = mScripts[e][j].name => i = j
    /\ \A s \in mSharedScripts[e], t \in Range(mScripts[e]) : s.name # t.name
    /\ pc[e] \in {"lookup", "parse"} => target[e] \notin Loaded(e)

\* An executor whose lists a step leaves alone keeps ListOk, unless the step
\* begins a load.
LEMMA ListKept ==
    ASSUME NEW e, ListOk(e), mCache \subseteq mCache',
           mScripts'[e] = mScripts[e], mSharedScripts'[e] = mSharedScripts[e],
           pc'[e] \in {"lookup", "parse"} => target'[e] \notin Loaded(e)
    PROVE  ListOk(e)'
BY DEF ListOk, Loaded

\* An executor that adds the target of its load to the shared scripts.
LEMMA ListShared ==
    ASSUME NEW e, ListOk(e), mCache \subseteq mCache', NEW s \in mCache',
           mScripts'[e] = mScripts[e], mSharedScripts'[e] = mSharedScripts[e] \cup {s},
           s.name \notin Loaded(e), pc'[e] = "run"
    PROVE  ListOk(e)'
BY DEF ListOk, Loaded

LEMMA ListPrivate ==
    ASSUME TypeOK, NEW e \in Executor, ListOk(e), KeepPrivate(e)
    PROVE  ListOk(e)'
<1> DEFINE m == mScripts[e]
           s == PrivateCopy(e)
<1>1. /\ mScripts'[e] = Append(m, s) /\ mSharedScripts' = mSharedScripts /\ mCache' = mCache
      /\ pc'[e] = "run"
  BY DEF KeepPrivate, Entered, TypeOK, cacheVars
<1>2. m \in Seq(Script) /\ s \in Script /\ s.name = target[e]
  BY CopyType DEF TypeOK
<1>3. target[e] \notin Loaded(e)
  BY DEF ListOk, KeepPrivate
<1> HIDE DEF s
<1>4. /\ DOMAIN Append(m, s) = 1..(Len(m) + 1) /\ DOMAIN m = 1..Len(m) /\ Len(m) \in Nat
      /\ \A i \in 1..Len(m) : Append(m, s)[i] = m[i]
      /\ Append(m, s)[Len(m) + 1] = s
      /\ Range(Append(m, s)) = Range(m) \cup {s}
  BY <1>2, AppendScript
<1>5. \A i \in DOMAIN m : m[i].name # s.name
  BY <1>2, <1>3 DEF Loaded, Range
<1>6. \A t \in mSharedScripts[e] : t.name # s.name
  BY <1>2, <1>3 DEF Loaded
<1>7. \A i, j \in DOMAIN mScripts'[e] : mScripts'[e][i].name = mScripts'[e][j].name => i = j
  <2> DEFINE n == Append(m, s)
  <2> SUFFICES ASSUME NEW i \in DOMAIN n, NEW j \in DOMAIN n, n[i].name = n[j].name
               PROVE  i = j
    BY <1>1
  <2>1. CASE i \in DOMAIN m /\ j \in DOMAIN m
    BY <1>4, <2>1 DEF ListOk
  <2>2. CASE i = Len(m) + 1 /\ j \in DOMAIN m
    BY <1>4, <1>5, <2>2
  <2>3. CASE j = Len(m) + 1 /\ i \in DOMAIN m
    BY <1>4, <1>5, <2>3
  <2> QED BY <1>4, <2>1, <2>2, <2>3
<1>8. \A u \in mSharedScripts'[e], t \in Range(mScripts'[e]) : u.name # t.name
  BY <1>1, <1>4, <1>6 DEF ListOk
<1> QED BY <1>1, <1>7, <1>8 DEF ListOk

LEMMA ListStep ==
    ASSUME TypeOK, CacheInv, ListInv, [Next]_vars PROVE ListInv'
<1>1. mCache \subseteq mCache'
  BY CacheStep
<1> SUFFICES ASSUME NEW f \in Executor PROVE ListOk(f)'
  BY DEF ListInv, ListOk
<1>2. ListOk(f)
  BY DEF ListInv, ListOk
<1>3. CASE UNCHANGED vars
  BY <1>1, <1>2, <1>3, ListKept DEF vars, ListOk
<1>4. ASSUME NEW e \in Executor, Execute(e) \/ Advance(e) \/ Fail(e), f # e
      PROVE  ListOk(f)'
  <2>1. /\ mScripts'[f] = mScripts[f] /\ mSharedScripts'[f] = mSharedScripts[f]
        /\ pc'[f] = pc[f] /\ target'[f] = target[f]
    BY <1>4 DEF Execute, Advance, Fail, CacheHit, CacheMiss, Publish, KeepPrivate,
                RequireScript, EntryEnd, Entered, TypeOK
  <2> QED BY <1>1, <1>2, <2>1, ListKept DEF ListOk
<1>5. CASE Execute(f)
  <2>1. mScripts'[f] = <<>> /\ mSharedScripts'[f] = {}
    BY <1>5 DEF Execute, TypeOK
  <2> QED BY <2>1 DEF ListOk, Loaded, Range
<1>6. CASE CacheHit(f)
  <2>1. PICK s \in mCache : /\ s.name = target[f]
                            /\ mSharedScripts'[f] = mSharedScripts[f] \cup {s}
    BY <1>6 DEF CacheHit, TypeOK
  <2>2. mScripts'[f] = mScripts[f] /\ pc'[f] = "run" /\ target[f] \notin Loaded(f)
    BY <1>2, <1>6 DEF CacheHit, Entered, ListOk, TypeOK
  <2>3. s \in mCache'
    BY <1>1
  <2> QED BY <1>1, <1>2, <2>1, <2>2, <2>3, ListShared
<1>7. CASE Publish(f)
  <2> DEFINE s == [name |-> target[f], ins |-> mNextInsKey, const |-> mNextInsKey]
  <2>1. s \in mCache' /\ mSharedScripts'[f] = mSharedScripts[f] \cup {s}
    BY <1>7 DEF Publish, TypeOK
  <2>2. mScripts'[f] = mScripts[f] /\ pc'[f] = "run" /\ target[f] \notin Loaded(f)
    BY <1>2, <1>7 DEF Publish, Entered, ListOk, TypeOK
  <2>3. s.name = target[f]
    OBVIOUS
  <2> HIDE DEF s
  <2> QED BY <1>1, <1>2, <2>1, <2>2, <2>3, ListShared
<1>8. CASE KeepPrivate(f)
  BY <1>2, <1>8, ListPrivate
<1>9. CASE CacheMiss(f)
  <2>1. /\ mScripts' = mScripts /\ mSharedScripts' = mSharedScripts
        /\ target' = target /\ pc[f] = "lookup"
    BY <1>9 DEF CacheMiss
  <2> QED BY <1>1, <1>2, <2>1, ListKept DEF ListOk
<1>10. CASE RequireScript(f)
  <2>1. mScripts' = mScripts /\ mSharedScripts' = mSharedScripts
    BY <1>10 DEF RequireScript
  <2>2. pc'[f] \in {"lookup", "parse"} => target'[f] \notin Loaded(f)
    BY <1>10 DEF RequireScript, TypeOK
  <2> QED BY <1>1, <1>2, <2>1, <2>2, ListKept
<1>11. CASE EntryEnd(f) \/ Fail(f)
  <2>1. mScripts' = mScripts /\ mSharedScripts' = mSharedScripts
    BY <1>11 DEF EntryEnd, Fail
  <2>2. pc'[f] \in {"idle", "run"}
    BY <1>11 DEF EntryEnd, Fail, TypeOK
  <2> QED BY <1>1, <1>2, <2>1, <2>2, ListKept
<1> QED BY <1>3, <1>4, <1>5, <1>6, <1>7, <1>8, <1>9, <1>10, <1>11 DEF Next, Advance

LEMMA LostStep ==
    ASSUME TypeOK, CacheInv, PrivateMeansLost, [Next]_vars PROVE PrivateMeansLost'
<1>1. mCache \subseteq mCache'
  BY CacheStep
<1> SUFFICES ASSUME NEW f \in Executor, NEW s \in Range(mScripts'[f]), s.name \in Known
             PROVE  s.name \in {t.name : t \in mCache'}
  BY DEF PrivateMeansLost
<1>2. CASE s \in Range(mScripts[f])
  BY <1>1, <1>2 DEF PrivateMeansLost
<1>3. CASE s \notin Range(mScripts[f])
  <2>1. mScripts'[f] # mScripts[f]
    BY <1>3
  <2>2. ~UNCHANGED mScripts
    BY <2>1
  <2>3. PICK e \in Executor : Execute(e) \/ KeepPrivate(e)
    BY <2>2 DEF Next, vars, Advance, Fail, CacheHit, CacheMiss, Publish, RequireScript, EntryEnd
  <2>4. e = f
    BY <2>1, <2>3 DEF Execute, KeepPrivate, TypeOK
  <2>5. CASE Execute(e)
    BY <2>4, <2>5 DEF Execute, TypeOK, Range
  <2>6. CASE KeepPrivate(e)
    <3>1. /\ mScripts'[f] = Append(mScripts[f], PrivateCopy(f)) /\ mCache' = mCache
          /\ ~Cacheable(f) /\ mScripts[f] \in Seq(Script)
      BY <2>4, <2>6 DEF KeepPrivate, TypeOK, cacheVars
    <3>2. PrivateCopy(f) \in Script /\ PrivateCopy(f).name = target[f]
      BY CopyType
    <3>3. Range(Append(mScripts[f], PrivateCopy(f))) = Range(mScripts[f]) \cup {PrivateCopy(f)}
      BY <3>1, <3>2, AppendScript
    <3>4. s = PrivateCopy(f)
      BY <1>3, <3>1, <3>3
    <3> QED BY <3>1, <3>2, <3>4 DEF Cacheable
  <2> QED BY <2>3, <2>5, <2>6
<1> QED BY <1>2, <1>3

\* The invariant is inductive (vm.cc 135-229, taskmgr.hpp 69-100).
THEOREM IndInvariant == Spec => []IndInv
<1>1. Init => IndInv
  BY InvInit
<1>2. IndInv /\ [Next]_vars => IndInv'
  BY TypeStep, CacheStep, PrivateStep, ListStep, LostStep DEF IndInv
<1> QED BY <1>1, <1>2, PTL DEF Spec

\* Every variable of the loader and the cache has its type.
THEOREM TypeCorrect == Spec => []TypeOK
<1>1. IndInv => TypeOK
  BY DEF IndInv
<1> QED BY <1>1, IndInvariant, PTL

-----------------------------------------------------------------------------
(* The properties.                                                         *)

\* Private scripts end below the shared ones.
LEMMA PrivateBelow ==
    ASSUME IndInv, NEW e \in Executor, NEW i \in DOMAIN mScripts[e]
    PROVE  /\ NextIns(mScripts[e][i]) <= SharedBase /\ NextConst(mScripts[e][i]) <= SharedBase
           /\ NextIns(mScripts[e][i]) \in Nat /\ NextConst(mScripts[e][i]) \in Nat
<1> DEFINE m == mScripts[e]
           s == m[i]
<1>1. m \in Seq(Script) /\ \A k, l \in DOMAIN m : m[k].name = m[l].name => k = l
  BY DEF IndInv, TypeOK, ListInv
<1>2. s \in Script /\ s.ins <= (i - 1) * Step /\ s.const <= (i - 1) * Step
  BY <1>1 DEF IndInv, PrivateInv
<1>3. Len(m) <= Cardinality(Name) /\ Cardinality(Name) \in Nat
  BY <1>1, FewScripts
<1>4. i - 1 \in Nat /\ i = (i - 1) + 1 /\ i \in Nat /\ i <= Cardinality(Name)
  BY <1>1, <1>3
<1> HIDE DEF s, m
<1>5. s.name \in Name /\ s.ins \in Nat /\ s.const \in Nat
  BY <1>2 DEF Script
<1>6. /\ NextIns(s) \in Nat /\ NextConst(s) \in Nat
      /\ NextIns(s) <= s.ins + MaxKey /\ NextConst(s) <= s.const + MaxKey
  <2>1. /\ InsKey[s.name] \in Nat /\ InsKey[s.name] <= MaxKey
        /\ ConstKey[s.name] \in Nat /\ ConstKey[s.name] <= MaxKey /\ MaxKey \in Nat
    BY <1>5, Sizes
  <2> QED BY <1>5, <2>1 DEF NextIns, NextConst
<1>7. (i - 1) * Step \in Nat /\ i * Step = (i - 1) * Step + Step
  BY <1>4, StepNext
<1>8. i * Step <= Cardinality(Name) * Step /\ Cardinality(Name) * Step <= SharedBase
  BY <1>3, <1>4, StepMonotone, KeyAssumption
<1>9. Step = MaxKey + 1001 /\ MaxKey \in Nat /\ SharedBase \in Nat
  BY KeyAssumption DEF Step
<1>10. i * Step \in Nat /\ Cardinality(Name) * Step \in Nat
  BY <1>3, <1>4, StepNext
<1>11. NextIns(s) <= i * Step /\ NextConst(s) <= i * Step
  <2> DEFINE p == (i - 1) * Step
             q == i * Step
  <2>1. p \in Nat /\ q = p + Step /\ s.ins <= p /\ s.const <= p
    BY <1>2, <1>7
  <2> HIDE DEF p, q
  <2>2. NextIns(s) <= q /\ NextConst(s) <= q
    BY <1>5, <1>6, <1>9, <2>1
  <2> QED BY <2>2 DEF q
<1>12. NextIns(s) <= SharedBase /\ NextConst(s) <= SharedBase
  <2> DEFINE q == i * Step
             r == Cardinality(Name) * Step
  <2>1. q \in Nat /\ r \in Nat /\ q <= r /\ r <= SharedBase
        /\ NextIns(s) <= q /\ NextConst(s) <= q
    BY <1>8, <1>10, <1>11
  <2> HIDE DEF q, r
  <2> QED BY <1>6, <1>9, <2>1
<1> QED BY <1>6, <1>12 DEF s, m

\* Any two scripts an executor holds, and any two in the cache, have disjoint
\* keys (Script::RelocateInstruction, OnNewScript and LoadScript).
LEMMA InvDisjoint == IndInv => RangesDisjoint
<1> SUFFICES ASSUME IndInv, NEW e \in Executor, NEW s \in Visible(e), NEW t \in Visible(e),
                    s # t
             PROVE  Disjoint(s, t)
  BY DEF RangesDisjoint, IndInv, CacheInv
<1>1. \A c \in mSharedScripts[e] : c \in mCache /\ SharedBase <= c.ins /\ c.const = c.ins
                                   /\ c.ins \in Nat
  BY DEF IndInv, ListInv, CacheInv, TypeOK, Script
<1>2. SharedBase \in Nat
  BY KeyAssumption
<1>3. \A p \in Range(mScripts[e]) :
         /\ NextIns(p) <= SharedBase /\ NextConst(p) <= SharedBase
         /\ NextIns(p) \in Nat /\ NextConst(p) \in Nat
  BY PrivateBelow DEF Range
<1>4. CASE s \in mSharedScripts[e] /\ t \in mSharedScripts[e]
  BY <1>1, <1>4 DEF IndInv, CacheInv
<1>5. CASE s \in Range(mScripts[e]) /\ t \in mSharedScripts[e]
  BY <1>1, <1>2, <1>3, <1>5 DEF Disjoint
<1>6. CASE t \in Range(mScripts[e]) /\ s \in mSharedScripts[e]
  BY <1>1, <1>2, <1>3, <1>6 DEF Disjoint
<1>7. CASE s \in Range(mScripts[e]) /\ t \in Range(mScripts[e])
  <2>1. PICK i, j \in DOMAIN mScripts[e] : s = mScripts[e][i] /\ t = mScripts[e][j]
    BY <1>7 DEF Range
  <2>2. i \in Int /\ j \in Int /\ i # j
    BY <2>1 DEF IndInv, TypeOK
  <2>3. CASE i < j
    BY <2>1, <2>3 DEF IndInv, PrivateInv, Disjoint
  <2>4. CASE j < i
    BY <2>1, <2>4 DEF IndInv, PrivateInv, Disjoint
  <2> QED BY <2>2, <2>3, <2>4
<1> QED BY <1>4, <1>5, <1>6, <1>7 DEF Visible

THEOREM DisjointRanges == Spec => []RangesDisjoint
BY InvDisjoint, IndInvariant, PTL

\* GetInstruction finds every key in the script it belongs to (vm.cc 244-260).
THEOREM KeysFound == Spec => []KeysResolve
<1>1. IndInv => KeysResolve
  <2> SUFFICES ASSUME IndInv, NEW e \in Executor, NEW s \in Visible(e),
                      NEW k \in {s.ins, NextIns(s) - 1}
               PROVE  Finds(e, k, s) /\ \A t \in Visible(e) : Finds(e, k, t) => t = s
    BY DEF KeysResolve
  <2>1. \A t \in Visible(e) : /\ t.ins \in Nat /\ NextIns(t) \in Nat /\ t.ins < NextIns(t)
    <3> TAKE t \in Visible(e)
    <3>1. t \in Script
      BY DEF Visible, IndInv, TypeOK, Range
    <3>2. t.name \in Name /\ t.ins \in Nat
      BY <3>1 DEF Script
    <3> QED BY <3>2, Sizes DEF NextIns
  <2>2. HasIns(s, k) /\ k \in Nat
    BY <2>1 DEF HasIns
  <2>3. \A t \in Visible(e) : HasIns(t, k) => t = s
    <3> TAKE t \in Visible(e)
    <3> HAVE HasIns(t, k)
    <3>1. t # s => Disjoint(s, t)
      BY InvDisjoint DEF RangesDisjoint
    <3> QED BY <2>1, <2>2, <3>1 DEF Disjoint, HasIns
  <2>4. s \in mSharedScripts[e] => k >= SharedBase
    <3>1. s \in mSharedScripts[e] => SharedBase <= s.ins
      BY DEF IndInv, ListInv, CacheInv
    <3> QED BY <2>1, <2>2, <3>1, KeyAssumption DEF HasIns
  <2>5. s \in Range(mScripts[e]) => k < SharedBase
    <3>1. s \in Range(mScripts[e]) => NextIns(s) <= SharedBase
      BY PrivateBelow DEF Range
    <3> QED BY <2>1, <2>2, <3>1, KeyAssumption DEF HasIns
  <2>6. \A t : Finds(e, k, t) => t \in Visible(e) /\ HasIns(t, k)
    BY DEF Finds, Visible
  <2>7. Finds(e, k, s)
    BY <2>2, <2>4, <2>5, KeyAssumption DEF Finds, Visible
  <2> QED BY <2>3, <2>6, <2>7
<1> QED BY <1>1, IndInvariant, PTL

\* No execution holds a file twice (Executor::RequireScript).
THEOREM NoFileTwice == Spec => []LoadedOnce
<1>1. IndInv => LoadedOnce
  <2> SUFFICES ASSUME IndInv, NEW e \in Executor, NEW s \in mSharedScripts[e],
                      NEW t \in Visible(e), s.name = t.name
               PROVE  s = t
    BY DEF LoadedOnce, IndInv, ListInv
  <2>1. CASE t \in mSharedScripts[e]
    BY <2>1 DEF IndInv, ListInv, CacheInv
  <2>2. CASE t \in Range(mScripts[e])
    BY <2>2 DEF IndInv, ListInv
  <2> QED BY <2>1, <2>2 DEF Visible
<1> QED BY <1>1, IndInvariant, PTL

\* A known file is private only to an executor that lost the race to publish it.
THEOREM PrivateOnlyIfLost == Spec => []PrivateMeansLost
<1>1. IndInv => PrivateMeansLost
  BY DEF IndInv
<1> QED BY <1>1, IndInvariant, PTL

\* A published script is neither replaced nor moved (OnNewScript).
THEOREM CacheIsStable == Spec => CacheStable
<1>1. IndInv /\ IndInv' /\ [Next]_vars =>
         [mCache \subseteq mCache' /\ \A s, t \in mCache' : s.name = t.name => s = t]_vars
  BY CacheStep DEF IndInv, CacheInv
<1> QED BY <1>1, IndInvariant, PTL DEF Spec, CacheStable

-----------------------------------------------------------------------------
(***************************************************************************)
(* The code cache (CodeCache), and with it the source of scripts           *)
(* (ScriptSource): for any files, any number of updates, and any faults.   *)
(***************************************************************************)

-----------------------------------------------------------------------------
(* Sequences of cells.                                                     *)

LEMMA CodeConstants ==
    /\ File \subseteq Nat /\ NoFile \notin File /\ Entry \subseteq File /\ Inc \subseteq File
    /\ Entry \cap Inc = {}
    /\ \A f \in File : Size[f] \in Nat /\ Size[f] > 0
    /\ \A e \in Entry : Needs[e] \in Seq(File)
    /\ BatchSize \in Nat /\ MaxUpdates \in Nat
<1>1. \A e \in Entry : Needs[e] \in Seq(Inc)
  BY CodeCacheAssumption
<1>2. \A s \in Seq(Inc) : s \in Seq(File)
  <2> SUFFICES ASSUME NEW s \in Seq(Inc) PROVE s \in Seq(File)
    OBVIOUS
  <2>1. s \in [1..Len(s) -> Inc] /\ Len(s) \in Nat
    OBVIOUS
  <2>2. s \in [1..Len(s) -> File]
    BY <2>1 DEF File
  <2> QED BY <2>1, <2>2
<1> QED BY <1>1, <1>2, CodeCacheAssumption DEF File, NoFile

\* A block has the size of its file, and its cells are cells.
LEMMA BlockCells ==
    ASSUME NEW v \in Nat, NEW f \in File
    PROVE  /\ Block(v, f) \in Seq(Cell) /\ Len(Block(v, f)) = Size[f]
           /\ \A k \in 1..Size[f] : Block(v, f)[k] = <<v, f, k>>
<1>1. Size[f] \in Nat
  BY CodeConstants
<1>2. Block(v, f) \in [1..Size[f] -> Cell]
  BY <1>1 DEF Block, Cell
<1> QED BY <1>1, <1>2 DEF Block

\* Cells appended to data leave it as it is.
LEMMA AppendCells ==
    ASSUME NEW a \in Seq(Cell), NEW b \in Seq(Cell)
    PROVE  /\ a \o b \in Seq(Cell) /\ Len(a) \in Nat /\ Len(b) \in Nat
           /\ Len(a \o b) = Len(a) + Len(b)
           /\ \A k \in 1..Len(a) : (a \o b)[k] = a[k]
           /\ \A k \in 1..Len(b) : (a \o b)[Len(a) + k] = b[k]
<1>1. /\ a \o b \in Seq(Cell) /\ Len(a) \in Nat /\ Len(b) \in Nat
      /\ Len(a \o b) = Len(a) + Len(b)
      /\ \A i \in 1..(Len(a) + Len(b)) :
            (a \o b)[i] = IF i <= Len(a) THEN a[i] ELSE b[i - Len(a)]
  BY ConcatProperties
<1> QED BY <1>1

\* Cells may be appended in any order of steps.
LEMMA AppendAssociative ==
    ASSUME NEW a \in Seq(Cell), NEW b \in Seq(Cell), NEW c \in Seq(Cell)
    PROVE  (a \o b) \o c = a \o (b \o c)
<1>1. /\ a \o b \in Seq(Cell) /\ b \o c \in Seq(Cell)
      /\ Len(a) \in Nat /\ Len(b) \in Nat /\ Len(c) \in Nat
      /\ Len(a \o b) = Len(a) + Len(b) /\ Len(b \o c) = Len(b) + Len(c)
  BY AppendCells
<1> DEFINE l == (a \o b) \o c
           r == a \o (b \o c)
<1>2. l \in Seq(Cell) /\ Len(l) = Len(a) + Len(b) + Len(c)
  BY <1>1, AppendCells
<1>3. r \in Seq(Cell) /\ Len(r) = Len(a) + Len(b) + Len(c)
  BY <1>1, AppendCells
<1>4. ASSUME NEW i \in 1..Len(l) PROVE l[i] = r[i]
  <2>1. CASE i \in 1..Len(a)
    <3>1. i \in 1..Len(a \o b) /\ (a \o b)[i] = a[i]
      BY <1>1, <2>1, AppendCells
    <3>2. l[i] = (a \o b)[i] /\ r[i] = a[i]
      BY <1>1, <2>1, <3>1, AppendCells
    <3> QED BY <3>1, <3>2
  <2>2. CASE i \in (Len(a) + 1)..(Len(a) + Len(b))
    <3>1. PICK k \in 1..Len(b) : i = Len(a) + k
      <4>1. i - Len(a) \in 1..Len(b) /\ i = Len(a) + (i - Len(a))
        BY <1>1, <2>2
      <4> QED BY <4>1
    <3>2. i \in 1..Len(a \o b) /\ k \in 1..Len(b \o c)
      BY <1>1, <3>1
    <3>3. l[i] = (a \o b)[i] /\ (a \o b)[i] = b[k]
      BY <1>1, <3>1, <3>2, AppendCells
    <3>4. r[i] = (b \o c)[k] /\ (b \o c)[k] = b[k]
      BY <1>1, <3>1, <3>2, AppendCells
    <3> QED BY <3>3, <3>4
  <2>3. CASE i \in (Len(a) + Len(b) + 1)..(Len(a) + Len(b) + Len(c))
    <3>1. PICK k \in 1..Len(c) : i = Len(a) + Len(b) + k
      <4>1. i - (Len(a) + Len(b)) \in 1..Len(c) /\ i = Len(a) + Len(b) + (i - (Len(a) + Len(b)))
        BY <1>1, <2>3
      <4> QED BY <4>1
    <3>2. Len(b) + k \in 1..Len(b \o c) /\ i = Len(a \o b) + k /\ i = Len(a) + (Len(b) + k)
      BY <1>1, <3>1
    <3>3. l[i] = c[k]
      BY <1>1, <3>1, <3>2, AppendCells
    <3>4. r[i] = (b \o c)[Len(b) + k] /\ (b \o c)[Len(b) + k] = c[k]
      BY <1>1, <3>1, <3>2, AppendCells
    <3> QED BY <3>3, <3>4
  <2> QED BY <1>1, <1>2, <2>1, <2>2, <2>3
<1> HIDE DEF l, r
<1>5. l = r
  BY <1>2, <1>3, <1>4, SeqEqual
<1> QED BY <1>5 DEF l, r

\* What stdio passes on at the end of the file, it no longer holds back.
LEMMA PassOn ==
    ASSUME NEW a \in Seq(Cell), NEW b \in Seq(Cell), NEW n \in 1..Len(b)
    PROVE  /\ SubSeq(b, 1, n) \in Seq(Cell) /\ SubSeq(b, n + 1, Len(b)) \in Seq(Cell)
           /\ a \o SubSeq(b, 1, n) \in Seq(Cell)
           /\ (a \o SubSeq(b, 1, n)) \o SubSeq(b, n + 1, Len(b)) = a \o b
<1>1. Len(b) \in Nat /\ \A i \in 1..Len(b) : b[i] \in Cell
  OBVIOUS
<1>2. SubSeq(b, 1, n) \in Seq(Cell) /\ SubSeq(b, n + 1, Len(b)) \in Seq(Cell)
  <2>1. \A i \in 1..n : b[i] \in Cell
    BY <1>1
  <2>2. \A i \in (n + 1)..Len(b) : b[i] \in Cell
    BY <1>1
  <2>3. SubSeq(b, 1, n) \in Seq(Cell)
    BY <1>1, <2>1, SubSeqProperties
  <2>4. SubSeq(b, n + 1, Len(b)) \in Seq(Cell)
    BY <1>1, <2>2, SubSeqProperties
  <2> QED BY <2>3, <2>4
<1>3. SubSeq(b, 1, n) \o SubSeq(b, n + 1, Len(b)) = SubSeq(b, 1, Len(b))
  BY <1>1, ConcatAdjacentSubSeq
<1>4. SubSeq(b, 1, Len(b)) = b
  BY SubSeqFull
<1>5. ASSUME NEW x \in Seq(Cell), NEW y \in Seq(Cell) PROVE (a \o x) \o y = a \o (x \o y)
  BY AppendAssociative
<1>6. ASSUME NEW x \in Seq(Cell) PROVE a \o x \in Seq(Cell)
  BY AppendCells
<1> DEFINE x == SubSeq(b, 1, n)
           y == SubSeq(b, n + 1, Len(b))
<1>7. x \in Seq(Cell) /\ y \in Seq(Cell) /\ x \o y = b
  BY <1>2, <1>3, <1>4
<1> HIDE DEF x, y
<1>8. a \o x \in Seq(Cell) /\ (a \o x) \o y = a \o b
  BY <1>5, <1>6, <1>7
<1> QED BY <1>7, <1>8 DEF x, y

\* A beginning of a block, as a short write leaves it.
LEMMA PartOfBlock ==
    ASSUME NEW v \in Nat, NEW f \in File, NEW n \in 0..(Size[f] - 1)
    PROVE  SubSeq(Block(v, f), 1, n) \in Seq(Cell)
<1>1. Block(v, f) \in Seq(Cell) /\ Len(Block(v, f)) = Size[f] /\ Size[f] \in Nat
  BY BlockCells, CodeConstants
<1>2. \A i \in 1..n : Block(v, f)[i] \in Cell
  BY <1>1
<1> QED BY <1>2, SubSeqProperties

-----------------------------------------------------------------------------
(* The types of the code cache.                                            *)

LEMMA CodeInitType == ASSUME CodeInit PROVE CodeTypeOK /\ DataOK
<1>1. DOMAIN EmptyTable = {} /\ EmptyTable = EmptyTable
  BY DEF EmptyTable
<1>2. ToSet(<<>>) = {}
  BY DEF ToSet
<1>3. <<>> \in Seq(Cell) /\ <<>> \in Seq(File) /\ Len(<<>>) = 0
  OBVIOUS
<1>4. /\ OnFile(mFileTable) /\ OnFile(index.table) /\ OnFile(reader.table)
      /\ index.ver = 0 /\ reader.ver = 0 /\ reader.on = "none" /\ version = 0
  BY <1>1 DEF CodeInit, OnFile
<1>5. /\ upc = "idle" /\ enabled \in BOOLEAN /\ closed \in BOOLEAN
      /\ todo = {} /\ cur = NoFile /\ loading = <<>> /\ ret = {} /\ nvti = {} /\ faults = {}
  BY DEF CodeInit
<1>6. MaxUpdates \in Nat
  BY CodeConstants
<1>7. DataOK
  BY <1>3 DEF CodeInit, DataOK
<1> QED BY <1>2, <1>4, <1>5, <1>6, <1>7 DEF CodeTypeOK, UpdaterOK, TablesOK

\* The file that is loaded next.
LEMMA FileInLoading ==
    ASSUME DataOK, loading # <<>>
    PROVE  /\ Head(loading) \in File /\ Tail(loading) \in Seq(File)
BY HeadTailProperties DEF DataOK

\* The data and the list of files to load keep their types.
LEMMA DataStep ==
    ASSUME CodeTypeOK, DataOK, [CodeNext]_codeVars
    PROVE  DataOK'
<1> USE DEF DataOK
<1>1. CASE NewWriter
  BY <1>1 DEF NewWriter
<1>2. ASSUME NEW f \in File, ExecuteFile(f) PROVE DataOK'
  <2>1. loading' \in Seq(File)
    <3>1. CASE f \in Entry
      <4>1. <<f>> \in Seq(File) /\ Needs[f] \in Seq(File)
        BY <3>1, CodeConstants
      <4>2. loading' = <<f>> \o Needs[f]
        BY <1>2, <3>1 DEF ExecuteFile
      <4> QED BY <4>1, <4>2, ConcatProperties
    <3>2. CASE f \notin Entry
      BY <1>2, <3>2 DEF ExecuteFile
    <3> QED BY <3>1, <3>2
  <2> QED BY <1>2, <2>1 DEF ExecuteFile, dataVars
<1>3. CASE Skip
  BY <1>3, FileInLoading DEF Skip, dataVars
<1>4. CASE WriteBlock
  <2> DEFINE g == Head(loading)
  <2>1. g \in File /\ loading' \in Seq(File)
    BY <1>4, FileInLoading DEF WriteBlock
  <2>2. buf' = buf \o Block(version, g) /\ mOffset' = mOffset + Size[g] /\ disk' = disk
    BY <1>4 DEF WriteBlock
  <2>3. version \in Nat /\ Size[g] \in Nat
    <3>1. version \in 0..MaxUpdates /\ MaxUpdates \in Nat
      BY CodeConstants DEF CodeTypeOK, UpdaterOK, UpdaterOK
    <3>2. Size[g] \in Nat
      BY <2>1, CodeConstants
    <3> QED BY <3>1, <3>2
  <2> HIDE DEF g
  <2>4. Block(version, g) \in Seq(Cell)
    BY <2>1, <2>3, BlockCells
  <2>5. buf' \in Seq(Cell)
    BY <2>2, <2>4, AppendCells
  <2> QED BY <2>1, <2>2, <2>3, <2>5
<1>5. CASE LoadFail
  BY <1>5 DEF LoadFail, dataVars
<1>6. CASE ShortWrite
  <2> DEFINE g == Head(loading)
  <2>1. g \in File /\ version \in Nat
    <3>1. version \in 0..MaxUpdates /\ MaxUpdates \in Nat
      BY CodeConstants DEF CodeTypeOK, UpdaterOK
    <3> QED BY <1>6, <3>1, FileInLoading DEF ShortWrite
  <2>2. CASE g = cur
    BY <1>6, <2>2 DEF ShortWrite, Gone
  <2>3. CASE g # cur
    <3>1. PICK n \in 0..(Size[g] - 1) : buf' = buf \o SubSeq(Block(version, g), 1, n)
      BY <1>6, <2>3 DEF ShortWrite
    <3>2. disk' = disk /\ mOffset' = mOffset /\ loading' = <<>>
      BY <1>6, <2>3 DEF ShortWrite
    <3> HIDE DEF g
    <3>3. SubSeq(Block(version, g), 1, n) \in Seq(Cell)
      BY <2>1, PartOfBlock
    <3>4. buf' \in Seq(Cell)
      BY <3>1, <3>3, AppendCells
    <3> QED BY <3>2, <3>4
  <2> QED BY <2>2, <2>3
<1>7. CASE RunFail
  BY <1>7 DEF RunFail, dataVars, scriptVars
<1>8. CASE ExecuteEnd
  BY <1>8 DEF ExecuteEnd, dataVars, scriptVars
<1>9. CASE ScriptsEnd
  BY <1>9 DEF ScriptsEnd, dataVars, scriptVars
<1>10. CASE UpdateDatabase
  BY <1>10 DEF UpdateDatabase, dataVars, scriptVars
<1>11. CASE IncsEnd
  BY <1>11 DEF IncsEnd, dataVars, scriptVars
<1>12. CASE WriteIndex
  BY <1>12 DEF WriteIndex, dataVars, scriptVars
<1>13. CASE CloseData
  <2>1. disk' \in Seq(Cell)
    BY <1>13, AppendCells DEF CloseData
  <2> QED BY <1>13, <2>1 DEF CloseData, scriptVars
<1>14. CASE Flush
  <2>1. PICK n \in 1..Len(buf) : /\ disk' = disk \o SubSeq(buf, 1, n)
                                /\ buf' = SubSeq(buf, n + 1, Len(buf))
    BY <1>14 DEF Flush
  <2>2. disk' \in Seq(Cell) /\ buf' \in Seq(Cell)
    BY <2>1, PassOn
  <2> QED BY <1>14, <2>2 DEF Flush, scriptVars
<1>15. CASE Crash
  BY <1>15 DEF Crash, Gone
<1>16. CASE OpenReader
  BY <1>16 DEF OpenReader, dataVars, scriptVars
<1>17. CASE CloseReader
  BY <1>17 DEF CloseReader, dataVars, scriptVars
<1>18. CASE UNCHANGED codeVars
  BY <1>18 DEF codeVars, dataVars, scriptVars
<1> QED
  BY <1>1, <1>2, <1>3, <1>4, <1>5, <1>6, <1>7, <1>8, <1>9, <1>10, <1>11, <1>12, <1>13, <1>14, <1>15, <1>16, <1>17, <1>18 DEF CodeNext, Updater

LEMMA LoadedFiles == ASSUME NEW s \in Seq(File) PROVE ToSet(s) \subseteq File
BY DEF ToSet

\* Only an update that executes scripts loads files.
LEMMA LoadStep ==
    ASSUME LoadInv, [CodeNext]_codeVars
    PROVE  LoadInv'
<1> USE DEF LoadInv
<1>1. CASE NewWriter
  <2>1. ~closed' /\ loading' = <<>> /\ cur' = NoFile /\ buf' = <<>>
    BY <1>1, Zenon DEF NewWriter
  <2> QED BY <2>1
<1>2. ASSUME NEW f \in File, ExecuteFile(f) PROVE LoadInv'
  BY <1>2, CodeConstants DEF ExecuteFile, dataVars
<1>3. CASE Skip
  BY <1>3 DEF Skip, dataVars, scriptVars
<1>4. CASE WriteBlock
  BY <1>4 DEF WriteBlock, dataVars, scriptVars
<1>5. CASE LoadFail
  BY <1>5 DEF LoadFail, dataVars, scriptVars
<1>6. CASE ShortWrite
  BY <1>6 DEF ShortWrite, Gone
<1>7. CASE RunFail
  BY <1>7 DEF RunFail, dataVars, scriptVars
<1>8. CASE ExecuteEnd
  BY <1>8 DEF ExecuteEnd, dataVars, scriptVars
<1>9. CASE ScriptsEnd
  BY <1>9 DEF ScriptsEnd, dataVars, scriptVars
<1>10. CASE UpdateDatabase
  BY <1>10 DEF UpdateDatabase, dataVars, scriptVars
<1>11. CASE IncsEnd
  BY <1>11 DEF IncsEnd, dataVars, scriptVars
<1>12. CASE WriteIndex
  BY <1>12 DEF WriteIndex, dataVars, scriptVars
<1>13. CASE CloseData
  BY <1>13 DEF CloseData, dataVars, scriptVars
<1>14. CASE Flush
  <2>1. \E n \in 1..Len(buf) : TRUE
    BY <1>14 DEF Flush
  <2>2. buf # <<>>
    BY <2>1
  <2> QED BY <1>14, <2>2 DEF Flush, scriptVars
<1>15. CASE Crash
  BY <1>15 DEF Crash, Gone
<1>16. CASE OpenReader
  BY <1>16 DEF OpenReader, dataVars, scriptVars
<1>17. CASE CloseReader
  BY <1>17 DEF CloseReader, dataVars, scriptVars
<1>18. CASE UNCHANGED codeVars
  BY <1>18 DEF codeVars, dataVars, scriptVars
<1> QED
  BY <1>1, <1>2, <1>3, <1>4, <1>5, <1>6, <1>7, <1>8, <1>9, <1>10, <1>11, <1>12, <1>13, <1>14, <1>15, <1>16, <1>17, <1>18 DEF CodeNext, Updater

\* The writer's offset is never past the end of the data.
LEMMA SizeStep ==
    ASSUME CodeTypeOK, DataOK, LoadInv, [CodeNext]_codeVars
    PROVE  (mOffset <= Len(disk) + Len(buf) \/ upc = "idle")'
<1> DEFINE Within == mOffset <= Len(disk) + Len(buf) \/ upc = "idle"
<1>0. Within /\ (loading # <<>> => upc # "idle")
  BY DEF CodeTypeOK, LoadInv
<1>a. disk \in Seq(Cell) /\ buf \in Seq(Cell) /\ mOffset \in Nat
  BY DEF DataOK
<1>1. CASE NewWriter
  BY <1>1 DEF NewWriter
<1>2. ASSUME NEW f \in File, ExecuteFile(f) PROVE (mOffset <= Len(disk) + Len(buf) \/ upc = "idle")'
  BY <1>2, <1>0 DEF ExecuteFile, dataVars, scriptVars
<1>3. CASE Skip
  BY <1>3, <1>0 DEF Skip, dataVars, scriptVars
<1>4. CASE WriteBlock
  <2> DEFINE g == Head(loading)
  <2>1. g \in File
    BY <1>4, FileInLoading DEF WriteBlock
  <2>2. buf' = buf \o Block(version, g) /\ mOffset' = mOffset + Size[g] /\ UNCHANGED <<disk, upc>>
    BY <1>4 DEF WriteBlock
  <2>3. version \in Nat
    <3>1. version \in 0..MaxUpdates /\ MaxUpdates \in Nat
      BY CodeConstants DEF CodeTypeOK, UpdaterOK
    <3> QED BY <3>1
  <2>4. upc # "idle"
    BY <1>4, <1>0 DEF WriteBlock
  <2> HIDE DEF g
  <2>5. Block(version, g) \in Seq(Cell) /\ Len(Block(version, g)) = Size[g] /\ Size[g] \in Nat
    <3>1. Size[g] \in Nat
      BY <2>1, CodeConstants
    <3> QED BY <2>1, <2>3, <3>1, BlockCells
  <2>6. Len(buf') = Len(buf) + Size[g] /\ Len(buf) \in Nat /\ Len(disk) \in Nat
    <3> DEFINE b == Block(version, g)
    <3>1. b \in Seq(Cell) /\ Len(b) = Size[g] /\ buf' = buf \o b
      BY <2>2, <2>5
    <3> HIDE DEF b
    <3> QED BY <3>1, <1>a, AppendCells
  <2> QED BY <2>2, <2>4, <2>5, <2>6, <1>0, <1>a
<1>5. CASE LoadFail
  BY <1>5, <1>0 DEF LoadFail, dataVars, scriptVars
<1>6. CASE ShortWrite
  <2> DEFINE g == Head(loading)
  <2>1. g \in File /\ version \in Nat
    <3>1. version \in 0..MaxUpdates /\ MaxUpdates \in Nat
      BY CodeConstants DEF CodeTypeOK, UpdaterOK
    <3> QED BY <1>6, <3>1, FileInLoading DEF ShortWrite
  <2>2. CASE g = cur
    BY <1>6, <2>2 DEF ShortWrite, Gone
  <2>3. CASE g # cur
    <3>1. PICK n \in 0..(Size[g] - 1) : buf' = buf \o SubSeq(Block(version, g), 1, n)
      BY <1>6, <2>3 DEF ShortWrite
    <3>2. UNCHANGED <<disk, mOffset, upc>>
      BY <1>6, <2>3 DEF ShortWrite
    <3> HIDE DEF g
    <3>3. SubSeq(Block(version, g), 1, n) \in Seq(Cell)
      BY <2>1, PartOfBlock
    <3>4. Len(buf') >= Len(buf) /\ Len(buf') \in Nat /\ Len(buf) \in Nat /\ Len(disk) \in Nat
      BY <3>1, <3>3, <1>a, AppendCells
    <3> QED BY <3>2, <3>4, <1>0, <1>a
  <2> QED BY <2>2, <2>3
<1>7. CASE RunFail
  BY <1>7, <1>0 DEF RunFail, dataVars, scriptVars
<1>8. CASE ExecuteEnd
  BY <1>8, <1>0 DEF ExecuteEnd, dataVars, scriptVars
<1>9. CASE ScriptsEnd
  BY <1>9, <1>0 DEF ScriptsEnd, dataVars, scriptVars
<1>10. CASE UpdateDatabase
  BY <1>10, <1>0 DEF UpdateDatabase, dataVars, scriptVars
<1>11. CASE IncsEnd
  BY <1>11, <1>0 DEF IncsEnd, dataVars, scriptVars
<1>12. CASE WriteIndex
  BY <1>12, <1>0 DEF WriteIndex, dataVars, scriptVars
<1>13. CASE CloseData
  BY <1>13 DEF CloseData
<1>14. CASE Flush
  <2>1. PICK n \in 1..Len(buf) : /\ disk' = disk \o SubSeq(buf, 1, n)
                                /\ buf' = SubSeq(buf, n + 1, Len(buf))
    BY <1>14 DEF Flush
  <2>2. /\ disk' \in Seq(Cell) /\ buf' \in Seq(Cell) /\ disk' \o buf' = disk \o buf
    BY <2>1, <1>a, PassOn, AppendCells
  <2>3. Len(disk') + Len(buf') = Len(disk) + Len(buf)
    BY <2>2, <1>a, AppendCells
  <2>4. UNCHANGED <<upc, mOffset>>
    BY <1>14 DEF Flush
  <2> QED BY <2>3, <2>4, <1>0
<1>15. CASE Crash
  BY <1>15 DEF Crash, Gone
<1>16. CASE OpenReader
  BY <1>16, <1>0 DEF OpenReader, dataVars, scriptVars
<1>17. CASE CloseReader
  BY <1>17, <1>0 DEF CloseReader, dataVars, scriptVars
<1>18. CASE UNCHANGED codeVars
  BY <1>18, <1>0 DEF codeVars, dataVars, scriptVars
<1> QED
  BY <1>1, <1>2, <1>3, <1>4, <1>5, <1>6, <1>7, <1>8, <1>9, <1>10, <1>11, <1>12, <1>13, <1>14, <1>15, <1>16, <1>17, <1>18 DEF CodeNext, Updater

\* The rest of the updater's state keeps its types.
LEMMA UpdaterTypeStep ==
    ASSUME CodeTypeOK, DataOK, LoadInv, [CodeNext]_codeVars
    PROVE  UpdaterOK'
<1>b. (ToSet(loading) \subseteq File)'
  <2>1. loading' \in Seq(File)
    BY DataStep DEF DataOK
  <2> QED BY <2>1, LoadedFiles
<1>c. NoFile \notin File /\ Entry \subseteq File /\ Inc \subseteq File /\ MaxUpdates \in Nat
  BY CodeConstants
<1>d. UpdaterOK
  BY DEF CodeTypeOK
<1> USE <1>b, <1>c, <1>d DEF UpdaterOK
<1>1. CASE NewWriter
  <2>1. /\ upc' = "scripts" /\ enabled' \in BOOLEAN /\ closed' = FALSE /\ version' \in 0..MaxUpdates
        /\ todo' = Entry /\ cur' = NoFile /\ ret' = {} /\ nvti' = nvti /\ faults' = {}
    BY <1>1 DEF NewWriter
  <2> QED BY <2>1
<1>2. ASSUME NEW f \in File, ExecuteFile(f) PROVE UpdaterOK'
  BY <1>2 DEF ExecuteFile, dataVars, scriptVars
<1>3. CASE Skip
  BY <1>3 DEF Skip, dataVars, scriptVars
<1>4. CASE WriteBlock
  BY <1>4 DEF WriteBlock, dataVars, scriptVars
<1>5. CASE LoadFail
  BY <1>5 DEF LoadFail, dataVars, scriptVars
<1>6. CASE ShortWrite
  <2>1. /\ faults' = faults \cup {"short"} /\ cur' = NoFile
        /\ UNCHANGED <<enabled, version, nvti, closed>>
    BY <1>6 DEF ShortWrite, Gone
  <2>2. upc' \in {upc, "idle"} /\ todo' \in {todo, {}} /\ ret' \in {ret, {}}
    BY <1>6 DEF ShortWrite, Gone
  <2> QED BY <2>1, <2>2
<1>7. CASE RunFail
  BY <1>7 DEF RunFail, dataVars, scriptVars
<1>8. CASE ExecuteEnd
  <2>1. nvti' \subseteq Entry /\ ret' \subseteq Entry
    <3>1. PICK ok \in BOOLEAN :
            LET scripts == IF ok /\ cur \in Entry THEN ret \cup {cur} ELSE ret IN
            IF Cardinality(scripts) > BatchSize
            THEN UpdateAll(scripts) /\ ret' = {}
            ELSE ret' = scripts /\ UNCHANGED nvti
      BY <1>8 DEF ExecuteEnd
    <3> DEFINE scripts == IF ok /\ cur \in Entry THEN ret \cup {cur} ELSE ret
    <3>2. scripts \subseteq Entry
      OBVIOUS
    <3>3. \/ UpdateAll(scripts) /\ ret' = {}
          \/ ret' = scripts /\ UNCHANGED nvti
      BY <3>1
    <3> HIDE DEF scripts
    <3> QED BY <3>2, <3>3 DEF UpdateAll
  <2>2. cur' = NoFile /\ upc' \in {upc, "index"}
        /\ UNCHANGED <<enabled, version, todo, faults, closed>>
    BY <1>8 DEF ExecuteEnd
  <2> QED BY <2>1, <2>2
<1>9. CASE ScriptsEnd
  BY <1>9 DEF ScriptsEnd, dataVars, scriptVars
<1>10. CASE UpdateDatabase
  <2>1. nvti' \subseteq Entry /\ ret' = {} /\ todo' \in {Inc, {}} /\ upc' \in {"incs", "index"}
        /\ UNCHANGED <<enabled, version, faults, closed, cur>>
    BY <1>10 DEF UpdateDatabase, UpdateAll
  <2> QED BY <2>1
<1>11. CASE IncsEnd
  BY <1>11 DEF IncsEnd, dataVars, scriptVars
<1>12. CASE WriteIndex
  BY <1>12 DEF WriteIndex, dataVars, scriptVars
<1>13. CASE CloseData
  BY <1>13 DEF CloseData, dataVars, scriptVars
<1>14. CASE Flush
  BY <1>14 DEF Flush, dataVars, scriptVars
<1>15. CASE Crash
  BY <1>15 DEF Crash, Gone
<1>16. CASE OpenReader
  BY <1>16 DEF OpenReader, dataVars, scriptVars
<1>17. CASE CloseReader
  BY <1>17 DEF CloseReader, dataVars, scriptVars
<1>18. CASE UNCHANGED codeVars
  BY <1>18 DEF codeVars, dataVars, scriptVars
<1> QED
  BY <1>1, <1>2, <1>3, <1>4, <1>5, <1>6, <1>7, <1>8, <1>9, <1>10, <1>11, <1>12, <1>13, <1>14, <1>15, <1>16, <1>17, <1>18 DEF CodeNext, Updater

\* So do the tables of offsets.
LEMMA TableStep ==
    ASSUME CodeTypeOK, DataOK, LoadInv, [CodeNext]_codeVars
    PROVE  TablesOK'
<1>a. TablesOK /\ version \in 0..MaxUpdates /\ MaxUpdates \in Nat
  BY CodeConstants DEF CodeTypeOK, UpdaterOK
<1>b. OnFile(EmptyTable)
  BY DEF OnFile, EmptyTable
<1> USE <1>a, <1>b DEF TablesOK
<1>1. CASE NewWriter
  BY <1>1 DEF NewWriter
<1>2. ASSUME NEW f \in File, ExecuteFile(f) PROVE TablesOK'
  BY <1>2 DEF ExecuteFile, dataVars, scriptVars
<1>3. CASE Skip
  BY <1>3 DEF Skip, dataVars, scriptVars
<1>4. CASE WriteBlock
  <2> DEFINE g == Head(loading)
  <2>1. g \in File
    BY <1>4, FileInLoading DEF WriteBlock
  <2>2. /\ UNCHANGED <<index, reader, version>>
        /\ mFileTable' = [h \in DOMAIN mFileTable \cup {g} |-> IF h = g THEN mOffset ELSE mFileTable[h]]
    BY <1>4 DEF WriteBlock
  <2> HIDE DEF g
  <2>3. OnFile(mFileTable')
    BY <2>1, <2>2 DEF OnFile, DataOK
  <2> QED BY <2>2, <2>3
<1>5. CASE LoadFail
  BY <1>5 DEF LoadFail, dataVars, scriptVars
<1>6. CASE ShortWrite
  BY <1>6 DEF ShortWrite, dataVars, scriptVars
<1>7. CASE RunFail
  BY <1>7 DEF RunFail, dataVars, scriptVars
<1>8. CASE ExecuteEnd
  BY <1>8 DEF ExecuteEnd, dataVars, scriptVars
<1>9. CASE ScriptsEnd
  BY <1>9 DEF ScriptsEnd, dataVars, scriptVars
<1>10. CASE UpdateDatabase
  BY <1>10 DEF UpdateDatabase, dataVars, scriptVars
<1>11. CASE IncsEnd
  BY <1>11 DEF IncsEnd, dataVars, scriptVars
<1>12. CASE WriteIndex
  <2>1. PICK part \in SUBSET DOMAIN mFileTable :
            index' = [ver |-> version, table |-> [f \in part |-> mFileTable[f]]]
    BY <1>12 DEF WriteIndex
  <2>2. OnFile([f \in part |-> mFileTable[f]])
    BY <2>1 DEF OnFile
  <2>3. index'.ver = version /\ OnFile(index'.table)
    BY <2>1, <2>2
  <2>4. UNCHANGED <<mFileTable, reader, version>>
    BY <1>12 DEF WriteIndex, dataVars
  <2> QED BY <2>3, <2>4
<1>13. CASE CloseData
  BY <1>13 DEF CloseData
<1>14. CASE Flush
  BY <1>14 DEF Flush, dataVars, scriptVars
<1>15. CASE Crash
  BY <1>15 DEF Crash, dataVars, scriptVars
<1>16. CASE OpenReader
  BY <1>16 DEF OpenReader, dataVars, scriptVars
<1>17. CASE CloseReader
  BY <1>17 DEF CloseReader, dataVars, scriptVars
<1>18. CASE UNCHANGED codeVars
  BY <1>18 DEF codeVars, dataVars, scriptVars
<1> QED
  BY <1>1, <1>2, <1>3, <1>4, <1>5, <1>6, <1>7, <1>8, <1>9, <1>10, <1>11, <1>12, <1>13, <1>14, <1>15, <1>16, <1>17, <1>18 DEF CodeNext, Updater

\* The code cache keeps its types.
LEMMA CodeTypeStep ==
    ASSUME CodeTypeOK, DataOK, LoadInv, [CodeNext]_codeVars
    PROVE  CodeTypeOK'
BY SizeStep, UpdaterTypeStep, TableStep DEF CodeTypeOK

\* Indexes and readers lag behind the updates, and a closed index is complete.
LEMMA VersionStep ==
    ASSUME CodeTypeOK, LoadInv, VersionInv, [CodeNext]_codeVars
    PROVE  VersionInv'
<1>a. version \in Nat /\ index.ver \in Nat /\ reader.ver \in Nat
  <2>1. version \in 0..MaxUpdates /\ MaxUpdates \in Nat
    BY CodeConstants DEF CodeTypeOK, UpdaterOK
  <2>2. index.ver \in 0..version /\ reader.ver \in 0..version
    BY DEF CodeTypeOK, TablesOK
  <2> QED BY <2>1, <2>2
<1>b. loading # <<>> => upc \in {"scripts", "incs"}
  BY DEF LoadInv
<1> USE <1>a, <1>b DEF VersionInv
<1>1. CASE NewWriter
  <2>1. version' = version + 1 /\ ~closed' /\ upc' = "scripts" /\ UNCHANGED <<index, reader>>
    BY <1>1, Zenon DEF NewWriter
  <2> QED BY <2>1
<1>2. ASSUME NEW f \in File, ExecuteFile(f) PROVE VersionInv'
  BY <1>2 DEF ExecuteFile, dataVars, scriptVars
<1>3. CASE Skip
  BY <1>3 DEF Skip, dataVars, scriptVars
<1>4. CASE WriteBlock
  <2>1. UNCHANGED <<version, index, reader, closed, upc>> /\ upc \in {"scripts", "incs"}
    BY <1>4 DEF WriteBlock
  <2> QED BY <2>1
<1>5. CASE LoadFail
  <2>1. UNCHANGED <<version, index, reader, closed, mFileTable>>
    BY <1>5 DEF LoadFail, dataVars
  <2>2. upc' \in {upc, "database", "index"} /\ (upc' = "database" => upc = "scripts" \/ upc = "database")
    BY <1>5 DEF LoadFail
  <2> QED BY <1>5, <2>1, <2>2 DEF LoadFail
<1>6. CASE ShortWrite
  <2>1. UNCHANGED <<version, index, reader, closed, mFileTable>> /\ upc' \in {upc, "idle"}
    BY <1>6 DEF ShortWrite, Gone
  <2> QED BY <2>1
<1>7. CASE RunFail
  BY <1>7 DEF RunFail, dataVars, scriptVars
<1>8. CASE ExecuteEnd
  <2>1. UNCHANGED <<version, index, reader, closed, mFileTable>> /\ upc' \in {upc, "index"}
    BY <1>8 DEF ExecuteEnd, dataVars
  <2> QED BY <2>1
<1>9. CASE ScriptsEnd
  BY <1>9 DEF ScriptsEnd, dataVars, scriptVars
<1>10. CASE UpdateDatabase
  <2>1. UNCHANGED <<version, index, reader, closed, mFileTable>> /\ upc' \in {"incs", "index"}
        /\ upc = "database"
    BY <1>10 DEF UpdateDatabase, dataVars
  <2> QED BY <2>1
<1>11. CASE IncsEnd
  BY <1>11 DEF IncsEnd, dataVars, scriptVars
<1>12. CASE WriteIndex
  <2>1. PICK part \in SUBSET DOMAIN mFileTable :
          /\ index' = [ver |-> version, table |-> [f \in part |-> mFileTable[f]]]
          /\ upc' = IF part = DOMAIN mFileTable THEN "close" ELSE "index"
    BY <1>12 DEF WriteIndex
  <2>2. index'.ver = version /\ DOMAIN index'.table = part
    BY <2>1
  <2>3. UNCHANGED <<version, reader, closed, mFileTable>>
    BY <1>12 DEF WriteIndex, dataVars
  <2> QED BY <2>1, <2>2, <2>3
<1>13. CASE CloseData
  BY <1>13 DEF CloseData, dataVars, scriptVars
<1>14. CASE Flush
  BY <1>14 DEF Flush, dataVars, scriptVars
<1>15. CASE Crash
  <2>1. UNCHANGED <<version, index, reader, closed, mFileTable>> /\ upc' = "idle"
    BY <1>15 DEF Crash, Gone
  <2> QED BY <2>1
<1>16. CASE OpenReader
  BY <1>16 DEF OpenReader, dataVars, scriptVars
<1>17. CASE CloseReader
  BY <1>17 DEF CloseReader, dataVars, scriptVars
<1>18. CASE UNCHANGED codeVars
  BY <1>18 DEF codeVars, dataVars, scriptVars
<1> QED
  BY <1>1, <1>2, <1>3, <1>4, <1>5, <1>6, <1>7, <1>8, <1>9, <1>10, <1>11, <1>12, <1>13, <1>14, <1>15, <1>16, <1>17, <1>18 DEF CodeNext, Updater

\* Without a fault no script is left out.
LEMMA CachedStep ==
    ASSUME CodeTypeOK, DataOK, LoadInv, VersionInv, CachedInv, [CodeNext]_codeVars
    PROVE  CachedInv'
<1>b. loading # <<>> => upc \in {"scripts", "incs"}
  BY DEF LoadInv
<1>c. NoFile \notin Entry
  BY CodeConstants
<1>d. closed => upc = "idle"
  BY DEF LoadInv
<1> USE <1>b, <1>c DEF CachedInv
<1>1. CASE NewWriter
  <2>1. /\ ~closed' /\ upc' = "scripts" /\ todo' = Entry /\ mFileTable' = EmptyTable
    BY <1>1, Zenon DEF NewWriter
  <2>2. DOMAIN mFileTable' = {}
    BY <2>1 DEF EmptyTable
  <2> QED BY <2>1, <2>2
<1>2. ASSUME NEW f \in File, ExecuteFile(f) PROVE CachedInv'
  <2>1. UNCHANGED <<upc, enabled, mFileTable, index, faults, closed>>
    BY <1>2 DEF ExecuteFile, dataVars
  <2>2. cur = NoFile /\ cur' = f /\ todo' = todo \ {f} /\ upc \in {"scripts", "incs"}
    BY <1>2 DEF ExecuteFile
  <2>3. f \in Entry => loading' # <<>> /\ Head(loading') = f
    <3>1. SUFFICES ASSUME f \in Entry PROVE loading' # <<>> /\ Head(loading') = f
      OBVIOUS
    <3>2. loading' = <<f>> \o Needs[f] /\ <<f>> \in Seq(File) /\ Needs[f] \in Seq(File)
      BY <1>2, <3>1, CodeConstants DEF ExecuteFile
    <3> DEFINE a == <<f>>
               b == Needs[f]
    <3>3. a \in Seq(File) /\ b \in Seq(File) /\ Len(a) = 1 /\ a[1] = f /\ loading' = a \o b
      BY <3>2
    <3> HIDE DEF a, b
    <3>4. Len(b) \in Nat /\ 1 \in 1..(Len(a) + Len(b)) /\ 1 <= Len(a)
      BY <3>3
    <3>5. /\ Len(a \o b) = Len(a) + Len(b) /\ a \o b \in Seq(File)
          /\ \A i \in 1..(Len(a) + Len(b)) : (a \o b)[i] = IF i <= Len(a) THEN a[i] ELSE b[i - Len(a)]
      BY <3>3, ConcatProperties
    <3>6. (a \o b)[1] = f
      BY <3>3, <3>4, <3>5
    <3> QED BY <3>3, <3>4, <3>5, <3>6
  <2> QED BY <2>1, <2>2, <2>3
<1>3. CASE Skip
  <2>1. UNCHANGED <<upc, enabled, mFileTable, index, faults, closed, todo, cur>>
        /\ (enabled => Head(loading) \in DOMAIN mFileTable)
    BY <1>3 DEF Skip, dataVars, InCache
  <2> QED BY <2>1
<1>4. CASE WriteBlock
  <2>1. UNCHANGED <<upc, enabled, index, faults, closed, todo, cur>> /\ enabled
        /\ DOMAIN mFileTable' = DOMAIN mFileTable \cup {Head(loading)}
    BY <1>4 DEF WriteBlock, InCache
  <2> QED BY <2>1
<1>5. CASE LoadFail
  <2>1. faults' # {}
    BY <1>5 DEF LoadFail
  <2> QED BY <2>1
<1>6. CASE ShortWrite
  <2>1. faults' # {}
    BY <1>6 DEF ShortWrite
  <2> QED BY <2>1
<1>7. CASE RunFail
  <2>1. UNCHANGED <<upc, enabled, mFileTable, index, faults, closed, todo>> /\ Head(loading) # cur
    BY <1>7 DEF RunFail, dataVars
  <2> QED BY <2>1
<1>8. CASE ExecuteEnd
  <2>1. UNCHANGED <<enabled, mFileTable, index, faults, closed, todo>> /\ loading = <<>>
        /\ (faults = {} => upc' = upc)
    BY <1>8 DEF ExecuteEnd, dataVars
  <2> QED BY <2>1
<1>9. CASE ScriptsEnd
  <2>1. UNCHANGED <<enabled, mFileTable, index, faults, closed>> /\ cur = NoFile /\ todo = {}
        /\ upc = "scripts" /\ upc' = "database"
    BY <1>9 DEF ScriptsEnd, dataVars
  <2> QED BY <2>1
<1>10. CASE UpdateDatabase
  <2>1. UNCHANGED <<enabled, mFileTable, index, faults, closed>> /\ upc = "database" /\ upc' \in {"incs", "index"}
    BY <1>10 DEF UpdateDatabase, dataVars
  <2> QED BY <2>1
<1>11. CASE IncsEnd
  BY <1>11 DEF IncsEnd, dataVars, scriptVars
<1>12. CASE WriteIndex
  <2>1. UNCHANGED <<enabled, mFileTable, faults, closed>> /\ upc = "index" /\ upc' \in {"close", "index"}
    BY <1>12 DEF WriteIndex, dataVars
  <2> QED BY <2>1, <1>d
<1>13. CASE CloseData
  <2>1. UNCHANGED <<enabled, index, faults>> /\ upc = "close" /\ upc' = "idle"
    BY <1>13 DEF CloseData
  <2>2. DOMAIN index.table = DOMAIN mFileTable
    BY <2>1 DEF VersionInv
  <2> QED BY <2>1, <2>2
<1>14. CASE Flush
  BY <1>14 DEF Flush, dataVars, scriptVars
<1>15. CASE Crash
  <2>1. UNCHANGED <<enabled, index, mFileTable, faults, closed>> /\ upc' = "idle"
    BY <1>15 DEF Crash, Gone
  <2> QED BY <2>1
<1>16. CASE OpenReader
  BY <1>16 DEF OpenReader, dataVars, scriptVars
<1>17. CASE CloseReader
  BY <1>17 DEF CloseReader, dataVars, scriptVars
<1>18. CASE UNCHANGED codeVars
  BY <1>18 DEF codeVars, dataVars, scriptVars
<1> QED
  BY <1>1, <1>2, <1>3, <1>4, <1>5, <1>6, <1>7, <1>8, <1>9, <1>10, <1>11, <1>12, <1>13, <1>14, <1>15, <1>16, <1>17, <1>18 DEF CodeNext, Updater

-----------------------------------------------------------------------------
(* Offsets.                                                                *)

\* One data file is the beginning of another.
Begins(a, b) ==
    /\ a \in Seq(Cell) /\ b \in Seq(Cell)
    /\ Len(a) <= Len(b) /\ \A k \in 1..Len(a) : a[k] = b[k]

\* What is cut off does not matter to a reader that looks at the length.
LEMMA CutServes ==
    ASSUME NEW v, NEW a, NEW b, Begins(a, b), NEW table, OnFile(table),
           ServesWell(v, b, table)
    PROVE  ServesWell(v, a, table)
<1> SUFFICES ASSUME NEW f \in DOMAIN table, table[f] + Size[f] <= Len(a),
                    NEW k \in 1..Size[f]
             PROVE  a[table[f] + k] = <<v, f, k>>
  BY DEF ServesWell, BlockAt
<1>1. table[f] \in Nat /\ Size[f] \in Nat /\ Len(a) \in Nat /\ Len(b) \in Nat /\ Len(a) <= Len(b)
  <2>1. f \in File /\ table[f] \in Nat
    BY DEF OnFile
  <2>2. a \in Seq(Cell) /\ b \in Seq(Cell) /\ Len(a) <= Len(b)
    BY DEF Begins
  <2> QED BY <2>1, <2>2, CodeConstants
<1>2. table[f] + k \in 1..Len(a)
  BY <1>1
<1>3. a[table[f] + k] = b[table[f] + k]
  BY <1>2 DEF Begins
<1>4. b[table[f] + k] = <<v, f, k>>
  BY <1>1 DEF ServesWell, BlockAt
<1> QED BY <1>3, <1>4

\* What is appended neither.
LEMMA GrownServes ==
    ASSUME NEW v, NEW a, NEW b, Begins(a, b), NEW table, OnFile(table),
           AllInData(a, table), ServesWell(v, a, table)
    PROVE  AllInData(b, table) /\ ServesWell(v, b, table)
<1>1. ASSUME NEW f \in DOMAIN table
      PROVE  /\ table[f] \in Nat /\ Size[f] \in Nat /\ Len(a) \in Nat /\ Len(b) \in Nat
             /\ Len(a) <= Len(b) /\ table[f] + Size[f] <= Len(a)
  <2>1. f \in File /\ table[f] \in Nat
    BY DEF OnFile
  <2>2. a \in Seq(Cell) /\ b \in Seq(Cell) /\ Len(a) <= Len(b)
    BY DEF Begins
  <2>3. table[f] + Size[f] <= Len(a)
    BY DEF AllInData
  <2> QED BY <2>1, <2>2, <2>3, CodeConstants
<1>2. AllInData(b, table)
  BY <1>1 DEF AllInData
<1>3. ASSUME NEW f \in DOMAIN table, NEW k \in 1..Size[f]
      PROVE  b[table[f] + k] = <<v, f, k>>
  <2>1. table[f] + k \in 1..Len(a)
    BY <1>1
  <2>2. a[table[f] + k] = b[table[f] + k]
    BY <2>1 DEF Begins
  <2>3. a[table[f] + k] = <<v, f, k>>
    BY <1>1 DEF ServesWell, BlockAt
  <2> QED BY <2>2, <2>3
<1> QED BY <1>2, <1>3 DEF ServesWell, BlockAt

\* A part of a good table is good.
LEMMA PartServes ==
    ASSUME NEW v, NEW a, NEW table, NEW whole, PartOf(table, whole),
           AllInData(a, whole), ServesWell(v, a, whole)
    PROVE  AllInData(a, table) /\ ServesWell(v, a, table)
BY DEF PartOf, AllInData, ServesWell

\* A table with one entry more, whose block is at the end of the data.
LEMMA OneMore ==
    ASSUME NEW v \in Nat, NEW a \in Seq(Cell), NEW g \in File, NEW table, NEW more,
           OnFile(table), AllInData(a, table), ServesWell(v, a, table),
           DOMAIN more = DOMAIN table \cup {g}, more[g] = Len(a),
           \A h \in DOMAIN table : h # g => more[h] = table[h]
    PROVE  /\ AllInData(a \o Block(v, g), more) /\ ServesWell(v, a \o Block(v, g), more)
           /\ Len(a \o Block(v, g)) = Len(a) + Size[g]
<1> DEFINE new == Block(v, g)
           b == a \o new
<1>1. new \in Seq(Cell) /\ Len(new) = Size[g] /\ \A k \in 1..Size[g] : new[k] = <<v, g, k>>
  BY BlockCells
<1>2. Size[g] \in Nat
  BY CodeConstants
<1> HIDE DEF new
<1>3. /\ b \in Seq(Cell) /\ Len(a) \in Nat /\ Len(b) = Len(a) + Size[g]
      /\ \A k \in 1..Len(a) : b[k] = a[k]
      /\ \A k \in 1..Size[g] : b[Len(a) + k] = <<v, g, k>>
  <2>1. /\ b \in Seq(Cell) /\ Len(a) \in Nat /\ Len(b) = Len(a) + Len(new)
        /\ \A k \in 1..Len(a) : b[k] = a[k]
        /\ \A k \in 1..Len(new) : b[Len(a) + k] = new[k]
    BY <1>1, AppendCells
  <2> QED BY <2>1, <1>1
<1> HIDE DEF b
<1>4. Begins(a, b)
  BY <1>2, <1>3 DEF Begins
<1>5. AllInData(b, table) /\ ServesWell(v, b, table)
  BY <1>4, GrownServes
<1>6. AllInData(b, more)
  BY <1>2, <1>3, <1>5 DEF AllInData
<1>7. ASSUME NEW f \in DOMAIN more PROVE BlockAt(v, b, more[f], f)
  <2>1. CASE f = g
    BY <2>1, <1>3 DEF BlockAt
  <2>2. CASE f # g
    BY <2>2, <1>5 DEF ServesWell, AllInData
  <2> QED BY <2>1, <2>2
<1>8. ServesWell(v, b, more)
  BY <1>7 DEF ServesWell
<1> QED BY <1>3, <1>6, <1>8 DEF b, new

\* The invariant for one state of the variables it speaks of.
LEMMA OffsetSame ==
    ASSUME OffsetInv, UNCHANGED <<Data, version, mFileTable, mOffset, index, reader, closed>>,
           faults \subseteq faults', upc = "idle" => upc' = "idle"
    PROVE  OffsetInv'
BY DEF OffsetInv

\* Every offset that can be read leads to its block.
LEMMA OffsetStep ==
    ASSUME CodeTypeOK, DataOK, LoadInv, VersionInv, OffsetInv, [CodeNext]_codeVars
    PROVE  OffsetInv'
<1>a. /\ version \in Nat /\ index.ver \in Nat /\ reader.ver \in Nat
      /\ reader.ver <= index.ver /\ index.ver <= version
  <2>1. version \in 0..MaxUpdates /\ MaxUpdates \in Nat
    BY CodeConstants DEF CodeTypeOK, UpdaterOK
  <2>2. index.ver \in 0..version /\ reader.ver \in 0..version
    BY DEF CodeTypeOK, TablesOK
  <2> QED BY <2>1, <2>2 DEF VersionInv
<1>b. /\ disk \in Seq(Cell) /\ buf \in Seq(Cell) /\ Data \in Seq(Cell)
      /\ OnFile(mFileTable) /\ OnFile(index.table) /\ OnFile(reader.table)
  BY AppendCells DEF DataOK, Data, CodeTypeOK, TablesOK
<1>c. loading # <<>> => upc \in {"scripts", "incs"}
  BY DEF LoadInv
<1>d. closed => upc = "idle"
  BY DEF LoadInv
<1>e. ASSUME NEW a \in Seq(Cell) PROVE a \o <<>> = a
  BY ConcatEmptySeq
<1>f. UNCHANGED <<disk, buf>> => Data' = Data
  BY DEF Data
<1>1. CASE NewWriter
  <2>1. version' = version + 1 /\ ~closed' /\ UNCHANGED <<index, reader>>
    BY <1>1, Zenon DEF NewWriter
  <2>2. disk' = <<>> /\ buf' = <<>> /\ mFileTable' = EmptyTable /\ mOffset' = 0
    BY <1>1 DEF NewWriter
  <2>3. Data' = <<>> /\ Len(Data') = 0
    BY <2>2, <1>e DEF Data
  <2>4. DOMAIN mFileTable' = {}
    BY <2>2 DEF EmptyTable
  <2>5. AllInData(Data', mFileTable') /\ ServesWell(version', Data', mFileTable')
    BY <2>4 DEF AllInData, ServesWell
  <2>6. index'.ver # version' /\ reader'.ver # version'
    BY <2>1, <1>a
  <2> QED BY <2>1, <2>2, <2>3, <2>5, <2>6 DEF OffsetInv
<1>2. ASSUME NEW f \in File, ExecuteFile(f) PROVE OffsetInv'
  BY <1>2, <1>f, OffsetSame DEF ExecuteFile, dataVars
<1>3. CASE Skip
  BY <1>3, <1>f, OffsetSame DEF Skip, dataVars
<1>4. CASE WriteBlock
  <2> DEFINE g == Head(loading)
  <2>1. /\ g \in File /\ upc \in {"scripts", "incs"}
    BY <1>4, <1>c, FileInLoading DEF WriteBlock
  <2>2. /\ buf' = buf \o Block(version, g) /\ mOffset' = mOffset + Size[g]
        /\ mFileTable' = [h \in DOMAIN mFileTable \cup {g} |-> IF h = g THEN mOffset ELSE mFileTable[h]]
        /\ UNCHANGED <<upc, version, disk, index, faults, closed, reader>>
    BY <1>4 DEF WriteBlock
  <2>3. index.ver # version /\ reader.ver # version /\ ~closed
    BY <2>1, <1>a, <1>d DEF VersionInv
  <2> HIDE DEF g
  <2>4. Data' = Data \o Block(version, g)
    <3> DEFINE new == Block(version, g)
    <3>1. new \in Seq(Cell) /\ Data' = disk \o (buf \o new)
      BY <2>1, <2>2, <1>a, BlockCells DEF Data
    <3> HIDE DEF new
    <3>2. (disk \o buf) \o new = disk \o (buf \o new)
      BY <3>1, <1>b, AppendAssociative
    <3> QED BY <3>1, <3>2 DEF Data, new
  <2>5. ASSUME "short" \notin faults
        PROVE  /\ mOffset' = Len(Data')
               /\ AllInData(Data', mFileTable') /\ ServesWell(version', Data', mFileTable')
    <3>1. mOffset = Len(Data) /\ AllInData(Data, mFileTable) /\ ServesWell(version, Data, mFileTable)
      BY <2>1, <2>5 DEF OffsetInv
    <3>2. /\ AllInData(Data', mFileTable') /\ ServesWell(version, Data', mFileTable')
          /\ Len(Data') = Len(Data) + Size[g]
      <4> DEFINE d == Data
                 more == mFileTable'
      <4>1. d \in Seq(Cell) /\ OnFile(mFileTable) /\ AllInData(d, mFileTable) /\ ServesWell(version, d, mFileTable)
        BY <3>1, <1>b
      <4>2. /\ DOMAIN more = DOMAIN mFileTable \cup {g} /\ more[g] = Len(d)
            /\ \A h \in DOMAIN mFileTable : h # g => more[h] = mFileTable[h]
        BY <2>2, <3>1
      <4> HIDE DEF d, more
      <4>3. /\ AllInData(d \o Block(version, g), more) /\ ServesWell(version, d \o Block(version, g), more)
            /\ Len(d \o Block(version, g)) = Len(d) + Size[g]
        BY <2>1, <1>a, <4>1, <4>2, OneMore
      <4> QED BY <2>4, <4>3 DEF d, more
    <3> QED BY <2>2, <3>1, <3>2
  <2> QED BY <2>2, <2>3, <2>5 DEF OffsetInv
<1>5. CASE LoadFail
  <2>1. faults \subseteq faults' /\ (upc = "idle" => upc' = "idle")
    BY <1>5, <1>c DEF LoadFail
  <2>2. UNCHANGED <<disk, buf, version, mFileTable, mOffset, index, reader, closed>>
    BY <1>5 DEF LoadFail, dataVars
  <2> QED BY <1>f, <2>1, <2>2, OffsetSame
<1>6. CASE ShortWrite
  <2>1. "short" \in faults'
    BY <1>6 DEF ShortWrite
  <2> QED BY <2>1 DEF OffsetInv
<1>7. CASE RunFail
  BY <1>7, <1>f, OffsetSame DEF RunFail, dataVars
<1>8. CASE ExecuteEnd
  <2>1. upc = "idle" => upc' = "idle"
    BY <1>8 DEF ExecuteEnd
  <2>2. UNCHANGED <<disk, buf, version, mFileTable, mOffset, index, reader, closed, faults>>
    BY <1>8 DEF ExecuteEnd, dataVars
  <2> QED BY <1>f, <2>1, <2>2, OffsetSame
<1>9. CASE ScriptsEnd
  BY <1>9, <1>f, OffsetSame DEF ScriptsEnd, dataVars
<1>10. CASE UpdateDatabase
  <2>1. upc # "idle"
    BY <1>10 DEF UpdateDatabase
  <2>2. UNCHANGED <<disk, buf, version, mFileTable, mOffset, index, reader, closed, faults>>
    BY <1>10 DEF UpdateDatabase, dataVars
  <2> QED BY <1>f, <2>1, <2>2, OffsetSame
<1>11. CASE IncsEnd
  BY <1>11, <1>f, OffsetSame DEF IncsEnd, dataVars
<1>12. CASE WriteIndex
  <2>1. PICK part \in SUBSET DOMAIN mFileTable :
          index' = [ver |-> version, table |-> [f \in part |-> mFileTable[f]]]
    BY <1>12 DEF WriteIndex
  <2>2. upc = "index" /\ UNCHANGED <<disk, buf, version, mFileTable, mOffset, reader, closed, faults>>
    BY <1>12 DEF WriteIndex, dataVars
  <2>3. Data' = Data /\ ~closed
    BY <2>2, <1>d, <1>f
  <2>4. index'.ver = version /\ PartOf(index'.table, mFileTable)
    BY <2>1 DEF PartOf
  <2>5. ASSUME "short" \notin faults PROVE ServesWell(version, Data, index'.table)
    BY <2>2, <2>4, <2>5, PartServes DEF OffsetInv
  <2> QED BY <2>2, <2>3, <2>4, <2>5 DEF OffsetInv
<1>13. CASE CloseData
  <2>1. /\ upc = "close" /\ upc' = "idle" /\ disk' = disk \o buf /\ buf' = <<>>
        /\ UNCHANGED <<version, index, faults, reader>>
    BY <1>13 DEF CloseData
  <2>2. Data' = Data
    BY <2>1, <1>b, <1>e DEF Data
  <2>3. index.ver = version
    BY <2>1 DEF VersionInv
  <2>4. ASSUME "short" \notin faults PROVE AllInData(Data, index.table)
    BY <2>1, <2>3, <2>4, PartServes DEF OffsetInv
  <2> QED BY <2>1, <2>2, <2>3, <2>4 DEF OffsetInv
<1>14. CASE Flush
  <2>1. PICK n \in 1..Len(buf) : /\ disk' = disk \o SubSeq(buf, 1, n)
                                /\ buf' = SubSeq(buf, n + 1, Len(buf))
    BY <1>14 DEF Flush
  <2>2. Data' = Data
    BY <2>1, <1>b, PassOn DEF Data
  <2> QED BY <1>14, <2>2, OffsetSame DEF Flush, scriptVars
<1>15. CASE Crash
  <2>1. /\ upc # "idle" /\ upc' = "idle" /\ buf' = <<>>
        /\ UNCHANGED <<version, disk, index, faults, reader, closed>>
    BY <1>15 DEF Crash, Gone
  <2>2. Data' = disk /\ ~closed
    BY <2>1, <1>b, <1>d, <1>e DEF Data
  <2>3. Begins(disk, Data)
    BY <1>b, AppendCells DEF Begins, Data
  <2>4. ASSUME NEW table, OnFile(table), ServesWell(version, Data, table)
        PROVE  ServesWell(version, disk, table)
    BY <2>3, <2>4, CutServes
  <2> QED BY <2>1, <2>2, <2>4, <1>b DEF OffsetInv
<1>16. CASE OpenReader
  <2>1. /\ reader'.ver = index.ver /\ reader'.table = index.table
        /\ UNCHANGED <<upc, disk, buf, version, mFileTable, mOffset, index, closed, faults>>
    BY <1>16 DEF OpenReader, dataVars
  <2> QED BY <2>1, <1>f DEF OffsetInv
<1>17. CASE CloseReader
  <2>1. /\ reader'.table = EmptyTable
        /\ UNCHANGED <<upc, disk, buf, version, mFileTable, mOffset, index, closed, faults>>
    BY <1>17 DEF CloseReader, dataVars
  <2>2. DOMAIN reader'.table = {}
    BY <2>1 DEF EmptyTable
  <2>3. PartOf(reader'.table, mFileTable) /\ ServesWell(version, Data, reader'.table)
    BY <2>2 DEF PartOf, ServesWell
  <2> QED BY <2>1, <2>3, <1>f DEF OffsetInv
<1>18. CASE UNCHANGED codeVars
  BY <1>18, <1>f, OffsetSame DEF codeVars, dataVars, scriptVars
<1> QED
  BY <1>1, <1>2, <1>3, <1>4, <1>5, <1>6, <1>7, <1>8, <1>9, <1>10, <1>11, <1>12, <1>13, <1>14, <1>15, <1>16, <1>17, <1>18 DEF CodeNext, Updater

LEMMA CodeInitInv == ASSUME CodeInit PROVE CodeInv
<1>1. /\ upc = "idle" /\ buf = <<>> /\ disk = <<>> /\ version = 0 /\ cur = NoFile /\ loading = <<>>
      /\ index.ver = 0 /\ reader.ver = 0
  BY DEF CodeInit
<1>2. DOMAIN index.table = {} /\ DOMAIN reader.table = {}
  BY DEF CodeInit, EmptyTable
<1>3. OffsetInv
  BY <1>1, <1>2 DEF OffsetInv, ServesWell, AllInData
<1>4. LoadInv /\ VersionInv /\ CachedInv
  BY <1>1, <1>2 DEF LoadInv, VersionInv, CachedInv
<1> QED BY <1>3, <1>4, CodeInitType DEF CodeInv

LEMMA CodeInvStep == ASSUME CodeInv, [CodeNext]_codeVars PROVE CodeInv'
<1> USE DEF CodeInv
<1>1. CodeTypeOK' /\ DataOK'
  BY CodeTypeStep, DataStep
<1>2. LoadInv' /\ VersionInv'
  BY LoadStep, VersionStep
<1>3. OffsetInv' /\ CachedInv'
  BY OffsetStep, CachedStep
<1> QED BY <1>1, <1>2, <1>3

\* What is read of data is the block, where the block is.
LEMMA ReadsBlock ==
    ASSUME NEW data \in Seq(Cell), NEW table, OnFile(table), NEW f \in DOMAIN table,
           version \in Nat,
           CanRead(data, table, f), BlockAt(version, data, table[f], f)
    PROVE  Read(data, table, f) = Block(version, f)
<1> DEFINE o == table[f]
<1>1. f \in File /\ o \in Nat /\ Size[f] \in Nat /\ o + Size[f] <= Len(data) /\ Len(data) \in Nat
  BY CodeConstants DEF OnFile, CanRead
<1>2. \A k \in 1..Size[f] : data[o + k] = <<version, f, k>>
  BY DEF BlockAt
<1>3. /\ Block(version, f) \in Seq(Cell) /\ Len(Block(version, f)) = Size[f]
      /\ \A k \in 1..Size[f] : Block(version, f)[k] = <<version, f, k>>
  BY <1>1, BlockCells
<1> HIDE DEF o
<1>4. \A i \in (o + 1)..(o + Size[f]) : data[i] \in Cell
  BY <1>1
<1>5. /\ SubSeq(data, o + 1, o + Size[f]) \in Seq(Cell)
      /\ Len(SubSeq(data, o + 1, o + Size[f])) = Size[f]
      /\ \A k \in 1..Size[f] : SubSeq(data, o + 1, o + Size[f])[k] = data[o + k]
  <2>1. /\ SubSeq(data, o + 1, o + Size[f]) \in Seq(Cell)
        /\ Len(SubSeq(data, o + 1, o + Size[f])) =
                IF o + 1 <= o + Size[f] THEN (o + Size[f]) - (o + 1) + 1 ELSE 0
        /\ \A k \in 1..((o + Size[f]) - (o + 1) + 1) :
                SubSeq(data, o + 1, o + Size[f])[k] = data[(o + 1) + k - 1]
    BY <1>1, <1>4, SubSeqProperties
  <2> QED BY <2>1, <1>1
<1> DEFINE a == SubSeq(data, o + 1, o + Size[f])
           b == Block(version, f)
<1>6. /\ a \in Seq(Cell) /\ b \in Seq(Cell) /\ Len(a) = Len(b)
      /\ \A k \in 1..Len(a) : a[k] = b[k]
  BY <1>2, <1>3, <1>5
<1> HIDE DEF a, b
<1>7. a = b
  BY <1>6, SeqEqual
<1> QED BY <1>7 DEF a, b, o, Read

LEMMA CodeInvSafe == ASSUME CodeInv PROVE NeverAnotherFile /\ ClosedUpdateServes /\ SelectableIsCached
<1>1. version \in Nat /\ disk \in Seq(Cell) /\ Data \in Seq(Cell) /\ Begins(disk, Data)
      /\ OnFile(reader.table) /\ OnFile(index.table)
  <2>1. version \in 0..MaxUpdates /\ MaxUpdates \in Nat
    BY CodeConstants DEF CodeInv, CodeTypeOK, UpdaterOK
  <2> QED BY <2>1, AppendCells DEF CodeInv, DataOK, Data, Begins, CodeTypeOK, TablesOK
<1>2. NeverAnotherFile
  <2> SUFFICES ASSUME reader.ver = version, "short" \notin faults,
                      NEW f \in DOMAIN reader.table, CanRead(disk, reader.table, f)
               PROVE  Read(disk, reader.table, f) = Block(version, f)
    BY DEF NeverAnotherFile
  <2>1. ServesWell(version, disk, reader.table)
    BY <1>1, CutServes DEF CodeInv, OffsetInv
  <2>2. BlockAt(version, disk, reader.table[f], f)
    BY <2>1 DEF ServesWell, CanRead
  <2> QED BY <1>1, <2>2, ReadsBlock
<1>3. ClosedUpdateServes
  <2> SUFFICES ASSUME closed, "short" \notin faults
               PROVE  index.ver = version /\ \A f \in DOMAIN index.table :
                        /\ CanRead(disk, index.table, f)
                        /\ Read(disk, index.table, f) = Block(version, f)
    BY DEF ClosedUpdateServes
  <2>1. index.ver = version /\ buf = <<>>
    BY DEF CodeInv, VersionInv, LoadInv
  <2>2. Data = disk
    BY <1>1, <2>1, ConcatEmptySeq DEF Data
  <2>3. ServesWell(version, disk, index.table) /\ AllInData(disk, index.table)
    BY <2>1, <2>2 DEF CodeInv, OffsetInv
  <2>4. ASSUME NEW f \in DOMAIN index.table
        PROVE  CanRead(disk, index.table, f) /\ BlockAt(version, disk, index.table[f], f)
    BY <2>3 DEF CanRead, ServesWell, AllInData
  <2> QED BY <1>1, <2>1, <2>4, ReadsBlock
<1>4. SelectableIsCached
  BY DEF CodeInv, CachedInv, CodeTypeOK, UpdaterOK, SelectableIsCached
<1> QED BY <1>2, <1>3, <1>4

\* A script source takes steps of a code cache, or none.
LEMMA SourceStep == ASSUME [SourceNext]_sourceVars PROVE [CodeNext]_codeVars
BY DEF SourceNext, CodeStep, PackageStep, sourceVars

\* However many files, scripts and updates there are, whatever is killed and
\* whenever, the cache's invariant holds.
THEOREM CodeIndInvariant == FairSourceSpec => []CodeInv
<1>1. SourceInit => CodeInv
  BY CodeInitInv DEF SourceInit
<1>2. CodeInv /\ [SourceNext]_sourceVars => CodeInv'
  BY CodeInvStep, SourceStep
<1> QED BY <1>1, <1>2, PTL DEF FairSourceSpec

\* BlockFile::Read never gives a file under another's name.
THEOREM ServedUnderItsName == FairSourceSpec => []NeverAnotherFile
BY CodeIndInvariant, CodeInvSafe, PTL

\* BlockFile::Close leaves an index and data that agree.
THEOREM ClosedServes == FairSourceSpec => []ClosedUpdateServes
BY CodeIndInvariant, CodeInvSafe, PTL

\* After an update without a fault the database names only scripts of the cache.
THEOREM SelectableCached == FairSourceSpec => []SelectableIsCached
BY CodeIndInvariant, CodeInvSafe, PTL

=============================================================================
