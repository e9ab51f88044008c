-------------------------- MODULE HostThread_proofs --------------------------
(***************************************************************************)
(* Proofs about a host thread: the script loop (HostScripts) for any hosts,*)
(* script groups and fork counts; then the service detection and the thread*)
(* that composes the two, for any ports, threads and finds.                *)
(***************************************************************************)
EXTENDS HostThread, SequenceTheorems, WellFoundedInduction, TLAPS

LEMMA TypeInit == ASSUME Init PROVE TypeOK
BY GroupsAssumption DEF Init, TypeOK, Pc

LEMMA TypeStep == ASSUME TypeOK, [Next]_vars PROVE TypeOK'
<1> USE GroupsAssumption DEF TypeOK, Pc
<1>1. ASSUME NEW h \in Host, HostStep(h) PROVE TypeOK'
  <2>1. CASE SkipScript(h)
    BY <2>1 DEF SkipScript, CountScript
  <2>2. CASE RunScript(h)
    <3>1. pc' \in [Host -> Pc] /\ UNCHANGED <<group, left, exit, executedScriptCount>>
      BY <2>2 DEF RunScript
    <3>2. /\ index' \in [Host -> Nat] /\ scriptProgress' \in [Host -> Nat]
          /\ mFinishedScriptCount' \in Nat
      BY <2>2 DEF RunScript, CountScript
    <3>3. begun' \in [Host -> Nat] /\ late' \in [Host -> Nat]
      BY <2>2 DEF RunScript, Begin
    <3> QED BY <3>1, <3>2, <3>3
  <2>3. CASE RunEnd(h)
    <3>1. UNCHANGED <<group, index, exit, scriptProgress, mFinishedScriptCount, begun, late>>
      BY <2>3 DEF RunEnd
    <3>2. \/ UNCHANGED <<left, executedScriptCount>>
          \/ /\ \E n \in 1..MaxForks : left' = [left EXCEPT ![h] = n]
             /\ UNCHANGED executedScriptCount
          \/ /\ executedScriptCount' = [executedScriptCount EXCEPT ![h] = @ + 1]
             /\ UNCHANGED left
      BY <2>3, Zenon DEF RunEnd
    <3>3. left' \in [Host -> Nat] /\ executedScriptCount' \in [Host -> Nat]
      <4>1. CASE UNCHANGED <<left, executedScriptCount>>
        BY <4>1
      <4>2. ASSUME NEW n \in 1..MaxForks, left' = [left EXCEPT ![h] = n],
                   UNCHANGED executedScriptCount
            PROVE  left' \in [Host -> Nat] /\ executedScriptCount' \in [Host -> Nat]
        <5>1. n \in Nat
          BY <4>2
        <5> QED BY <4>2, <5>1
      <4>3. CASE /\ executedScriptCount' = [executedScriptCount EXCEPT ![h] = @ + 1]
                 /\ UNCHANGED left
        BY <4>3
      <4> QED BY <3>2, <4>1, <4>2, <4>3
    <3>4. pc' \in [Host -> Pc]
      BY <2>3 DEF RunEnd
    <3> QED BY <3>1, <3>3, <3>4
  <2>4. CASE ForkAgain(h)
    <3>1. /\ left[h] > 0 /\ left' = [left EXCEPT ![h] = @ - 1]
          /\ UNCHANGED <<group, index, exit, countVars, begun>>
      BY <2>4 DEF ForkAgain
    <3>2. left' \in [Host -> Nat]
      BY <3>1
    <3>3. pc' \in [Host -> Pc]
      BY <2>4 DEF ForkAgain
    <3>4. late' \in [Host -> Nat]
      BY <2>4 DEF ForkAgain, Begin
    <3> QED BY <3>1, <3>2, <3>3, <3>4 DEF countVars
  <2>5. CASE ForkRunEnd(h)
    BY <2>5 DEF ForkRunEnd, countVars
  <2>6. CASE ForkEnd(h)
    BY <2>6 DEF ForkEnd
  <2>7. CASE GroupDone(h)
    BY <2>7 DEF GroupDone, countVars
  <2>8. CASE GroupEnd(h)
    <3>1. UNCHANGED <<left, exit, countVars, begun, late>>
      BY <2>8 DEF GroupEnd
    <3>2. CASE exit[h] \/ group[h] >= NumGroups
      BY <2>8, <3>1, <3>2 DEF GroupEnd, countVars
    <3>3. CASE ~(exit[h] \/ group[h] >= NumGroups)
      <4>1. pc' = [pc EXCEPT ![h] = "next"]
            /\ group' = [group EXCEPT ![h] = @ + 1] /\ index' = [index EXCEPT ![h] = 0]
        BY <2>8, <3>3, Zenon DEF GroupEnd
      <4>2. pc' \in [Host -> Pc]
        BY <4>1
      <4>3. group' \in [Host -> Nat \ {0}]
        BY <4>1
      <4>4. index' \in [Host -> Nat]
        BY <4>1
      <4> QED BY <3>1, <4>2, <4>3, <4>4 DEF countVars
    <3> QED BY <3>2, <3>3
  <2> QED BY <1>1, <2>1, <2>2, <2>3, <2>4, <2>5, <2>6, <2>7, <2>8 DEF HostStep
<1>2. ASSUME NEW h \in Host, SetExit(h) PROVE TypeOK'
  BY <1>2 DEF SetExit, hostVars, countVars
<1>3. CASE UNCHANGED vars
  BY <1>3 DEF vars, hostVars, countVars
<1> QED BY <1>1, <1>2, <1>3 DEF Next

\* The loop's counters and positions keep their types.
THEOREM TypeCorrect == Spec => []TypeOK
BY TypeInit, TypeStep, PTL DEF Spec

-----------------------------------------------------------------------------

\* An execution begun late is the last one: it runs, or the loop is being left.
LEMMA LateStep == ASSUME TypeOK, LateInv, [Next]_vars PROVE LateInv'
<1> USE DEF TypeOK, LateInv
<1>1. ASSUME NEW h \in Host, HostStep(h) PROVE LateInv'
  <2>1. CASE SkipScript(h)
    BY <2>1 DEF SkipScript
  <2>2. CASE RunScript(h)
    BY <2>2 DEF RunScript, Begin
  <2>3. CASE RunEnd(h)
    BY <2>3 DEF RunEnd
  <2>4. CASE ForkAgain(h)
    BY <2>4 DEF ForkAgain, Begin
  <2>5. CASE ForkRunEnd(h)
    BY <2>5 DEF ForkRunEnd
  <2>6. CASE ForkEnd(h)
    BY <2>6 DEF ForkEnd
  <2>7. CASE GroupDone(h)
    BY <2>7 DEF GroupDone
  <2>8. CASE GroupEnd(h)
    BY <2>8 DEF GroupEnd
  <2> QED BY <1>1, <2>1, <2>2, <2>3, <2>4, <2>5, <2>6, <2>7, <2>8 DEF HostStep
<1>2. ASSUME NEW h \in Host, SetExit(h) PROVE LateInv'
  BY <1>2 DEF SetExit, hostVars
<1>3. CASE UNCHANGED vars
  BY <1>3 DEF vars, hostVars
<1> QED BY <1>1, <1>2, <1>3 DEF Next

\* However many scripts, groups and forked runs there are, a stopped host
\* begins at most one more execution.
THEOREM StopCostsOneRun == Spec => []AtMostOneLateRun
<1>1. Init => TypeOK /\ LateInv
  BY TypeInit DEF Init, LateInv
<1>2. TypeOK /\ LateInv /\ [Next]_vars => (TypeOK /\ LateInv)'
  BY TypeStep, LateStep
<1>3. TypeOK /\ LateInv => AtMostOneLateRun
  BY DEF LateInv, AtMostOneLateRun, TypeOK
<1> QED BY <1>1, <1>2, <1>3, PTL DEF Spec

-----------------------------------------------------------------------------

\* At most one script is begun and not yet counted.
LEMMA PendingStep == ASSUME TypeOK, PendingInv, [Next]_vars PROVE PendingInv'
<1> USE DEF TypeOK, PendingInv, Pending
<1>1. ASSUME NEW h \in Host, HostStep(h) PROVE PendingInv'
  <2>1. CASE SkipScript(h)
    BY <2>1 DEF SkipScript
  <2>2. CASE RunScript(h)
    BY <2>2 DEF RunScript
  <2>3. CASE RunEnd(h)
    BY <2>3 DEF RunEnd
  <2>4. CASE ForkAgain(h)
    BY <2>4 DEF ForkAgain, countVars
  <2>5. CASE ForkRunEnd(h)
    BY <2>5 DEF ForkRunEnd, countVars
  <2>6. CASE ForkEnd(h)
    BY <2>6 DEF ForkEnd
  <2>7. CASE GroupDone(h)
    BY <2>7 DEF GroupDone, countVars
  <2>8. CASE GroupEnd(h)
    BY <2>8 DEF GroupEnd, countVars
  <2> QED BY <1>1, <2>1, <2>2, <2>3, <2>4, <2>5, <2>6, <2>7, <2>8 DEF HostStep
<1>2. ASSUME NEW h \in Host, SetExit(h) PROVE PendingInv'
  BY <1>2 DEF SetExit, hostVars, countVars
<1>3. CASE UNCHANGED vars
  BY <1>3 DEF vars, hostVars, countVars
<1> QED BY <1>1, <1>2, <1>3 DEF Next

\* The executed count of a report is exact up to the script Exit cut off.
THEOREM ExecutedCount == Spec => []ExecutedCountExact
<1>1. Init => TypeOK /\ PendingInv
  BY TypeInit DEF Init, PendingInv, Pending
<1>2. TypeOK /\ PendingInv /\ [Next]_vars => (TypeOK /\ PendingInv)'
  BY TypeStep, PendingStep
<1>3. TypeOK /\ PendingInv => ExecutedCountExact
  BY DEF PendingInv, Pending, ExecutedCountExact, TypeOK, Pc
<1> QED BY <1>1, <1>2, <1>3, PTL DEF Spec

-----------------------------------------------------------------------------
(* What a function that is defined by recursion computes.                  *)

LEMMA NatInductionSet ==
  ASSUME NEW S \in SUBSET Nat, 0 \in S, \A n \in S : n + 1 \in S
  PROVE  \A n \in Nat : n \in S
<1> DEFINE R == {ss \in Nat \X Nat : ss[1] < ss[2]}
<1>0. IsWellFoundedOn(R, Nat)
  BY NatLessThanWellFounded, Zenon DEF OpToRel
<1>1. SUFFICES ASSUME NEW T, T = Nat \ S, T # {} PROVE FALSE
  OBVIOUS
<1>2. PICK x \in T : \A y \in T : ~ (<<y, x>> \in R)
  <2> HIDE DEF R
  <2> QED BY <1>0, <1>1, WFMin
<1>3. x # 0 /\ x - 1 \in Nat
  BY <1>1
<1>4. <<x - 1, x>> \in R
  BY <1>3, <1>1
<1>5. x - 1 \in S
  BY <1>2, <1>3, <1>4, <1>1
<1> QED BY <1>5, <1>3, <1>1

\* f is what starts with base and goes on with step, N times.
Iterates(f, N, S, base, step) ==
    /\ f \in [0..N -> S]
    /\ f[0] = base
    /\ \A n \in 1..N : f[n] = step[n][f[n - 1]]

LEMMA Recursion ==
  ASSUME NEW N \in Nat, NEW S, NEW base \in S, NEW step \in [1..N -> [S -> S]]
  PROVE  \E f : Iterates(f, N, S, base, step)
<1> DEFINE Upto(m) == \E f \in [0..m -> S] :
                f[0] = base /\ \A n \in 1..m : f[n] = step[n][f[n - 1]]
           T == {m \in Nat : m <= N => Upto(m)}
<1>1. Upto(0)
  <2> DEFINE g == [i \in 0..0 |-> base]
  <2>1. g \in [0..0 -> S]
    OBVIOUS
  <2>2. g[0] = base
    OBVIOUS
  <2>3. 1..0 = {}
    OBVIOUS
  <2> HIDE DEF g
  <2> QED BY <2>1, <2>2, <2>3
<1>2. ASSUME NEW m \in Nat, m + 1 <= N, Upto(m) PROVE Upto(m + 1)
  <2>1. PICK f \in [0..m -> S] : f[0] = base /\ \A n \in 1..m : f[n] = step[n][f[n - 1]]
    BY <1>2
  <2>2. m + 1 \in 1..N
    BY <1>2
  <2> DEFINE g == [i \in 0..(m + 1) |-> IF i = m + 1 THEN step[m + 1][f[m]] ELSE f[i]]
  <2>3. step[m + 1][f[m]] \in S
    BY <2>1, <2>2
  <2>4. \A i \in 0..m : i \in 0..(m + 1) /\ i # m + 1
    BY <1>2
  <2>5. g \in [0..(m + 1) -> S]
    BY <2>1, <2>3
  <2>6. g[0] = base
    BY <2>1, <2>4
  <2>7. ASSUME NEW n \in 1..(m + 1) PROVE g[n] = step[n][g[n - 1]]
    <3>1. n - 1 \in 0..m
      BY <1>2
    <3>2. g[n - 1] = f[n - 1]
      BY <3>1, <2>4
    <3>3. CASE n = m + 1
      BY <3>2, <3>3
    <3>4. CASE n # m + 1
      <4>1. n \in 1..m
        BY <3>4, <1>2
      <4> QED BY <4>1, <3>2, <2>1
    <3> QED BY <3>3, <3>4
  <2> HIDE DEF g
  <2> QED BY <2>5, <2>6, <2>7
<1>3. 0 \in T
  BY <1>1
<1>4. \A m \in T : m + 1 \in T
  <2> SUFFICES ASSUME NEW m \in T PROVE m + 1 \in T
    OBVIOUS
  <2>1. m \in Nat /\ (m <= N => Upto(m))
    OBVIOUS
  <2> HIDE DEF Upto
  <2>2. m + 1 <= N => Upto(m + 1)
    BY <2>1, <1>2
  <2> QED BY <2>1, <2>2
<1>5. T \in SUBSET Nat
  OBVIOUS
<1>6. N \in T
  <2> HIDE DEF T
  <2> QED BY <1>3, <1>4, <1>5, NatInductionSet
<1>7. Upto(N)
  <2> HIDE DEF Upto
  <2> QED BY <1>6
<1> QED BY <1>7 DEF Iterates

-----------------------------------------------------------------------------

\* ScriptsUpTo adds up the groups.
LEMMA ScriptsUpToFacts ==
  /\ ScriptsUpTo \in [0..NumGroups -> Nat]
  /\ ScriptsUpTo[0] = 0
  /\ \A n \in 1..NumGroups : ScriptsUpTo[n] = ScriptsUpTo[n - 1] + GroupSize[n]
<1> DEFINE step == [n \in 1..NumGroups |-> [t \in Nat |-> t + GroupSize[n]]]
           Sum(f) == f = [n \in 0..NumGroups |-> IF n = 0 THEN 0 ELSE f[n - 1] + GroupSize[n]]
<1>1. NumGroups \in Nat /\ GroupSize \in [1..NumGroups -> Nat]
  BY GroupsAssumption
<1>2. step \in [1..NumGroups -> [Nat -> Nat]]
  BY <1>1
<1>3. PICK f : Iterates(f, NumGroups, Nat, 0, step)
  <2> HIDE DEF step
  <2> QED BY <1>1, <1>2, Recursion
<1>4. \A n \in 1..NumGroups : n - 1 \in 0..NumGroups /\ n \in 0..NumGroups /\ n # 0
  BY <1>1
<1>5. /\ f \in [0..NumGroups -> Nat] /\ f[0] = 0
      /\ \A n \in 1..NumGroups : f[n] = f[n - 1] + GroupSize[n]
  BY <1>3, <1>4 DEF Iterates
<1>6. Sum(f)
  <2>1. \A n \in 0..NumGroups : n = 0 \/ n \in 1..NumGroups
    BY <1>1
  <2> QED BY <1>5, <2>1
<1>7. Sum(ScriptsUpTo)
  BY <1>6 DEF ScriptsUpTo
<1>8. ScriptsUpTo[0] = 0
  BY <1>7, <1>1
<1>9. \A n \in 1..NumGroups : ScriptsUpTo[n] = ScriptsUpTo[n - 1] + GroupSize[n]
  BY <1>7, <1>4
<1>10. \A n \in 0..NumGroups : ScriptsUpTo[n] \in Nat
  <2> DEFINE S == {n \in Nat : n <= NumGroups => ScriptsUpTo[n] \in Nat}
  <2>1. 0 \in S
    BY <1>8
  <2>2. \A n \in S : n + 1 \in S
    BY <1>9, <1>1
  <2>3. \A n \in Nat : n \in S
    <3> HIDE DEF S
    <3> QED BY <2>1, <2>2, NatInductionSet DEF S
  <2> QED BY <2>3, <1>1
<1>11. DOMAIN ScriptsUpTo = 0..NumGroups /\ ScriptsUpTo = [n \in 0..NumGroups |-> ScriptsUpTo[n]]
  BY <1>7
<1> QED BY <1>8, <1>9, <1>10, <1>11

\* A script that is counted is one further in its group.
LEMMA Counted ==
  ASSUME TypeOK, SeenInv, NEW h \in Host, HasNext(h), pc[h] = "next", group' = group, exit' = exit,
         index' = [index EXCEPT ![h] = @ + 1], scriptProgress' = [scriptProgress EXCEPT ![h] = @ + 1],
         pc'[h] \notin {"groupEnd", "end"}, \A g \in Host \ {h} : pc'[g] = pc[g]
  PROVE  SeenInv'
<1>1. /\ group[h] \in Nat \ {0} /\ index[h] \in Nat /\ scriptProgress[h] \in Nat
      /\ NumGroups \in Nat /\ GroupSize \in [1..NumGroups -> Nat]
      /\ group[h] <= NumGroups /\ index[h] < GroupSize[group[h]]
      /\ scriptProgress[h] = ScriptsUpTo[group[h] - 1] + index[h]
  BY GroupsAssumption DEF TypeOK, SeenInv, HasNext
<1>2. /\ index'[h] = index[h] + 1 /\ scriptProgress'[h] = scriptProgress[h] + 1
  BY DEF TypeOK
<1>3. ScriptsUpTo[group[h] - 1] \in Nat
  <2>1. group[h] - 1 \in 0..NumGroups
    BY <1>1
  <2> QED BY <2>1, ScriptsUpToFacts
<1>4. GroupSize[group[h]] \in Nat
  BY <1>1
<1>5. /\ scriptProgress'[h] = ScriptsUpTo[group[h] - 1] + index'[h]
      /\ index'[h] <= GroupSize[group[h]]
  <2> DEFINE u == ScriptsUpTo[group[h] - 1]
             size == GroupSize[group[h]]
             x == index[h]
  <2>1. u \in Nat /\ size \in Nat /\ x \in Nat /\ x < size /\ scriptProgress[h] = u + x
        /\ index'[h] = x + 1 /\ scriptProgress'[h] = scriptProgress[h] + 1
    BY <1>1, <1>2, <1>3, <1>4
  <2> HIDE DEF u, size, x
  <2>2. scriptProgress'[h] = u + index'[h] /\ index'[h] <= size
    BY <2>1
  <2> QED BY <2>2 DEF u, size
<1>6. ASSUME NEW g \in Host, g # h
      PROVE  index'[g] = index[g] /\ scriptProgress'[g] = scriptProgress[g] /\ pc'[g] = pc[g]
  BY <1>6 DEF TypeOK
<1> QED BY <1>1, <1>5, <1>6 DEF HasNext, SeenInv

\* What the loop adds to the progress is what it goes forward.
LEMMA SeenStep == ASSUME TypeOK, SeenInv, [Next]_vars PROVE SeenInv'
<1> USE DEF TypeOK, SeenInv
<1>1. ASSUME NEW h \in Host, HostStep(h) PROVE SeenInv'
  <2>1. CASE SkipScript(h)
    <3>1. /\ group' = group /\ exit' = exit
          /\ index' = [index EXCEPT ![h] = @ + 1]
          /\ scriptProgress' = [scriptProgress EXCEPT ![h] = @ + 1]
          /\ pc[h] = "next" /\ pc'[h] \notin {"groupEnd", "end"} /\ \A g \in Host \ {h} : pc'[g] = pc[g]
          /\ HasNext(h)
      BY <2>1 DEF SkipScript, CountScript
    <3> QED BY <3>1, Counted
  <2>2. CASE RunScript(h)
    <3>1. /\ group' = group /\ exit' = exit
          /\ index' = [index EXCEPT ![h] = @ + 1]
          /\ scriptProgress' = [scriptProgress EXCEPT ![h] = @ + 1]
          /\ pc[h] = "next" /\ pc'[h] \notin {"groupEnd", "end"} /\ \A g \in Host \ {h} : pc'[g] = pc[g]
          /\ HasNext(h)
      BY <2>2 DEF RunScript, CountScript
    <3> QED BY <3>1, Counted
  <2>3. CASE RunEnd(h)
    BY <2>3 DEF RunEnd, HasNext
  <2>4. CASE ForkAgain(h)
    BY <2>4 DEF ForkAgain, countVars, HasNext
  <2>5. CASE ForkRunEnd(h)
    BY <2>5 DEF ForkRunEnd, countVars, HasNext
  <2>6. CASE ForkEnd(h)
    BY <2>6 DEF ForkEnd, HasNext
  <2>7. CASE GroupDone(h)
    BY <2>7 DEF GroupDone, countVars, HasNext
  <2>8. CASE GroupEnd(h)
    <3>1. pc[h] = "groupEnd" /\ UNCHANGED <<exit, scriptProgress>>
      BY <2>8 DEF GroupEnd, countVars
    <3>2. CASE exit[h] \/ group[h] >= NumGroups
      <4>1. pc' = [pc EXCEPT ![h] = "end"] /\ UNCHANGED <<group, index>>
        BY <2>8, <3>2 DEF GroupEnd
      <4> QED BY <3>1, <3>2, <4>1 DEF HasNext
    <3>3. CASE ~(exit[h] \/ group[h] >= NumGroups)
      <4>1. /\ pc' = [pc EXCEPT ![h] = "next"]
            /\ group' = [group EXCEPT ![h] = @ + 1] /\ index' = [index EXCEPT ![h] = 0]
        BY <2>8, <3>3, Zenon DEF GroupEnd
      <4> DEFINE i == group[h]
      <4>2. /\ i \in 1..NumGroups /\ i + 1 \in 1..NumGroups
            /\ index[h] = GroupSize[i] /\ scriptProgress[h] = ScriptsUpTo[i - 1] + GroupSize[i]
        <5>1. /\ i \in Nat \ {0} /\ NumGroups \in Nat /\ i < NumGroups
              /\ GroupSize \in [1..NumGroups -> Nat] /\ index[h] \in Nat
          BY <3>3, GroupsAssumption DEF TypeOK
        <5>2. /\ index[h] <= GroupSize[i] /\ ~(index[h] < GroupSize[i])
              /\ scriptProgress[h] = ScriptsUpTo[i - 1] + index[h]
          BY <3>1, <3>3, <5>1 DEF HasNext, SeenInv
        <5>3. GroupSize[i] \in Nat
          BY <5>1
        <5>4. index[h] = GroupSize[i]
          BY <5>1, <5>2, <5>3
        <5> QED BY <5>1, <5>2, <5>4
      <4>3. scriptProgress[h] = ScriptsUpTo[i] /\ ScriptsUpTo[i] \in Nat /\ i \in Nat
        BY <4>2, ScriptsUpToFacts
      <4>4. group'[h] = i + 1 /\ index'[h] = 0 /\ pc'[h] = "next" /\ scriptProgress'[h] = ScriptsUpTo[i]
        BY <3>1, <4>1, <4>3 DEF TypeOK
      <4>5. GroupSize[i + 1] \in Nat /\ (i + 1) - 1 = i /\ i + 1 <= NumGroups
        BY <4>2, <4>3, GroupsAssumption
      <4>6. ASSUME NEW g \in Host, g # h
            PROVE  /\ group'[g] = group[g] /\ index'[g] = index[g] /\ pc'[g] = pc[g]
                   /\ scriptProgress'[g] = scriptProgress[g] /\ exit'[g] = exit[g]
        BY <3>1, <4>1, <4>6 DEF TypeOK
      <4>7. /\ group'[h] <= NumGroups
            /\ scriptProgress'[h] = ScriptsUpTo[group'[h] - 1] + index'[h]
            /\ index'[h] <= GroupSize[group'[h]]
        BY <4>3, <4>4, <4>5
      <4> HIDE DEF i
      <4> QED BY <4>4, <4>6, <4>7 DEF HasNext, SeenInv
    <3> QED BY <3>2, <3>3
  <2> QED BY <1>1, <2>1, <2>2, <2>3, <2>4, <2>5, <2>6, <2>7, <2>8 DEF HostStep
<1>2. ASSUME NEW h \in Host, SetExit(h) PROVE SeenInv'
  BY <1>2 DEF SetExit, hostVars, countVars, HasNext
<1>3. CASE UNCHANGED vars
  BY <1>3 DEF vars, hostVars, countVars, HasNext
<1> QED BY <1>1, <1>2, <1>3 DEF Next

LEMMA SeenInit == ASSUME Init PROVE SeenInv
BY GroupsAssumption, ScriptsUpToFacts DEF Init, SeenInv

LEMMA SeenAll == ASSUME TypeOK, SeenInv PROVE EveryScriptSeen
<1> SUFFICES ASSUME NEW h \in Host, pc[h] = "end", ~exit[h]
             PROVE  scriptProgress[h] = ScriptsUpTo[NumGroups]
  BY DEF EveryScriptSeen
<1> USE GroupsAssumption, ScriptsUpToFacts DEF TypeOK, SeenInv
<1>1. /\ scriptProgress[h] = ScriptsUpTo[group[h] - 1] + index[h]
      /\ group[h] >= NumGroups /\ ~HasNext(h)
  OBVIOUS
<1>2. CASE NumGroups = 0
  <2>1. group[h] = 1 /\ index[h] = 0
    BY <1>2
  <2> QED BY <1>1, <1>2, <2>1
<1>3. CASE NumGroups # 0
  <2>1. group[h] = NumGroups /\ NumGroups \in 1..NumGroups /\ index[h] = GroupSize[NumGroups]
    BY <1>1, <1>3 DEF HasNext
  <2>2. ScriptsUpTo[NumGroups] = ScriptsUpTo[NumGroups - 1] + GroupSize[NumGroups]
    BY <2>1
  <2> QED BY <1>1, <2>1, <2>2
<1> QED BY <1>2, <1>3

-----------------------------------------------------------------------------
(* Service detection: how the ports are dealt.                             *)

Call == [op : {"set", "replace"}, name : Name, value : Value]

LEMMA Constants ==
  /\ TCPPorts \in Seq(Service!Range(TCPPorts)) /\ Service!IsInjective(TCPPorts)
  /\ ThreadCount \in Nat \ {0}
  /\ Before \in Service!Storage /\ Service!NoDuplicates(Before)
  /\ Finds \in [Service!Range(TCPPorts) -> Seq(Call)]
BY DetectAssumption DEF NoDuplicates, Service!NoDuplicates, Service!Range, Range, Service!IsInjective, IsInjective, Service!Storage, Call

LEMMA DivFacts ==
  ASSUME NEW n \in Nat \ {0}, NEW x \in Nat
  PROVE  /\ x \div n \in Nat /\ x % n \in 0..(n - 1)
         /\ x = (x \div n) * n + (x % n)
OBVIOUS

LEMMA Products ==
  ASSUME NEW n \in Nat \ {0}, NEW a \in Nat, NEW b \in Nat, a < b
  PROVE  /\ a * n \in Nat /\ b * n \in Nat /\ a * n + n <= b * n
OBVIOUS

LEMMA Quotient ==
  ASSUME NEW n \in Nat \ {0}, NEW a \in Nat, NEW b \in Nat, NEW i \in 0..(n - 1), NEW j \in 0..(n - 1),
         a * n + i = b * n + j
  PROVE  a = b /\ i = j
<1>1. a * n \in Nat /\ b * n \in Nat
  OBVIOUS
<1>2. CASE a < b
  BY <1>1, <1>2, Products
<1>3. CASE b < a
  BY <1>1, <1>3, Products
<1>4. CASE a = b
  BY <1>1, <1>4
<1> QED BY <1>2, <1>3, <1>4

LEMMA ThreadTotalFacts ==
  /\ Service!ThreadTotal \in Nat
  /\ Service!ThreadTotal <= Len(TCPPorts)
  /\ Len(TCPPorts) # 0 => Service!ThreadTotal # 0
<1> DEFINE L == Len(TCPPorts)
<1>1. L \in Nat /\ ThreadCount \in Nat \ {0}
  BY Constants
<1>2. \E x \in {L, ThreadCount} : \A y \in {L, ThreadCount} : x <= y
  BY <1>1
<1>3. /\ Service!ThreadTotal \in {L, ThreadCount}
      /\ \A y \in {L, ThreadCount} : Service!ThreadTotal <= y
  BY <1>2 DEF Service!ThreadTotal, Service!Min
<1> QED BY <1>1, <1>3

\* The k-th port of thread i is the one at (k - 1) * n + i of all.
LEMMA DealIndex ==
  ASSUME NEW n \in Nat \ {0}, NEW L \in Nat
  PROVE  /\ \A i \in 1..n : i <= L =>
                \A k \in 1..((L - i) \div n + 1) : (k - 1) * n + i \in 1..L
         /\ \A i, j \in 1..n : \A k, l \in Nat \ {0} :
                (k - 1) * n + i = (l - 1) * n + j => k = l /\ i = j
<1>1. ASSUME NEW i \in 1..n, i <= L, NEW k \in 1..((L - i) \div n + 1)
      PROVE  (k - 1) * n + i \in 1..L
  <2> DEFINE q == (L - i) \div n
  <2>1. L - i \in Nat
    BY <1>1
  <2>2. q \in Nat /\ (L - i) % n \in Nat /\ L - i = q * n + ((L - i) % n)
    <3>1. q \in Nat /\ (L - i) % n \in 0..(n - 1) /\ L - i = q * n + ((L - i) % n)
      BY <2>1, DivFacts
    <3>2. 0..(n - 1) \subseteq Nat
      OBVIOUS
    <3> HIDE DEF q
    <3> QED BY <3>1, <3>2, Zenon
  <2>3. k \in Nat \ {0} /\ k - 1 \in Nat /\ k - 1 <= q
    BY <1>1, <2>2
  <2>4. (k - 1) * n \in Nat /\ q * n \in Nat /\ (k - 1) * n <= q * n
    <3> HIDE DEF q
    <3>1. CASE k - 1 = q
      BY <3>1, <2>2, <2>3
    <3>2. CASE k - 1 < q
      BY <3>2, <2>2, <2>3, Products
    <3> QED BY <3>1, <3>2, <2>2, <2>3
  <2> DEFINE a == (k - 1) * n
             b == q * n
             r == (L - i) % n
  <2>5. a \in Nat /\ b \in Nat /\ a <= b /\ r \in Nat /\ L - i = b + r
    BY <2>2, <2>4
  <2> HIDE DEF a, b, r, q
  <2>6. a + i \in 1..L
    BY <2>5, <1>1
  <2> QED BY <2>6 DEF a
<1>2. ASSUME NEW i \in 1..n, NEW j \in 1..n, NEW k \in Nat \ {0}, NEW l \in Nat \ {0},
             (k - 1) * n + i = (l - 1) * n + j
      PROVE  k = l /\ i = j
  <2>1. k - 1 \in Nat /\ l - 1 \in Nat /\ i - 1 \in 0..(n - 1) /\ j - 1 \in 0..(n - 1)
    BY <1>2
  <2>2. (k - 1) * n \in Nat /\ (l - 1) * n \in Nat
    BY <2>1
  <2>3. (k - 1) * n + (i - 1) = (l - 1) * n + (j - 1)
    BY <1>2, <2>2
  <2>4. k - 1 = l - 1 /\ i - 1 = j - 1
    BY <2>1, <2>3, Quotient
  <2> QED BY <2>4, <1>2
<1> QED BY <1>1, <1>2

LEMMA DealCovers ==
  ASSUME NEW n \in Nat \ {0}, NEW L \in Nat, NEW x \in 1..L
  PROVE  \E i \in 1..n : i <= L /\ \E k \in 1..((L - i) \div n + 1) : x = (k - 1) * n + i
<1> DEFINE q == (x - 1) \div n
           r == (x - 1) % n
           i == r + 1
           k == q + 1
<1>1. q \in Nat /\ r \in 0..(n - 1) /\ x - 1 = q * n + r
  BY DivFacts
<1>2. q * n \in Nat
  BY <1>1
<1>3. i \in 1..n /\ i <= L /\ x = q * n + i /\ L - i \in Nat /\ L - i >= q * n
  <2> DEFINE b == q * n
  <2>1. b \in Nat /\ r \in 0..(n - 1) /\ x - 1 = b + r
    BY <1>1, <1>2
  <2> HIDE DEF b, r, q
  <2>2. i \in 1..n /\ i <= L /\ x = b + i /\ L - i \in Nat /\ L - i >= b
    BY <2>1
  <2> QED BY <2>2 DEF b
<1> DEFINE d == (L - i) \div n
<1>4. d \in Nat /\ (L - i) % n \in 0..(n - 1) /\ L - i = d * n + ((L - i) % n)
  BY <1>3, DivFacts
<1>5. d >= q
  <2> SUFFICES ASSUME d < q PROVE FALSE
    BY <1>1, <1>4
  <2>1. d * n \in Nat /\ d * n + n <= q * n
    BY <1>1, <1>4, Products
  <2> DEFINE b == q * n
             e == d * n
             u == (L - i) % n
             w == L - i
  <2>2. b \in Nat /\ e \in Nat /\ e + n <= b /\ w >= b /\ w = e + u /\ u \in 0..(n - 1)
    BY <2>1, <1>2, <1>3, <1>4
  <2> HIDE DEF b, e, u, w
  <2> QED BY <2>2
<1>6. k \in 1..(d + 1) /\ k - 1 = q
  BY <1>1, <1>4, <1>5
<1>7. x = (k - 1) * n + i
  BY <1>3, <1>6
<1> QED BY <1>3, <1>6, <1>7

LEMMA FunctionIsSeq ==
  ASSUME NEW n \in Nat, NEW S, NEW f \in [1..n -> S]
  PROVE  f \in Seq(S) /\ Len(f) = n
OBVIOUS

\* Every port is dealt to one thread, in one place, in the order of the scan.
LEMMA DealFacts ==
  ASSUME NEW n, n = Service!ThreadTotal, NEW P, P = Service!Range(TCPPorts)
  PROVE  /\ Service!Deal(n) \in [1..n -> Seq(P)]
         /\ \A i \in 1..n : Service!IsInjective(Service!Deal(n)[i])
         /\ \A i \in 1..n : \A j \in (1..n) \ {i} :
                Service!Range(Service!Deal(n)[i]) \cap Service!Range(Service!Deal(n)[j]) = {}
         /\ \A p \in P : \E i \in 1..n : p \in Service!Range(Service!Deal(n)[i])
         /\ \A i \in 1..n : \A k, l \in DOMAIN Service!Deal(n)[i] :
                k < l => Service!Earlier(Service!Deal(n)[i][k], Service!Deal(n)[i][l])
<1> DEFINE L == Len(TCPPorts)
           size(i) == (L - i) \div n + 1
           D == Service!Deal(n)
<1>1. /\ n \in Nat /\ L \in Nat /\ n <= L /\ (L # 0 => n # 0)
      /\ TCPPorts \in Seq(P) /\ Service!IsInjective(TCPPorts)
      /\ TCPPorts \in [1..L -> P]
  BY ThreadTotalFacts, Constants
<1>2. \A x, y \in 1..L : TCPPorts[x] = TCPPorts[y] => x = y
  BY <1>1 DEF Service!IsInjective
<1>3. P = {TCPPorts[x] : x \in 1..L}
  BY <1>1 DEF Service!Range
<1>4. D = [i \in 1..n |-> [k \in 1..size(i) |-> TCPPorts[(k - 1) * n + i]]]
  BY DEF Service!Deal
<1>5. CASE n = 0
  <2>1. 1..n = {} /\ P = {}
    BY <1>1, <1>3, <1>5
  <2> QED BY <2>1, <1>4
<1>6. CASE n # 0
  <2>1. n \in Nat \ {0} /\ \A i \in 1..n : i <= L
    BY <1>1, <1>6
  <2>2. /\ \A i \in 1..n : \A k \in 1..size(i) : (k - 1) * n + i \in 1..L
        /\ \A i, j \in 1..n : \A k, l \in Nat \ {0} :
                (k - 1) * n + i = (l - 1) * n + j => k = l /\ i = j
        /\ \A x \in 1..L : \E i \in 1..n : \E k \in 1..size(i) : x = (k - 1) * n + i
        /\ \A i \in 1..n : \A k, l \in Nat \ {0} : k < l => (k - 1) * n + i < (l - 1) * n + i
    <3>1. n \in Nat \ {0} /\ L \in Nat
      BY <2>1, <1>1
    <3> HIDE DEF L
    <3>2. \A i \in 1..n : i <= L => \A k \in 1..size(i) : (k - 1) * n + i \in 1..L
      BY <3>1, DealIndex
    <3>3. \A i, j \in 1..n : \A k, l \in Nat \ {0} :
                (k - 1) * n + i = (l - 1) * n + j => k = l /\ i = j
      BY <3>1, DealIndex
    <3>4. \A x \in 1..L : \E i \in 1..n : i <= L /\ \E k \in 1..size(i) : x = (k - 1) * n + i
      <4> SUFFICES ASSUME NEW x \in 1..L
                   PROVE  \E i \in 1..n : i <= L /\ \E k \in 1..size(i) : x = (k - 1) * n + i
        OBVIOUS
      <4> QED BY <3>1, DealCovers, Zenon
    <3>5. \A i \in 1..n : \A k \in 1..size(i) : (k - 1) * n + i \in 1..L
      BY <2>1, <3>2, Zenon
    <3>6. \A x \in 1..L : \E i \in 1..n : \E k \in 1..size(i) : x = (k - 1) * n + i
      BY <3>4, Zenon
    <3>7. ASSUME NEW i \in 1..n, NEW k \in Nat \ {0}, NEW l \in Nat \ {0}, k < l
          PROVE  (k - 1) * n + i < (l - 1) * n + i
      <4> DEFINE a == (k - 1) * n
                 b == (l - 1) * n
      <4>1. k - 1 \in Nat /\ l - 1 \in Nat /\ k - 1 < l - 1
        BY <3>7
      <4>2. a \in Nat /\ b \in Nat /\ a + n <= b
        BY <4>1, <3>1, Products
      <4> HIDE DEF a, b
      <4>3. a + i < b + i
        BY <4>2, <3>1
      <4> QED BY <4>3 DEF a, b
    <3> QED BY <3>3, <3>5, <3>6, <3>7, Zenon
  <2>3. \A i \in 1..n : size(i) \in Nat
    <3> SUFFICES ASSUME NEW i \in 1..n PROVE size(i) \in Nat
      OBVIOUS
    <3>1. L - i \in Nat
      BY <2>1, <1>1
    <3>2. (L - i) \div n \in Nat
      BY <3>1, <2>1, DivFacts
    <3> QED BY <3>2
  <2> DEFINE where(i, k) == (k - 1) * n + i
  <2>4. D = [i \in 1..n |-> [k \in 1..size(i) |-> TCPPorts[where(i, k)]]]
    BY <1>4
  <2>5. /\ \A i \in 1..n : \A k \in 1..size(i) : where(i, k) \in 1..L /\ k \in Nat \ {0}
        /\ \A i, j \in 1..n : \A k, l \in Nat \ {0} : where(i, k) = where(j, l) => k = l /\ i = j
        /\ \A x \in 1..L : \E i \in 1..n : \E k \in 1..size(i) : x = where(i, k)
        /\ \A i \in 1..n : \A k, l \in Nat \ {0} : k < l => where(i, k) < where(i, l)
    BY <2>2
  <2>5a. \A i, j \in 1..n : \A k, l \in Nat \ {0} : where(i, k) = where(j, l) => k = l /\ i = j
    BY <2>5
  <2> HIDE DEF where, size, D, L
  <2>6. ASSUME NEW i \in 1..n
        PROVE  /\ D[i] = [k \in 1..size(i) |-> TCPPorts[where(i, k)]]
               /\ D[i] \in [1..size(i) -> P] /\ DOMAIN D[i] = 1..size(i)
               /\ \A k \in 1..size(i) : D[i][k] = TCPPorts[where(i, k)]
    <3>1. D[i] = [k \in 1..size(i) |-> TCPPorts[where(i, k)]]
      BY <2>4
    <3>2. \A k \in 1..size(i) : TCPPorts[where(i, k)] \in P
      BY <2>5, <1>1
    <3> QED BY <3>1, <3>2
  <2>7. D \in [1..n -> Seq(P)]
    <3>1. ASSUME NEW i \in 1..n PROVE D[i] \in Seq(P)
      <4>1. size(i) \in Nat /\ D[i] \in [1..size(i) -> P]
        BY <2>3, <2>6
      <4> QED BY <4>1, FunctionIsSeq, Zenon
    <3> QED BY <3>1, <2>4
  <2>8. ASSUME NEW i \in 1..n PROVE Service!IsInjective(D[i])
    <3>1. ASSUME NEW k \in 1..size(i), NEW l \in 1..size(i), D[i][k] = D[i][l] PROVE k = l
      <4>1. TCPPorts[where(i, k)] = TCPPorts[where(i, l)] /\ where(i, k) \in 1..L /\ where(i, l) \in 1..L
        BY <3>1, <2>5, <2>6, Zenon
      <4>2. where(i, k) = where(i, l)
        BY <4>1, <1>2 DEF L
      <4>3. k \in Nat \ {0} /\ l \in Nat \ {0}
        BY <2>3
      <4> QED BY <4>2, <4>3, <2>5a
    <3> QED BY <3>1, <2>6 DEF Service!IsInjective
  <2>9. ASSUME NEW i \in 1..n, NEW j \in (1..n) \ {i}
        PROVE  Service!Range(D[i]) \cap Service!Range(D[j]) = {}
    <3>1. ASSUME NEW k \in 1..size(i), NEW l \in 1..size(j), D[i][k] = D[j][l] PROVE FALSE
      <4>1. TCPPorts[where(i, k)] = TCPPorts[where(j, l)] /\ where(i, k) \in 1..L /\ where(j, l) \in 1..L
        BY <3>1, <2>5, <2>6, Zenon
      <4>2. where(i, k) = where(j, l)
        BY <4>1, <1>2 DEF L
      <4>3. k \in Nat \ {0} /\ l \in Nat \ {0}
        BY <2>3
      <4>4. i \in 1..n /\ j \in 1..n /\ i # j
        OBVIOUS
      <4> QED BY <4>2, <4>3, <4>4, <2>5a
    <3>2. /\ Service!Range(D[i]) = {D[i][k] : k \in 1..size(i)}
          /\ Service!Range(D[j]) = {D[j][k] : k \in 1..size(j)}
      BY <2>6 DEF Service!Range
    <3> QED BY <3>1, <3>2
  <2>10. ASSUME NEW p \in P PROVE \E i \in 1..n : p \in Service!Range(D[i])
    <3>1. PICK x \in 1..L : p = TCPPorts[x]
      BY <1>3 DEF L
    <3>2. PICK i \in 1..n : \E k \in 1..size(i) : x = where(i, k)
      BY <2>5, Zenon
    <3>4. PICK k \in 1..size(i) : x = where(i, k)
      BY <3>2
    <3>3. p = D[i][k] /\ k \in DOMAIN D[i]
      BY <3>1, <3>4, <2>6, Zenon
    <3> QED BY <3>3 DEF Service!Range
  <2>11. ASSUME NEW i \in 1..n, NEW k \in DOMAIN D[i], NEW l \in DOMAIN D[i], k < l
         PROVE  Service!Earlier(D[i][k], D[i][l])
    <3>1. k \in 1..size(i) /\ l \in 1..size(i)
      BY <2>6, Zenon
    <3>1a. k \in Nat \ {0} /\ l \in Nat \ {0}
      BY <2>3, <3>1
    <3>2. /\ where(i, k) \in 1..L /\ where(i, l) \in 1..L /\ where(i, k) < where(i, l)
          /\ TCPPorts[where(i, k)] = D[i][k] /\ TCPPorts[where(i, l)] = D[i][l]
      BY <3>1, <3>1a, <2>5, <2>6, <2>11
    <3>3. DOMAIN TCPPorts = 1..L
      BY <1>1 DEF L
    <3> QED BY <3>2, <3>3 DEF Service!Earlier
  <2> QED BY <2>7, <2>8, <2>9, <2>10, <2>11 DEF D
<1> QED BY <1>1, <1>5, <1>6

\* What is left of a list of distinct ports when its first is taken.
LEMMA TailFacts ==
  ASSUME NEW S, NEW s \in Seq(S), s # <<>>, Service!IsInjective(s)
  PROVE  /\ Tail(s) \in Seq(S) /\ Head(s) \in S /\ Service!IsInjective(Tail(s))
         /\ Head(s) \notin Service!Range(Tail(s))
         /\ Service!Range(s) = Service!Range(Tail(s)) \cup {Head(s)}
<1>1. Len(s) \in Nat \ {0} /\ DOMAIN s = 1..Len(s) /\ Head(s) = s[1] /\ Head(s) \in S
  BY EmptySeq
<1>2. /\ Tail(s) \in Seq(S) /\ DOMAIN Tail(s) = 1..(Len(s) - 1)
      /\ \A k \in 1..(Len(s) - 1) : Tail(s)[k] = s[k + 1]
  BY <1>1, HeadTailProperties
<1>3. \A k \in 1..(Len(s) - 1) : k + 1 \in 1..Len(s) /\ k + 1 # 1
  BY <1>1
<1>4. \A k \in 1..Len(s) : k = 1 \/ (k - 1 \in 1..(Len(s) - 1) /\ (k - 1) + 1 = k)
  BY <1>1
<1>5. \A k, l \in 1..Len(s) : s[k] = s[l] => k = l
  BY <1>1 DEF Service!IsInjective
<1>6. Service!IsInjective(Tail(s))
  BY <1>2, <1>3, <1>5 DEF Service!IsInjective
<1>7. Head(s) \notin Service!Range(Tail(s))
  BY <1>1, <1>2, <1>3, <1>5 DEF Service!Range
<1>8. Service!Range(s) = Service!Range(Tail(s)) \cup {Head(s)}
  <2>1. Service!Range(s) = {s[k] : k \in 1..Len(s)}
    BY <1>1 DEF Service!Range
  <2>2. Service!Range(Tail(s)) = {s[k + 1] : k \in 1..(Len(s) - 1)}
    BY <1>2 DEF Service!Range
  <2>3. ASSUME NEW x \in Service!Range(s) PROVE x \in Service!Range(Tail(s)) \cup {Head(s)}
    <3>1. PICK k \in 1..Len(s) : x = s[k]
      BY <2>1, <2>3
    <3>2. CASE k = 1
      BY <3>1, <3>2, <1>1
    <3>3. CASE k # 1
      <4>1. k - 1 \in 1..(Len(s) - 1) /\ x = s[(k - 1) + 1]
        BY <3>1, <3>3, <1>4
      <4> QED BY <4>1, <2>2
    <3> QED BY <3>2, <3>3
  <2>4. 1 \in 1..Len(s)
    BY <1>1
  <2> QED BY <2>1, <2>2, <2>3, <2>4, <1>1, <1>3
<1> QED BY <1>1, <1>2, <1>6, <1>7, <1>8

-----------------------------------------------------------------------------
(* Service detection: what calls leave in a storage.                       *)

LEMMA NoDomain ==
  ASSUME NEW S, NEW list \in Seq(S), DOMAIN list = {}
  PROVE  list = <<>>
<1>1. DOMAIN list = 1..Len(list) /\ Len(list) \in Nat
  OBVIOUS
<1>2. Len(list) = 0
  BY <1>1
<1> QED BY <1>2, EmptySeq

LEMMA AddedFacts ==
  ASSUME NEW list \in Seq(Value), NEW v \in Value
  PROVE  /\ Service!Added(list, v) \in Seq(Value)
         /\ Service!Range(Service!Added(list, v)) = Service!Range(list) \cup {v}
         /\ Service!IsInjective(list) => Service!IsInjective(Service!Added(list, v))
<1>1. CASE v \in Service!Range(list)
  BY <1>1 DEF Service!Added
<1>2. CASE v \notin Service!Range(list)
  <2> DEFINE t == Append(list, v)
             L == Len(list)
  <2>1. /\ L \in Nat /\ DOMAIN list = 1..L
        /\ t \in Seq(Value) /\ DOMAIN t = 1..(L + 1)
        /\ t[L + 1] = v /\ \A k \in 1..L : t[k] = list[k]
    OBVIOUS
  <2>2. \A k \in 1..(L + 1) : k = L + 1 \/ k \in 1..L
    BY <2>1
  <2>3. L + 1 \in 1..(L + 1) /\ 1..L \subseteq 1..(L + 1)
    BY <2>1
  <2> HIDE DEF t, L
  <2>4. Service!Range(t) = Service!Range(list) \cup {v}
    BY <2>1, <2>2, <2>3 DEF Service!Range
  <2>5. \A k \in 1..L : list[k] # v
    BY <2>1, <1>2 DEF Service!Range
  <2>6. Service!IsInjective(list) => Service!IsInjective(t)
    BY <2>1, <2>2, <2>5 DEF Service!IsInjective
  <2>7. Service!Added(list, v) = t
    BY <1>2 DEF Service!Added, t
  <2> QED BY <2>1, <2>4, <2>6, <2>7
<1> QED BY <1>1, <1>2

LEMMA SingleFacts ==
  ASSUME NEW v \in Value
  PROVE  /\ <<v>> \in Seq(Value) /\ Service!Range(<<v>>) = {v} /\ Service!IsInjective(<<v>>)
<1>1. <<v>> \in Seq(Value) /\ DOMAIN <<v>> = {1} /\ <<v>>[1] = v
  OBVIOUS
<1> QED BY <1>1 DEF Service!Range, Service!IsInjective

LEMMA AddedAllSteps ==
  ASSUME NEW list \in Seq(Value), NEW more \in Seq(Value)
  PROVE  \E f \in [0..Len(more) -> Seq(Value)] :
            /\ f[0] = list
            /\ \A k \in 1..Len(more) : f[k] = Service!Added(f[k - 1], more[k])
            /\ f[Len(more)] = Service!AddedAll(list, more)
<1> DEFINE N == Len(more)
           step == [k \in 1..N |-> [t \in Seq(Value) |-> Service!Added(t, more[k])]]
           Eq(f) == f = [k \in 0..N |-> IF k = 0 THEN list ELSE Service!Added(f[k - 1], more[k])]
<1>1. N \in Nat /\ \A k \in 1..N : more[k] \in Value
  OBVIOUS
<1>2. step \in [1..N -> [Seq(Value) -> Seq(Value)]]
  <2>1. ASSUME NEW k \in 1..N PROVE [t \in Seq(Value) |-> Service!Added(t, more[k])] \in [Seq(Value) -> Seq(Value)]
    BY <1>1, AddedFacts
  <2> QED BY <2>1
<1>3. PICK f : Iterates(f, N, Seq(Value), list, step)
  <2> HIDE DEF step, N
  <2> QED BY <1>1, <1>2, Recursion
<1>4. \A k \in 1..N : k - 1 \in 0..N /\ k \in 0..N /\ k # 0
  BY <1>1
<1>5. /\ f \in [0..N -> Seq(Value)] /\ f[0] = list
      /\ \A k \in 1..N : f[k] = Service!Added(f[k - 1], more[k])
  BY <1>3, <1>4 DEF Iterates
<1>6. Eq(f)
  <2>1. \A k \in 0..N : k = 0 \/ k \in 1..N
    BY <1>1
  <2> HIDE DEF N
  <2> QED BY <1>5, <2>1
<1>7. PICK g : Eq(g) /\ Service!AddedAll(list, more) = g[N]
  <2>1. Eq(CHOOSE g : Eq(g))
    BY <1>6
  <2> QED BY <2>1 DEF Service!AddedAll
<1> HIDE DEF N, step
<1>8. \A k \in 0..N : g[k] = f[k]
  <2> DEFINE T == {k \in Nat : k <= N => g[k] = f[k]}
  <2>1. 0 \in T
    BY <1>1, <1>5, <1>7
  <2>2. ASSUME NEW k \in T PROVE k + 1 \in T
    <3>1. k \in Nat /\ (k <= N => g[k] = f[k])
      OBVIOUS
    <3>2. CASE k + 1 <= N
      <4>1. k + 1 \in 1..N /\ (k + 1) - 1 = k /\ k <= N
        BY <3>1, <3>2, <1>1
      <4>2. g[k + 1] = Service!Added(g[k], more[k + 1])
        BY <4>1, <1>4, <1>7
      <4>3. f[k + 1] = Service!Added(f[k], more[k + 1])
        BY <4>1, <1>5
      <4> QED BY <4>1, <4>2, <4>3, <3>1
    <3> QED BY <3>1, <3>2
  <2>3. \A k \in Nat : k \in T
    <3> HIDE DEF T
    <3> QED BY <2>1, <2>2, NatInductionSet DEF T
  <2> QED BY <2>3, <1>1
<1>9. f[N] = Service!AddedAll(list, more)
  BY <1>1, <1>7, <1>8
<1> QED BY <1>5, <1>9 DEF N

\* Combine adds the values of one list to the other.
LEMMA AddedAllFacts ==
  ASSUME NEW list \in Seq(Value), NEW more \in Seq(Value)
  PROVE  /\ Service!AddedAll(list, more) \in Seq(Value)
         /\ Service!Range(Service!AddedAll(list, more)) = Service!Range(list) \cup Service!Range(more)
         /\ Service!IsInjective(list) => Service!IsInjective(Service!AddedAll(list, more))
<1> DEFINE N == Len(more)
           first(k) == {more[j] : j \in 1..k}
           Good(t, k) == /\ Service!Range(t) = Service!Range(list) \cup first(k)
                         /\ Service!IsInjective(list) => Service!IsInjective(t)
<1>1. N \in Nat /\ DOMAIN more = 1..N /\ \A k \in 1..N : more[k] \in Value
  OBVIOUS
<1>2. PICK f \in [0..N -> Seq(Value)] :
        /\ f[0] = list
        /\ \A k \in 1..N : f[k] = Service!Added(f[k - 1], more[k])
        /\ f[N] = Service!AddedAll(list, more)
  BY AddedAllSteps
<1> HIDE DEF N
<1> DEFINE T == {k \in Nat : k <= N => Good(f[k], k)}
<1>3. 0 \in T
  <2>1. first(0) = {}
    OBVIOUS
  <2> HIDE DEF first
  <2> QED BY <2>1, <1>2
<1>4. ASSUME NEW k \in T PROVE k + 1 \in T
  <2>1. k \in Nat /\ (k <= N => Good(f[k], k))
    OBVIOUS
  <2> HIDE DEF Good
  <2>2. CASE k + 1 <= N
    <3>1. k + 1 \in 1..N /\ (k + 1) - 1 = k /\ k <= N /\ k \in 0..N
      BY <2>1, <2>2, <1>1
    <3>2. /\ f[k + 1] = Service!Added(f[k], more[k + 1])
          /\ f[k] \in Seq(Value) /\ more[k + 1] \in Value
      BY <3>1, <1>1, <1>2
    <3>3. first(k + 1) = first(k) \cup {more[k + 1]}
      <4>1. \A j \in 1..(k + 1) : j \in 1..k \/ j = k + 1
        BY <2>1
      <4>2. \A j \in 1..k : j \in 1..(k + 1)
        BY <2>1
      <4>3. k + 1 \in 1..(k + 1)
        BY <2>1
      <4> QED BY <4>1, <4>2, <4>3
    <3> DEFINE t == f[k]
               v == more[k + 1]
               u == f[k + 1]
    <3>4. t \in Seq(Value) /\ v \in Value /\ u = Service!Added(t, v)
      BY <3>2
    <3> HIDE DEF t, v, u
    <3>5. /\ Service!Range(u) = Service!Range(t) \cup {v}
          /\ Service!IsInjective(t) => Service!IsInjective(u)
      BY <3>4, AddedFacts
    <3>6. Good(t, k)
      BY <2>1, <3>1 DEF t
    <3>7. first(k + 1) = first(k) \cup {v}
      BY <3>3 DEF v
    <3> HIDE DEF first
    <3>8. Good(u, k + 1)
      BY <3>5, <3>6, <3>7, Zenon DEF Good
    <3> QED BY <2>1, <3>8 DEF u
  <2> QED BY <2>1, <2>2
<1>5. \A k \in Nat : k \in T
  <2> HIDE DEF T
  <2> QED BY <1>3, <1>4, NatInductionSet DEF T
<1>6. Good(f[N], N) /\ f[N] \in Seq(Value)
  <2>0. N \in T
    <3> HIDE DEF T
    <3> QED BY <1>1, <1>5
  <2>1. (N <= N => Good(f[N], N)) /\ N <= N /\ N \in 0..N
    <3> HIDE DEF Good
    <3> QED BY <1>1, <2>0
  <2>2. f[N] \in Seq(Value)
    BY <2>1, <1>2
  <2> HIDE DEF Good
  <2> QED BY <2>1, <2>2
<1>7. Service!Range(more) = first(N)
  BY <1>1 DEF Service!Range
<1> QED BY <1>2, <1>6, <1>7

LEMMA WrittenFacts ==
  ASSUME NEW s \in Service!Storage, NEW call \in Call
  PROVE  /\ Service!Written(s, call) \in Service!Storage
         /\ \A n \in Name : n # call.name => Service!Written(s, call)[n] = s[n]
         /\ call.op = "set" =>
                Service!Written(s, call)[call.name] = Service!Added(s[call.name], call.value)
         /\ call.op # "set" => Service!Written(s, call)[call.name] = <<call.value>>
         /\ Service!NoDuplicates(s) => Service!NoDuplicates(Service!Written(s, call))
<1>1. /\ s \in [Name -> Seq(Value)] /\ call.name \in Name /\ call.value \in Value
      /\ s[call.name] \in Seq(Value)
  BY DEF Service!Storage, Call
<1>2. CASE call.op = "set"
  <2>1. Service!Written(s, call) = [s EXCEPT ![call.name] = Service!Added(s[call.name], call.value)]
    BY <1>2 DEF Service!Written, Service!SetItem
  <2> QED BY <1>1, <1>2, <2>1, AddedFacts DEF Service!Storage, Service!NoDuplicates
<1>3. CASE call.op # "set"
  <2>1. Service!Written(s, call) = [s EXCEPT ![call.name] = <<call.value>>]
    BY <1>3 DEF Service!Written, Service!ReplaceItem
  <2> QED BY <1>1, <1>3, <2>1, SingleFacts DEF Service!Storage, Service!NoDuplicates
<1> QED BY <1>2, <1>3

LEMMA WrittenAllSteps ==
  ASSUME NEW s \in Service!Storage, NEW calls \in Seq(Call)
  PROVE  \E f \in [0..Len(calls) -> Service!Storage] :
            /\ f[0] = s
            /\ \A k \in 1..Len(calls) : f[k] = Service!Written(f[k - 1], calls[k])
            /\ f[Len(calls)] = Service!WrittenAll(s, calls)
<1> DEFINE N == Len(calls)
           step == [k \in 1..N |-> [t \in Service!Storage |-> Service!Written(t, calls[k])]]
           Eq(f) == f = [k \in 0..N |-> IF k = 0 THEN s ELSE Service!Written(f[k - 1], calls[k])]
<1>1. N \in Nat /\ s \in Service!Storage /\ \A k \in 1..N : calls[k] \in Call
  OBVIOUS
<1>2. step \in [1..N -> [Service!Storage -> Service!Storage]]
  <2>1. ASSUME NEW k \in 1..N, NEW t \in Service!Storage PROVE Service!Written(t, calls[k]) \in Service!Storage
    BY <1>1, WrittenFacts
  <2> QED BY <2>1
<1>3. PICK f : Iterates(f, N, Service!Storage, s, step)
  <2> HIDE DEF step, N
  <2> QED BY <1>1, <1>2, Recursion
<1>4. \A k \in 1..N : k - 1 \in 0..N /\ k \in 0..N /\ k # 0
  BY <1>1
<1>5. /\ f \in [0..N -> Service!Storage] /\ f[0] = s
      /\ \A k \in 1..N : f[k] = Service!Written(f[k - 1], calls[k])
  BY <1>3, <1>4 DEF Iterates
<1>6. Eq(f)
  <2>1. \A k \in 0..N : k = 0 \/ k \in 1..N
    BY <1>1
  <2> HIDE DEF N
  <2> QED BY <1>5, <2>1
<1>7. PICK g : Eq(g) /\ Service!WrittenAll(s, calls) = g[N]
  <2>1. Eq(CHOOSE g : Eq(g))
    BY <1>6
  <2> QED BY <2>1 DEF Service!WrittenAll
<1> HIDE DEF N, step
<1>8. \A k \in 0..N : g[k] = f[k]
  <2> DEFINE T == {k \in Nat : k <= N => g[k] = f[k]}
  <2>1. 0 \in T
    BY <1>1, <1>5, <1>7
  <2>2. ASSUME NEW k \in T PROVE k + 1 \in T
    <3>1. k \in Nat /\ (k <= N => g[k] = f[k])
      OBVIOUS
    <3>2. CASE k + 1 <= N
      <4>1. k + 1 \in 1..N /\ (k + 1) - 1 = k /\ k <= N
        BY <3>1, <3>2, <1>1
      <4>2. g[k + 1] = Service!Written(g[k], calls[k + 1])
        BY <4>1, <1>4, <1>7
      <4>3. f[k + 1] = Service!Written(f[k], calls[k + 1])
        BY <4>1, <1>5
      <4> QED BY <4>1, <4>2, <4>3, <3>1
    <3> QED BY <3>1, <3>2
  <2>3. \A k \in Nat : k \in T
    <3> HIDE DEF T
    <3> QED BY <2>1, <2>2, NatInductionSet DEF T
  <2> QED BY <2>3, <1>1
<1>9. f[N] = Service!WrittenAll(s, calls)
  BY <1>1, <1>7, <1>8
<1> QED BY <1>5, <1>9 DEF N

\* What holds of the storage before all calls and is kept by each holds after them.
LEMMA WrittenAllKeeps ==
  ASSUME NEW s \in Service!Storage, NEW calls \in Seq(Call), NEW Good,
         s \in Good,
         \A t \in Service!Storage : \A k \in DOMAIN calls : t \in Good => Service!Written(t, calls[k]) \in Good
  PROVE  Service!WrittenAll(s, calls) \in Good /\ Service!WrittenAll(s, calls) \in Service!Storage
<1> DEFINE N == Len(calls)
<1>1. N \in Nat /\ DOMAIN calls = 1..N
  OBVIOUS
<1>2. PICK f \in [0..N -> Service!Storage] :
        /\ f[0] = s
        /\ \A k \in 1..N : f[k] = Service!Written(f[k - 1], calls[k])
        /\ f[N] = Service!WrittenAll(s, calls)
  BY WrittenAllSteps
<1> HIDE DEF N
<1> DEFINE T == {k \in Nat : k <= N => f[k] \in Good}
<1>3. 0 \in T
  BY <1>2
<1>4. ASSUME NEW k \in T PROVE k + 1 \in T
  <2>1. k \in Nat /\ (k <= N => f[k] \in Good)
    OBVIOUS
  <2>2. CASE k + 1 <= N
    <3>1. k + 1 \in 1..N /\ (k + 1) - 1 = k /\ k <= N /\ k \in 0..N
      BY <2>1, <2>2, <1>1
    <3>2. f[k + 1] = Service!Written(f[k], calls[k + 1]) /\ f[k] \in Service!Storage
      BY <3>1, <1>2
    <3> QED BY <2>1, <3>1, <3>2, <1>1
  <2> QED BY <2>1, <2>2
<1>5. \A k \in Nat : k \in T
  <2> HIDE DEF T
  <2> QED BY <1>3, <1>4, NatInductionSet DEF T
<1>6. N \in T /\ N <= N /\ N \in 0..N
  BY <1>1, <1>5
<1>7. f[N] \in Service!Storage
  BY <1>2, <1>6
<1> QED BY <1>2, <1>6, <1>7

LEMMA WrittenAllFacts ==
  ASSUME NEW s \in Service!Storage, NEW calls \in Seq(Call)
  PROVE  /\ Service!WrittenAll(s, calls) \in Service!Storage
         /\ Service!NoDuplicates(s) => Service!NoDuplicates(Service!WrittenAll(s, calls))
<1> DEFINE Good == {t \in Service!Storage : Service!NoDuplicates(s) => Service!NoDuplicates(t)}
<1>1. s \in Good
  OBVIOUS
<1>2. ASSUME NEW t \in Service!Storage, NEW k \in DOMAIN calls, t \in Good
      PROVE  Service!Written(t, calls[k]) \in Good
  <2>1. calls[k] \in Call
    OBVIOUS
  <2> QED BY <1>2, <2>1, WrittenFacts
<1>3. Service!WrittenAll(s, calls) \in Good
  <2> HIDE DEF Good
  <2> QED BY <1>1, <1>2, WrittenAllKeeps
<1> QED BY <1>3

\* What calls leave under a name: what they leave of nothing, and what was there
\* unless one of them replaces it.
LEMMA CallsLeave ==
  ASSUME NEW s \in Service!Storage, NEW calls \in Seq(Call), NEW n \in Name
  PROVE  Service!Range(Service!WrittenAll(s, calls)[n]) =
            (IF \E k \in DOMAIN calls : calls[k].op # "set" /\ calls[k].name = n
             THEN {} ELSE Service!Range(s[n]))
            \cup Service!Range(Service!WrittenAll(Service!EmptyStorage, calls)[n])
<1> DEFINE N == Len(calls)
           Gone(k) == \E j \in 1..k : calls[j].op # "set" /\ calls[j].name = n
           kept(k) == IF Gone(k) THEN {} ELSE Service!Range(s[n])
           Good(t, d, k) == Service!Range(t[n]) = kept(k) \cup Service!Range(d[n])
<1>1. N \in Nat /\ DOMAIN calls = 1..N /\ \A k \in 1..N : calls[k] \in Call
  OBVIOUS
<1>2. PICK f \in [0..N -> Service!Storage] :
        /\ f[0] = s
        /\ \A k \in 1..N : f[k] = Service!Written(f[k - 1], calls[k])
        /\ f[N] = Service!WrittenAll(s, calls)
  BY WrittenAllSteps
<1>3. /\ Service!EmptyStorage \in Service!Storage
      /\ Service!Range(Service!EmptyStorage[n]) = {}
  BY DEF Service!EmptyStorage, Service!Storage, Service!Range
<1>4. PICK e \in [0..N -> Service!Storage] :
        /\ e[0] = Service!EmptyStorage
        /\ \A k \in 1..N : e[k] = Service!Written(e[k - 1], calls[k])
        /\ e[N] = Service!WrittenAll(Service!EmptyStorage, calls)
  BY <1>3, WrittenAllSteps
<1> HIDE DEF N
<1> DEFINE T == {k \in Nat : k <= N => Good(f[k], e[k], k)}
<1>5. 0 \in T
  <2>1. ~Gone(0)
    OBVIOUS
  <2> HIDE DEF Gone
  <2> QED BY <2>1, <1>2, <1>3, <1>4
<1>6. ASSUME NEW k \in T PROVE k + 1 \in T
  <2>1. k \in Nat /\ (k <= N => Good(f[k], e[k], k))
    OBVIOUS
  <2>2. CASE k + 1 <= N
    <3>1. k + 1 \in 1..N /\ (k + 1) - 1 = k /\ k <= N /\ k \in 0..N
      BY <2>1, <2>2, <1>1
    <3> DEFINE c == calls[k + 1]
               t == f[k]
               u == f[k + 1]
               d == e[k]
               w == e[k + 1]
    <3>2. /\ c \in Call /\ c.value \in Value
          /\ t \in Service!Storage /\ u = Service!Written(t, c) /\ t[n] \in Seq(Value)
          /\ d \in Service!Storage /\ w = Service!Written(d, c) /\ d[n] \in Seq(Value)
      BY <3>1, <1>1, <1>2, <1>4 DEF Service!Storage, Call
    <3>3. Gone(k + 1) <=> Gone(k) \/ (c.op # "set" /\ c.name = n)
      <4>1. \A j \in 1..(k + 1) : j \in 1..k \/ j = k + 1
        BY <2>1
      <4>2. \A j \in 1..k : j \in 1..(k + 1)
        BY <2>1
      <4>3. k + 1 \in 1..(k + 1)
        BY <2>1
      <4> QED BY <4>1, <4>2, <4>3
    <3>4. Good(t, d, k)
      BY <2>1, <3>1
    <3> HIDE DEF c, t, u, d, w, Gone
    <3>5. Good(u, w, k + 1)
      <4>1. CASE c.name # n
        <5>1. u[n] = t[n] /\ w[n] = d[n]
          BY <3>2, <4>1, WrittenFacts
        <5> QED BY <5>1, <3>3, <3>4, <4>1
      <4>2. CASE c.name = n /\ c.op = "set"
        <5>1. u[n] = Service!Added(t[n], c.value) /\ w[n] = Service!Added(d[n], c.value)
          BY <3>2, <4>2, WrittenFacts
        <5>2. /\ Service!Range(u[n]) = Service!Range(t[n]) \cup {c.value}
              /\ Service!Range(w[n]) = Service!Range(d[n]) \cup {c.value}
          BY <5>1, <3>2, AddedFacts
        <5> QED BY <5>2, <3>3, <3>4, <4>2
      <4>3. CASE c.name = n /\ c.op # "set"
        <5>1. u[n] = <<c.value>> /\ w[n] = <<c.value>>
          BY <3>2, <4>3, WrittenFacts
        <5> QED BY <5>1, <3>3, <4>3
      <4> QED BY <4>1, <4>2, <4>3
    <3> QED BY <2>1, <3>5 DEF u, w
  <2> QED BY <2>1, <2>2
<1>7. \A k \in Nat : k \in T
  <2> HIDE DEF T
  <2> QED BY <1>5, <1>6, NatInductionSet DEF T
<1>8. Good(f[N], e[N], N)
  <2>0. N \in T
    <3> HIDE DEF T
    <3> QED BY <1>1, <1>7
  <2>1. (N <= N => Good(f[N], e[N], N)) /\ N <= N
    <3> HIDE DEF Good
    <3> QED BY <1>1, <2>0
  <2> HIDE DEF Good
  <2> QED BY <2>1
<1> QED BY <1>1, <1>2, <1>4, <1>8

\* The calls that one port gives.
LEMMA PortLeaves ==
  ASSUME NEW p \in Service!Range(TCPPorts), NEW s \in Service!Storage
  PROVE  /\ Service!WrittenAll(s, Finds[p]) \in Service!Storage
         /\ \A n \in Name : Service!Range(Service!WrittenAll(s, Finds[p])[n]) =
                (IF Service!Replaces(p, n) THEN {} ELSE Service!Range(s[n])) \cup Service!LeftBy(p, n)
<1>1. Finds[p] \in Seq(Call)
  BY Constants
<1> QED BY <1>1, WrittenAllFacts, CallsLeave DEF Service!Replaces, Service!LeftBy

LEMMA CombineFacts ==
  ASSUME NEW s \in Service!Storage, NEW from \in Service!Storage
  PROVE  /\ Service!Combine(s, from) \in Service!Storage
         /\ \A n \in Name : Service!Range(Service!Combine(s, from)[n])
                                = Service!Range(s[n]) \cup Service!Range(from[n])
         /\ Service!NoDuplicates(s) => Service!NoDuplicates(Service!Combine(s, from))
<1>1. \A n \in Name : s[n] \in Seq(Value) /\ from[n] \in Seq(Value)
  BY DEF Service!Storage
<1>2. /\ Service!Combine(s, from) \in [Name -> Seq(Value)]
      /\ \A n \in Name : Service!Combine(s, from)[n] = Service!AddedAll(s[n], from[n])
  BY <1>1, AddedAllFacts DEF Service!Combine
<1> QED BY <1>1, <1>2, AddedAllFacts DEF Service!Storage, Service!NoDuplicates

LEMMA CombineAllSteps ==
  ASSUME NEW s \in Service!Storage, NEW clones \in Seq(Service!Storage)
  PROVE  \E f \in [0..Len(clones) -> Service!Storage] :
            /\ f[0] = s
            /\ \A k \in 1..Len(clones) : f[k] = Service!Combine(f[k - 1], clones[k])
            /\ f[Len(clones)] = Service!CombineAll(s, clones)
<1> DEFINE N == Len(clones)
           step == [k \in 1..N |-> [t \in Service!Storage |-> Service!Combine(t, clones[k])]]
           Eq(f) == f = [k \in 0..N |-> IF k = 0 THEN s ELSE Service!Combine(f[k - 1], clones[k])]
<1>1. N \in Nat /\ s \in Service!Storage /\ \A k \in 1..N : clones[k] \in Service!Storage
  OBVIOUS
<1>2. step \in [1..N -> [Service!Storage -> Service!Storage]]
  <2>1. ASSUME NEW k \in 1..N, NEW t \in Service!Storage PROVE Service!Combine(t, clones[k]) \in Service!Storage
    BY <1>1, CombineFacts
  <2> QED BY <2>1
<1>3. PICK f : Iterates(f, N, Service!Storage, s, step)
  <2> HIDE DEF step, N
  <2> QED BY <1>1, <1>2, Recursion
<1>4. \A k \in 1..N : k - 1 \in 0..N /\ k \in 0..N /\ k # 0
  BY <1>1
<1>5. /\ f \in [0..N -> Service!Storage] /\ f[0] = s
      /\ \A k \in 1..N : f[k] = Service!Combine(f[k - 1], clones[k])
  BY <1>3, <1>4 DEF Iterates
<1>6. Eq(f)
  <2>1. \A k \in 0..N : k = 0 \/ k \in 1..N
    BY <1>1
  <2> HIDE DEF N
  <2> QED BY <1>5, <2>1
<1>7. PICK g : Eq(g) /\ Service!CombineAll(s, clones) = g[N]
  <2>1. Eq(CHOOSE g : Eq(g))
    BY <1>6
  <2> QED BY <2>1 DEF Service!CombineAll
<1> HIDE DEF N, step
<1>8. \A k \in 0..N : g[k] = f[k]
  <2> DEFINE T == {k \in Nat : k <= N => g[k] = f[k]}
  <2>1. 0 \in T
    BY <1>1, <1>5, <1>7
  <2>2. ASSUME NEW k \in T PROVE k + 1 \in T
    <3>1. k \in Nat /\ (k <= N => g[k] = f[k])
      OBVIOUS
    <3>2. CASE k + 1 <= N
      <4>1. k + 1 \in 1..N /\ (k + 1) - 1 = k /\ k <= N
        BY <3>1, <3>2, <1>1
      <4>2. g[k + 1] = Service!Combine(g[k], clones[k + 1])
        BY <4>1, <1>4, <1>7
      <4>3. f[k + 1] = Service!Combine(f[k], clones[k + 1])
        BY <4>1, <1>5
      <4> QED BY <4>1, <4>2, <4>3, <3>1
    <3> QED BY <3>1, <3>2
  <2>3. \A k \in Nat : k \in T
    <3> HIDE DEF T
    <3> QED BY <2>1, <2>2, NatInductionSet DEF T
  <2> QED BY <2>3, <1>1
<1>9. f[N] = Service!CombineAll(s, clones)
  BY <1>1, <1>7, <1>8
<1> QED BY <1>5, <1>9 DEF N

\* The clones are combined to what they hold together.
LEMMA CombineAllFacts ==
  ASSUME NEW s \in Service!Storage, NEW clones \in Seq(Service!Storage)
  PROVE  /\ Service!CombineAll(s, clones) \in Service!Storage
         /\ \A n \in Name : Service!Range(Service!CombineAll(s, clones)[n])
                = Service!Range(s[n]) \cup UNION {Service!Range(clones[k][n]) : k \in DOMAIN clones}
         /\ Service!NoDuplicates(s) => Service!NoDuplicates(Service!CombineAll(s, clones))
<1> DEFINE N == Len(clones)
           first(k, n) == UNION {Service!Range(clones[j][n]) : j \in 1..k}
           Good(t, k) ==
                /\ \A n \in Name : Service!Range(t[n]) = Service!Range(s[n]) \cup first(k, n)
                /\ Service!NoDuplicates(s) => Service!NoDuplicates(t)
<1>1. N \in Nat /\ DOMAIN clones = 1..N /\ \A k \in 1..N : clones[k] \in Service!Storage
  OBVIOUS
<1>2. PICK f \in [0..N -> Service!Storage] :
        /\ f[0] = s
        /\ \A k \in 1..N : f[k] = Service!Combine(f[k - 1], clones[k])
        /\ f[N] = Service!CombineAll(s, clones)
  BY CombineAllSteps
<1> HIDE DEF N
<1> DEFINE T == {k \in Nat : k <= N => Good(f[k], k)}
<1>3. 0 \in T
  <2>1. \A n : first(0, n) = {}
    OBVIOUS
  <2> HIDE DEF first
  <2> QED BY <2>1, <1>2
<1>4. ASSUME NEW k \in T PROVE k + 1 \in T
  <2>1. k \in Nat /\ (k <= N => Good(f[k], k))
    OBVIOUS
  <2> HIDE DEF Good
  <2>2. CASE k + 1 <= N
    <3>1. k + 1 \in 1..N /\ (k + 1) - 1 = k /\ k <= N /\ k \in 0..N
      BY <2>1, <2>2, <1>1
    <3> DEFINE c == clones[k + 1]
               t == f[k]
               u == f[k + 1]
    <3>2. c \in Service!Storage /\ t \in Service!Storage /\ u = Service!Combine(t, c)
      BY <3>1, <1>1, <1>2
    <3>3. \A n : first(k + 1, n) = first(k, n) \cup Service!Range(c[n])
      <4>1. \A j \in 1..(k + 1) : j \in 1..k \/ j = k + 1
        BY <2>1
      <4>2. \A j \in 1..k : j \in 1..(k + 1)
        BY <2>1
      <4>3. k + 1 \in 1..(k + 1)
        BY <2>1
      <4> QED BY <4>1, <4>2, <4>3
    <3>4. Good(t, k)
      BY <2>1, <3>1
    <3> HIDE DEF c, t, u, first
    <3>5. /\ \A n \in Name : Service!Range(u[n]) = Service!Range(t[n]) \cup Service!Range(c[n])
          /\ Service!NoDuplicates(t) => Service!NoDuplicates(u)
      <4>1. /\ \A n \in Name : Service!Range(Service!Combine(t, c)[n])
                    = Service!Range(t[n]) \cup Service!Range(c[n])
            /\ Service!NoDuplicates(t) => Service!NoDuplicates(Service!Combine(t, c))
        <5>1. t \in Service!Storage /\ c \in Service!Storage
          BY <3>2
        <5> QED BY <5>1, CombineFacts, Zenon
      <4> QED BY <4>1, <3>2
    <3>6. Good(u, k + 1)
      BY <3>3, <3>4, <3>5 DEF Good
    <3> QED BY <2>1, <3>6 DEF u
  <2> QED BY <2>1, <2>2
<1>5. \A k \in Nat : k \in T
  <2> HIDE DEF T
  <2> QED BY <1>3, <1>4, NatInductionSet DEF T
<1>6. Good(f[N], N) /\ f[N] \in Service!Storage
  <2>0. N \in T
    <3> HIDE DEF T
    <3> QED BY <1>1, <1>5
  <2>1. (N <= N => Good(f[N], N)) /\ N <= N /\ N \in 0..N
    <3> HIDE DEF Good
    <3> QED BY <1>1, <2>0
  <2>2. f[N] \in Service!Storage
    BY <2>1, <1>2
  <2> HIDE DEF Good
  <2> QED BY <2>1, <2>2
<1> QED BY <1>1, <1>2, <1>6

-----------------------------------------------------------------------------
(* Service detection: what a thread leaves that examines ports in order.   *)

\* f goes through the storages such a thread has.
Goes(f, E) ==
  /\ f \in [0..Len(TCPPorts) -> Service!Storage]
  /\ f[0] = Before
  /\ \A k \in 1..Len(TCPPorts) :
        f[k] = IF TCPPorts[k] \in E THEN Service!WrittenAll(f[k - 1], Finds[TCPPorts[k]])
                                    ELSE f[k - 1]
  /\ f[Len(TCPPorts)] = Service!InOrder(E)

LEMMA InOrderGoes ==
  ASSUME NEW E
  PROVE  \E f : Goes(f, E)
<1> DEFINE N == Len(TCPPorts)
           Do(t, k) == IF TCPPorts[k] \in E THEN Service!WrittenAll(t, Finds[TCPPorts[k]]) ELSE t
           step == [k \in 1..N |-> [t \in Service!Storage |-> Do(t, k)]]
           Eq(f) == f = [k \in 0..N |->
                            IF k = 0 THEN Before
                            ELSE IF TCPPorts[k] \in E
                                 THEN Service!WrittenAll(f[k - 1], Finds[TCPPorts[k]])
                                 ELSE f[k - 1]]
<1>1. N \in Nat /\ Before \in Service!Storage /\ \A k \in 1..N : TCPPorts[k] \in Service!Range(TCPPorts)
  BY Constants
<1>2. step \in [1..N -> [Service!Storage -> Service!Storage]]
  <2>1. ASSUME NEW k \in 1..N, NEW t \in Service!Storage PROVE Do(t, k) \in Service!Storage
    BY <1>1, PortLeaves
  <2> HIDE DEF Do
  <2> QED BY <2>1
<1>3. PICK f : Iterates(f, N, Service!Storage, Before, step)
  <2> HIDE DEF step, N
  <2> QED BY <1>1, <1>2, Recursion
<1>4. \A k \in 1..N : k - 1 \in 0..N /\ k \in 0..N /\ k # 0
  BY <1>1
<1>5. /\ f \in [0..N -> Service!Storage] /\ f[0] = Before
      /\ \A k \in 1..N : f[k] = Do(f[k - 1], k)
  <2> HIDE DEF Do
  <2> QED BY <1>3, <1>4 DEF Iterates
<1>6. Eq(f)
  <2>1. \A k \in 0..N : k = 0 \/ k \in 1..N
    BY <1>1
  <2> HIDE DEF N
  <2> QED BY <1>5, <2>1
<1>7. PICK g : Eq(g) /\ Service!InOrder(E) = g[N]
  <2>1. Eq(CHOOSE g : Eq(g))
    BY <1>6
  <2> QED BY <2>1 DEF Service!InOrder
<1> HIDE DEF N, step
<1>8. \A k \in 0..N : g[k] = f[k]
  <2> DEFINE T == {k \in Nat : k <= N => g[k] = f[k]}
  <2>1. 0 \in T
    BY <1>1, <1>5, <1>7
  <2>2. ASSUME NEW k \in T PROVE k + 1 \in T
    <3>1. k \in Nat /\ (k <= N => g[k] = f[k])
      OBVIOUS
    <3>2. CASE k + 1 <= N
      <4>1. k + 1 \in 1..N /\ (k + 1) - 1 = k /\ k <= N
        BY <3>1, <3>2, <1>1
      <4>2. g[k + 1] = Do(g[k], k + 1)
        BY <4>1, <1>4, <1>7
      <4>3. f[k + 1] = Do(f[k], k + 1)
        BY <4>1, <1>5
      <4> QED BY <4>1, <4>2, <4>3, <3>1
    <3> QED BY <3>1, <3>2
  <2>3. \A k \in Nat : k \in T
    <3> HIDE DEF T
    <3> QED BY <2>1, <2>2, NatInductionSet DEF T
  <2> QED BY <2>3, <1>1
<1>9. f[N] = Service!InOrder(E)
  BY <1>1, <1>7, <1>8
<1> QED BY <1>5, <1>9 DEF N, Goes

\* What holds at the beginning and is kept by the next port holds at the end.
LEMMA GoesThrough ==
  ASSUME NEW T \in SUBSET Nat, 0 \in T,
         \A k \in T : k + 1 <= Len(TCPPorts) => k + 1 \in T
  PROVE  Len(TCPPorts) \in T
<1> DEFINE N == Len(TCPPorts)
           S == {k \in Nat : k <= N => k \in T}
<1>1. N \in Nat
  BY Constants
<1> HIDE DEF N
<1>2. 0 \in S
  OBVIOUS
<1>3. ASSUME NEW k \in S PROVE k + 1 \in S
  <2>1. k + 1 <= N => k <= N
    BY <1>1
  <2> QED BY <2>1 DEF N
<1>4. \A k \in Nat : k \in S
  <2> HIDE DEF S
  <2> QED BY <1>2, <1>3, NatInductionSet DEF S
<1> QED BY <1>1, <1>4 DEF N

LEMMA InOrderNone == Service!InOrder({}) = Before
<1>1. PICK f : Goes(f, {})
  BY InOrderGoes
<1> DEFINE T == {k \in Nat : k <= Len(TCPPorts) => f[k] = Before}
<1>2. 0 \in T
  BY <1>1 DEF Goes
<1>3. ASSUME NEW k \in T, k + 1 <= Len(TCPPorts) PROVE k + 1 \in T
  <2>1. k + 1 \in 1..Len(TCPPorts) /\ (k + 1) - 1 = k /\ k <= Len(TCPPorts)
    BY <1>3, Constants
  <2> QED BY <1>1, <2>1 DEF Goes
<1>4. Len(TCPPorts) \in T
  <2> HIDE DEF T
  <2> QED BY <1>2, <1>3, GoesThrough DEF T
<1>5. Len(TCPPorts) <= Len(TCPPorts)
  BY Constants
<1> QED BY <1>1, <1>4, <1>5 DEF Goes

\* A port that is behind all others is the last to be examined.
LEMMA InOrderNext ==
  ASSUME NEW E \in SUBSET Service!Range(TCPPorts), NEW p \in Service!Range(TCPPorts), p \notin E,
         \A q \in E : Service!Earlier(q, p)
  PROVE  Service!InOrder(E \cup {p}) = Service!WrittenAll(Service!InOrder(E), Finds[p])
<1> DEFINE N == Len(TCPPorts)
<1>1. /\ N \in Nat /\ DOMAIN TCPPorts = 1..N
      /\ \A j, k \in 1..N : TCPPorts[j] = TCPPorts[k] => j = k
  BY Constants DEF Service!IsInjective
<1>2. PICK x \in 1..N : TCPPorts[x] = p
  BY <1>1 DEF Service!Range
<1>3. \A k \in 1..N : k >= x => TCPPorts[k] \notin E
  <2> SUFFICES ASSUME NEW k \in 1..N, TCPPorts[k] \in E PROVE k < x
    BY <1>1
  <2>1. PICK y, z \in 1..N : TCPPorts[y] = TCPPorts[k] /\ TCPPorts[z] = p /\ y < z
    BY <1>1 DEF Service!Earlier
  <2> QED BY <2>1, <1>1, <1>2
<1>4. PICK f : Goes(f, E)
  BY InOrderGoes
<1>5. PICK g : Goes(g, E \cup {p})
  BY InOrderGoes
<1>6. /\ f[0] = Before /\ g[0] = Before
      /\ f[N] = Service!InOrder(E) /\ g[N] = Service!InOrder(E \cup {p})
  BY <1>4, <1>5 DEF Goes
<1> DEFINE T == {k \in Nat : /\ k < x => g[k] = f[k]
                             /\ k >= x => g[k] = Service!WrittenAll(f[k], Finds[p])}
<1>7. 0 \in T
  BY <1>2, <1>6
<1>8. ASSUME NEW k \in T, k + 1 <= N PROVE k + 1 \in T
  <2> DEFINE q == TCPPorts[k + 1]
  <2>1. /\ k \in Nat /\ k + 1 \in 1..N /\ (k + 1) - 1 = k
        /\ k < x => g[k] = f[k]
        /\ k >= x => g[k] = Service!WrittenAll(f[k], Finds[p])
    BY <1>8, <1>1
  <2>2. /\ f[k + 1] = IF q \in E THEN Service!WrittenAll(f[k], Finds[q]) ELSE f[k]
        /\ g[k + 1] = IF q \in E \cup {p} THEN Service!WrittenAll(g[k], Finds[q]) ELSE g[k]
    BY <2>1, <1>4, <1>5 DEF Goes
  <2>3. q = p <=> k + 1 = x
    BY <2>1, <1>1, <1>2
  <2>4. k + 1 >= x => q \notin E
    BY <2>1, <1>3
  <2> HIDE DEF q
  <2>5. CASE k + 1 < x
    BY <2>1, <2>2, <2>3, <2>5, <1>2
  <2>6. CASE k + 1 = x
    BY <2>1, <2>2, <2>3, <2>4, <2>6, <1>2
  <2>7. CASE k + 1 > x
    BY <2>1, <2>2, <2>3, <2>4, <2>7, <1>2
  <2> QED BY <2>1, <2>5, <2>6, <2>7, <1>2
<1>9. N \in T
  <2> HIDE DEF T
  <2> QED BY <1>7, <1>8, GoesThrough DEF T
<1> QED BY <1>1, <1>2, <1>6, <1>9

\* If every port is examined by one thread or another, the threads together keep
\* what one thread would have kept.
LEMMA NothingLost ==
  ASSUME NEW P, P = Service!Range(TCPPorts), NEW n \in Nat, NEW E \in [1..n -> SUBSET P],
         \A p \in P : \E i \in 1..n : p \in E[i], NEW m \in Name
  PROVE  Service!Range(Service!InOrder(P)[m]) \subseteq
            Service!Range(Before[m]) \cup UNION {Service!Range(Service!InOrder(E[i])[m]) : i \in 1..n}
<1> DEFINE N == Len(TCPPorts)
           G == [i \in 1..n |-> CHOOSE g : Goes(g, E[i])]
           Together(k) == Service!Range(Before[m]) \cup UNION {Service!Range(G[i][k][m]) : i \in 1..n}
<1>1. N \in Nat /\ \A k \in 1..N : TCPPorts[k] \in P
  BY Constants
<1>2. PICK f : Goes(f, P)
  BY InOrderGoes
<1>3. \A i \in 1..n : Goes(G[i], E[i])
  BY InOrderGoes
<1> HIDE DEF G
<1> DEFINE T == {k \in Nat : k <= N => Service!Range(f[k][m]) \subseteq Together(k)}
<1>4. 0 \in T
  BY <1>2 DEF Goes
<1>5. ASSUME NEW k \in T, k + 1 <= N PROVE k + 1 \in T
  <2> DEFINE q == TCPPorts[k + 1]
  <2>1. /\ k \in Nat /\ k \in 0..N /\ k + 1 \in 1..N /\ (k + 1) - 1 = k /\ q \in P
        /\ Service!Range(f[k][m]) \subseteq Together(k)
    BY <1>5, <1>1
  <2>2. f[k] \in Service!Storage /\ f[k + 1] = Service!WrittenAll(f[k], Finds[q])
    BY <2>1, <1>2 DEF Goes
  <2>3. \A i \in 1..n :
            /\ G[i][k] \in Service!Storage
            /\ G[i][k + 1] = IF q \in E[i] THEN Service!WrittenAll(G[i][k], Finds[q]) ELSE G[i][k]
    BY <2>1, <1>3 DEF Goes
  <2> HIDE DEF q
  <2> DEFINE stays(s) == (IF Service!Replaces(q, m) THEN {} ELSE Service!Range(s[m])) \cup Service!LeftBy(q, m)
  <2>4. Service!Range(f[k + 1][m]) = stays(f[k])
    BY <2>1, <2>2, PortLeaves
  <2>5. ASSUME NEW i \in 1..n, q \in E[i] PROVE Service!Range(G[i][k + 1][m]) = stays(G[i][k])
    <3> DEFINE s == G[i][k]
    <3>1. s \in Service!Storage /\ G[i][k + 1] = Service!WrittenAll(s, Finds[q])
      BY <2>3, <2>5
    <3> HIDE DEF s
    <3>2. Service!Range(G[i][k + 1][m]) = stays(s)
      BY <2>1, <3>1, PortLeaves
    <3> QED BY <3>2 DEF s
  <2>6. ASSUME NEW v \in Service!Range(f[k + 1][m]), v \notin Service!Range(Before[m])
        PROVE  \E i \in 1..n : v \in Service!Range(G[i][k + 1][m])
    <3>1. CASE v \in Service!LeftBy(q, m)
      <4>1. PICK i \in 1..n : q \in E[i]
        BY <2>1
      <4> QED BY <4>1, <3>1, <2>5
    <3>2. CASE v \notin Service!LeftBy(q, m)
      <4>1. ~Service!Replaces(q, m) /\ v \in Service!Range(f[k][m])
        BY <2>4, <2>6, <3>2
      <4>2. PICK i \in 1..n : v \in Service!Range(G[i][k][m])
        BY <2>1, <2>6, <4>1
      <4> QED BY <2>3, <2>5, <4>1, <4>2
    <3> QED BY <3>1, <3>2
  <2>7. Service!Range(f[k + 1][m]) \subseteq Together(k + 1)
    BY <2>6
  <2> QED BY <2>1, <2>7
<1>6. N \in T
  <2> HIDE DEF T
  <2> QED BY <1>4, <1>5, GoesThrough DEF T
<1>7. f[N] = Service!InOrder(P) /\ \A i \in 1..n : G[i][N] = Service!InOrder(E[i])
  BY <1>2, <1>3 DEF Goes
<1>8. Service!Range(f[N][m]) \subseteq Together(N)
  BY <1>1, <1>6
<1>9. {Service!Range(G[i][N][m]) : i \in 1..n} = {Service!Range(Service!InOrder(E[i])[m]) : i \in 1..n}
  BY <1>7
<1> QED BY <1>7, <1>8, <1>9

\* A thread has no item that nobody stored.
LEMMA NothingInvented ==
  ASSUME NEW E, NEW m \in Name
  PROVE  Service!Range(Service!InOrder(E)[m]) \subseteq Service!EverStored(m)
<1> DEFINE N == Len(TCPPorts)
<1>1. N \in Nat /\ \A k \in 1..N : TCPPorts[k] \in Service!Range(TCPPorts)
  BY Constants
<1>2. PICK f : Goes(f, E)
  BY InOrderGoes
<1> DEFINE T == {k \in Nat : k <= N => Service!Range(f[k][m]) \subseteq Service!EverStored(m)}
<1>3. 0 \in T
  BY <1>2 DEF Goes, Service!EverStored
<1>4. ASSUME NEW k \in T, k + 1 <= N PROVE k + 1 \in T
  <2> DEFINE q == TCPPorts[k + 1]
  <2>1. /\ k \in Nat /\ k \in 0..N /\ k + 1 \in 1..N /\ (k + 1) - 1 = k
        /\ q \in Service!Range(TCPPorts)
        /\ Service!Range(f[k][m]) \subseteq Service!EverStored(m)
    BY <1>4, <1>1
  <2>2. /\ f[k] \in Service!Storage
        /\ f[k + 1] = IF q \in E THEN Service!WrittenAll(f[k], Finds[q]) ELSE f[k]
    BY <2>1, <1>2 DEF Goes
  <2>3. Service!LeftBy(q, m) \subseteq Service!EverStored(m)
    BY <2>1 DEF Service!EverStored
  <2> HIDE DEF q
  <2>4. Service!Range(f[k + 1][m]) \subseteq Service!Range(f[k][m]) \cup Service!LeftBy(q, m)
    BY <2>1, <2>2, PortLeaves
  <2>5. Service!Range(f[k + 1][m]) \subseteq Service!EverStored(m)
    BY <2>1, <2>3, <2>4
  <2> QED BY <2>1, <2>5
<1>5. N \in T
  <2> HIDE DEF T
  <2> QED BY <1>3, <1>4, GoesThrough DEF T
<1> QED BY <1>1, <1>2, <1>5 DEF Goes

\* One thread keeps everything stored under a name that is not contested.
LEMMA AllKept ==
  ASSUME NEW P, P = Service!Range(TCPPorts), NEW m \in Name, ~Service!Contested(m)
  PROVE  Service!EverStored(m) \subseteq Service!Range(Service!InOrder(P)[m])
<1> DEFINE N == Len(TCPPorts)
           first(k) == Service!Range(Before[m]) \cup UNION {Service!LeftBy(TCPPorts[j], m) : j \in 1..k}
<1>1. N \in Nat /\ DOMAIN TCPPorts = 1..N /\ \A k \in 1..N : TCPPorts[k] \in P
  BY Constants
<1>2. PICK f : Goes(f, P)
  BY InOrderGoes
<1>3. \A k \in Nat : k <= N => first(k) \subseteq Service!EverStored(m)
  <2> SUFFICES ASSUME NEW k \in Nat, k <= N, NEW j \in 1..k
               PROVE  Service!LeftBy(TCPPorts[j], m) \subseteq Service!EverStored(m)
    BY DEF Service!EverStored
  <2>1. j \in 1..N
    BY <1>1
  <2> QED BY <1>1, <2>1 DEF Service!EverStored
<1> DEFINE T == {k \in Nat : k <= N => first(k) \subseteq Service!Range(f[k][m])}
<1>4. 0 \in T
  BY <1>2 DEF Goes
<1>5. ASSUME NEW k \in T, k + 1 <= N PROVE k + 1 \in T
  <2> DEFINE q == TCPPorts[k + 1]
  <2>1. /\ k \in Nat /\ k \in 0..N /\ k + 1 \in 1..N /\ (k + 1) - 1 = k /\ q \in P
        /\ first(k) \subseteq Service!Range(f[k][m])
    BY <1>5, <1>1
  <2>2. f[k] \in Service!Storage /\ f[k + 1] = Service!WrittenAll(f[k], Finds[q])
    BY <2>1, <1>2 DEF Goes
  <2>3. first(k + 1) \subseteq first(k) \cup Service!LeftBy(q, m)
    <3>1. \A j \in 1..(k + 1) : j \in 1..k \/ j = k + 1
      BY <2>1
    <3> QED BY <3>1
  <2>4. first(k + 1) \subseteq Service!EverStored(m)
    BY <2>1, <1>3
  <2> HIDE DEF q, first
  <2>5. Service!Range(f[k + 1][m]) =
            (IF Service!Replaces(q, m) THEN {} ELSE Service!Range(f[k][m])) \cup Service!LeftBy(q, m)
    BY <2>1, <2>2, PortLeaves
  <2>6. Service!Replaces(q, m) => Service!LeftBy(q, m) = Service!EverStored(m)
    BY <2>1 DEF Service!Contested
  <2>7. first(k + 1) \subseteq Service!Range(f[k + 1][m])
    BY <2>1, <2>3, <2>4, <2>5, <2>6
  <2> QED BY <2>1, <2>7
<1>6. N \in T
  <2> HIDE DEF T
  <2> QED BY <1>4, <1>5, GoesThrough DEF T
<1>7. Service!EverStored(m) \subseteq first(N)
  <2>1. P = {TCPPorts[j] : j \in 1..N}
    BY <1>1 DEF Service!Range
  <2> QED BY <2>1 DEF Service!EverStored
<1>8. first(N) \subseteq Service!Range(f[N][m])
  <2> HIDE DEF first
  <2> QED BY <1>1, <1>6
<1>9. f[N] = Service!InOrder(P)
  BY <1>2 DEF Goes
<1> HIDE DEF first
<1> QED BY <1>7, <1>8, <1>9

-----------------------------------------------------------------------------
(* Service detection: its steps.                                           *)

LEMMA DetectInit == ASSUME Service!Init PROVE Service!DetectInv
<1> USE DEF Service!Init
<1>1. threads = <<>> /\ DOMAIN threads = {}
  OBVIOUS
<1>2. Service!DetectTypeOK
  <2>1. threads \in [1..0 -> Service!Thread]
    BY <1>1
  <2> QED BY <2>1, Constants DEF Service!DetectTypeOK
<1>3. Service!LeftInv
  BY <1>1 DEF Service!LeftInv
<1>4. Service!FoundInv
  BY <1>1, Constants DEF Service!FoundInv
<1> QED BY <1>2, <1>3, <1>4 DEF Service!DetectInv

\* What FoundInv says of one thread.
Sound(t, i) ==
  LET dealt == Service!Range(Service!Deal(Service!ThreadTotal)[i])
  IN  /\ Service!NoDuplicates(t.storage)
      /\ Service!Range(t.ports) \subseteq dealt
      /\ \A k, l \in DOMAIN t.ports : k < l => Service!Earlier(t.ports[k], t.ports[l])
      /\ \A p \in dealt \ Service!Range(t.ports), q \in Service!Range(t.ports) : Service!Earlier(p, q)
      /\ \/ t.at = "end" /\ t.ports # <<>>
         \/ t.storage = Service!InOrder(dealt \ Service!Range(t.ports))

LEMMA FoundIsSound ==
  Service!FoundInv <=>
    /\ at # "done" => storage = Before
    /\ at # "idle" => DOMAIN threads = 1..Service!ThreadTotal
    /\ Service!NoDuplicates(storage)
    /\ \A i \in DOMAIN threads : Sound(threads[i], i)
    /\ at = "done" => \A n \in Name : Service!Range(storage[n])
            = Service!Range(Before[n])
                \cup UNION {Service!Range(threads[i].storage[n]) : i \in DOMAIN threads}
BY DEF Service!FoundInv, Sound

\* The same of the next state; the deal does not change.
LEMMA FoundIsSoundNext ==
  Service!FoundInv' <=>
    /\ at' # "done" => storage' = Before
    /\ at' # "idle" => DOMAIN threads' = 1..Service!ThreadTotal
    /\ Service!NoDuplicates(storage')
    /\ \A i \in DOMAIN threads' : Sound(threads'[i], i)
    /\ at' = "done" => \A n \in Name : Service!Range(storage'[n])
            = Service!Range(Before[n])
                \cup UNION {Service!Range(threads'[i].storage[n]) : i \in DOMAIN threads'}
<1>1. Service!ThreadTotal' = Service!ThreadTotal
  BY DEF Service!ThreadTotal
<1>2. \A i : Sound(threads[i], i)' <=> Sound(threads'[i], i)
  BY DEF Sound
<1>3. Service!NoDuplicates(storage)' <=> Service!NoDuplicates(storage')
  BY DEF Service!NoDuplicates
<1>4. Service!FoundInv' <=>
        /\ at' # "done" => storage' = Before
        /\ at' # "idle" => DOMAIN threads' = 1..Service!ThreadTotal'
        /\ Service!NoDuplicates(storage)'
        /\ \A i \in DOMAIN threads' : Sound(threads[i], i)'
        /\ at' = "done" => \A n \in Name : Service!Range(storage'[n])
                = Service!Range(Before[n])
                    \cup UNION {Service!Range(threads'[i].storage[n]) : i \in DOMAIN threads'}
  BY DEF Service!FoundInv, Sound
<1> QED BY <1>1, <1>2, <1>3, <1>4

\* Between two steps of the join a step of the threads keeps FoundInv if it keeps
\* them sound.
LEMMA FoundWhileRunning ==
  ASSUME Service!FoundInv, at = "join", UNCHANGED <<at, storage>>,
         DOMAIN threads' = DOMAIN threads,
         \A i \in DOMAIN threads : Sound(threads'[i], i)
  PROVE  Service!FoundInv'
<1>1. /\ storage = Before /\ DOMAIN threads = 1..Service!ThreadTotal /\ Service!NoDuplicates(storage)
  BY FoundIsSound
<1> QED BY <1>1, FoundIsSoundNext

\* A thread goes on with the ports it has, or fails.
LEMMA GoesOn ==
  ASSUME Service!DetectInv, NEW i \in DOMAIN threads, NEW r \in Service!Thread,
         threads[i].at # "end", threads' = [threads EXCEPT ![i] = r],
         r.ports = threads[i].ports, Service!NoDuplicates(r.storage),
         r.storage = threads[i].storage \/ (r.at = "end" /\ r.ports # <<>>),
         r.at = "end" /\ ~exit[Self] => r.ports = <<>> \/ Head(r.ports) \in failed',
         UNCHANGED <<at, storage, examined, exit>>,
         failed \subseteq failed', failed' \subseteq Service!Range(TCPPorts)
  PROVE  Service!DetectInv'
<1>1. PICK n \in Nat : threads \in [1..n -> Service!Thread]
  BY DEF Service!DetectInv, Service!DetectTypeOK
<1>2. /\ DOMAIN threads = 1..n /\ DOMAIN threads' = 1..n /\ threads' \in [1..n -> Service!Thread]
      /\ threads'[i] = r /\ \A j \in 1..n : j # i => threads'[j] = threads[j]
  BY <1>1
<1>3. \A j \in 1..n : threads'[j].ports = threads[j].ports
  BY <1>2
<1>4. at = "join"
  BY DEF Service!DetectInv, Service!DetectTypeOK, Service!LeftInv
<1>5. Service!DetectTypeOK'
  BY <1>2 DEF Service!DetectInv, Service!DetectTypeOK
<1>6. Service!LeftInv'
  <2>1. \A j \in 1..n : threads'[j].at = "end" /\ ~exit[Self] =>
            threads'[j].ports = <<>> \/ Head(threads'[j].ports) \in failed'
    BY <1>2 DEF Service!DetectInv, Service!LeftInv
  <2>2. \A p \in Service!Range(TCPPorts) : examined[p] =
            IF \E j \in 1..n : p \in Service!Range(threads'[j].ports) THEN 0 ELSE 1
    BY <1>2, <1>3, <1>4 DEF Service!DetectInv, Service!LeftInv
  <2>3. \A j \in 1..n :
            /\ Service!IsInjective(threads'[j].ports)
            /\ \A k \in (1..n) \ {j} :
                Service!Range(threads'[j].ports) \cap Service!Range(threads'[k].ports) = {}
    BY <1>2, <1>3 DEF Service!DetectInv, Service!LeftInv
  <2> QED BY <2>1, <2>2, <2>3, <1>2, <1>4 DEF Service!LeftInv
<1>7. Service!FoundInv'
  <2>1. \A j \in 1..n : Sound(threads[j], j)
    BY <1>2, FoundIsSound DEF Service!DetectInv
  <2>2. Sound(r, i)
    BY <1>2, <2>1 DEF Sound
  <2>3. \A j \in 1..n : Sound(threads'[j], j)
    BY <1>2, <2>1, <2>2
  <2> QED BY <1>2, <1>4, <2>3, FoundWhileRunning DEF Service!DetectInv
<1> QED BY <1>5, <1>6, <1>7 DEF Service!DetectInv

\* What a thread is before it does something.
LEMMA ThreadFacts ==
  ASSUME Service!DetectInv, NEW i \in DOMAIN threads
  PROVE  /\ threads[i] \in Service!Thread
         /\ threads[i].at \in {"enter", "test", "port", "end"}
         /\ threads[i].ports \in Seq(Service!Range(TCPPorts))
         /\ threads[i].storage \in Service!Storage
         /\ Service!NoDuplicates(threads[i].storage)
         /\ failed \subseteq Service!Range(TCPPorts)
<1>1. threads[i] \in Service!Thread /\ failed \subseteq Service!Range(TCPPorts)
  BY DEF Service!DetectInv, Service!DetectTypeOK
<1>2. Service!NoDuplicates(threads[i].storage)
  BY DEF Service!DetectInv, Service!FoundInv
<1> QED BY <1>1, <1>2 DEF Service!Thread

LEMMA TestExitStep ==
  ASSUME Service!DetectInv, NEW i \in DOMAIN threads, Service!TestExit(i), UNCHANGED exit
  PROVE  Service!DetectInv'
<1> DEFINE r == [threads[i] EXCEPT !.at = IF exit[Self] THEN "end" ELSE "port"]
<1>1. /\ threads[i].at # "end" /\ threads' = [threads EXCEPT ![i] = r]
      /\ UNCHANGED <<at, storage, examined, failed>>
  BY DEF Service!TestExit
<1>2. /\ r \in Service!Thread /\ r.ports = threads[i].ports /\ r.storage = threads[i].storage
      /\ r.at = "end" => exit[Self]
  BY ThreadFacts DEF Service!Thread
<1> HIDE DEF r
<1> QED BY <1>1, <1>2, ThreadFacts, GoesOn

LEMMA ThreadEndStep ==
  ASSUME Service!DetectInv, NEW i \in DOMAIN threads, Service!ThreadEnd(i), UNCHANGED exit
  PROVE  Service!DetectInv'
<1> DEFINE r == [threads[i] EXCEPT !.at = "end"]
<1>1. /\ threads[i].at # "end" /\ threads' = [threads EXCEPT ![i] = r] /\ threads[i].ports = <<>>
      /\ UNCHANGED <<at, storage, examined, failed>>
  BY DEF Service!ThreadEnd
<1>2. r \in Service!Thread /\ r.ports = threads[i].ports /\ r.storage = threads[i].storage
  BY ThreadFacts DEF Service!Thread
<1> HIDE DEF r
<1> QED BY <1>1, <1>2, ThreadFacts, GoesOn

LEMMA ThreadFailStep ==
  ASSUME Service!DetectInv, NEW i \in DOMAIN threads, Service!ThreadFail(i), UNCHANGED exit
  PROVE  Service!DetectInv'
<1> DEFINE port == Head(threads[i].ports)
           kept(k) == Service!WrittenAll(threads[i].storage, SubSeq(Finds[port], 1, k))
<1>1. /\ threads[i].at = "port" /\ threads[i].ports # <<>>
      /\ failed' = failed \cup {port} /\ UNCHANGED <<at, storage, examined>>
  BY DEF Service!ThreadFail
<1>2. PICK k \in 0..Len(Finds[port]) :
        threads' = [threads EXCEPT ![i] = [at |-> "end", ports |-> threads[i].ports, storage |-> kept(k)]]
  BY DEF Service!ThreadFail
<1> DEFINE r == [at |-> "end", ports |-> threads[i].ports, storage |-> kept(k)]
<1>3. port \in Service!Range(TCPPorts) /\ Finds[port] \in Seq(Call)
  BY <1>1, ThreadFacts, HeadTailProperties, Constants
<1>4. kept(k) \in Service!Storage /\ Service!NoDuplicates(kept(k))
  <2>1. SubSeq(Finds[port], 1, k) \in Seq(Call)
    BY <1>2, <1>3
  <2> QED BY <2>1, ThreadFacts, WrittenAllFacts
<1> HIDE DEF kept
<1>5. /\ r \in Service!Thread /\ r.ports = threads[i].ports /\ r.at = "end"
      /\ r.storage = kept(k)
  BY <1>4, ThreadFacts DEF Service!Thread
<1>6. threads' = [threads EXCEPT ![i] = r]
  BY <1>2
<1> HIDE DEF r
<1>7. Service!NoDuplicates(r.storage) /\ Head(r.ports) \in failed' /\ failed \subseteq failed'
  BY <1>1, <1>4, <1>5
<1>8. failed' \subseteq Service!Range(TCPPorts)
  BY <1>1, <1>3, ThreadFacts
<1> QED BY <1>1, <1>5, <1>6, <1>7, <1>8, GoesOn

\* The first of a thread's ports is examined to its end.
LEMMA DetectPortStep ==
  ASSUME Service!DetectInv, NEW i \in DOMAIN threads, Service!DetectPort(i), UNCHANGED exit
  PROVE  Service!DetectInv'
<1> DEFINE P == Service!Range(TCPPorts)
           Left(j) == Service!Range(threads[j].ports)
           Dealt(j) == Service!Range(Service!Deal(Service!ThreadTotal)[j])
           port == Head(threads[i].ports)
           new == Service!WrittenAll(threads[i].storage, Finds[port])
           r == [at |-> "test", ports |-> Tail(threads[i].ports), storage |-> new]
<1>1. /\ threads[i].at = "port" /\ threads[i].ports # <<>>
      /\ threads' = [threads EXCEPT ![i] = r]
      /\ examined' = [examined EXCEPT ![port] = examined[port] + 1]
      /\ UNCHANGED <<at, storage, failed>>
  BY DEF Service!DetectPort
<1>2. PICK n \in Nat : threads \in [1..n -> Service!Thread]
  BY DEF Service!DetectInv, Service!DetectTypeOK
<1>3. DOMAIN threads = 1..n /\ at = "join"
  BY <1>1, <1>2 DEF Service!DetectInv, Service!DetectTypeOK, Service!LeftInv
<1>4. /\ port \in P /\ Finds[port] \in Seq(Call) /\ Tail(threads[i].ports) \in Seq(P)
      /\ Service!IsInjective(Tail(threads[i].ports))
      /\ port \notin Service!Range(Tail(threads[i].ports))
      /\ Left(i) = Service!Range(Tail(threads[i].ports)) \cup {port}
  <2>1. threads[i].ports \in Seq(P) /\ Service!IsInjective(threads[i].ports)
    BY ThreadFacts DEF Service!DetectInv, Service!LeftInv
  <2>2. /\ Tail(threads[i].ports) \in Seq(P) /\ port \in P
        /\ Service!IsInjective(Tail(threads[i].ports))
        /\ port \notin Service!Range(Tail(threads[i].ports))
        /\ Service!Range(threads[i].ports) = Service!Range(Tail(threads[i].ports)) \cup {port}
    BY <2>1, <1>1, TailFacts
  <2> QED BY <2>2, Constants
<1>5. new \in Service!Storage /\ Service!NoDuplicates(new)
  BY <1>4, ThreadFacts, WrittenAllFacts
<1> HIDE DEF new, port
<1>6. /\ r \in Service!Thread /\ r.at = "test" /\ r.storage = new
      /\ r.ports = Tail(threads[i].ports)
  BY <1>4, <1>5 DEF Service!Thread
<1> HIDE DEF r
<1>7. /\ DOMAIN threads' = 1..n /\ threads' \in [1..n -> Service!Thread]
      /\ threads'[i] = r /\ \A j \in 1..n : j # i => threads'[j] = threads[j]
  BY <1>1, <1>2, <1>3, <1>6
<1> DEFINE Left1(j) == Service!Range(threads'[j].ports)
<1>8. /\ Left(i) = Left1(i) \cup {port} /\ port \notin Left1(i)
      /\ \A j \in 1..n : j # i => Left1(j) = Left(j) /\ port \notin Left(j)
  <2>1. \A j \in (1..n) \ {i} : Left(i) \cap Left(j) = {}
    BY <1>3 DEF Service!DetectInv, Service!LeftInv
  <2>2. \A j \in 1..n : j # i => Left1(j) = Left(j)
    BY <1>7
  <2>3. Left1(i) = Service!Range(Tail(threads[i].ports))
    BY <1>6, <1>7
  <2> HIDE DEF Left, Left1
  <2> QED BY <2>1, <2>2, <2>3, <1>4
<1>9. examined \in [P -> Nat] /\ examined[port] = 0
  <2>1. \A p \in P : examined[p] = IF \E j \in 1..n : p \in Left(j) THEN 0 ELSE 1
    BY <1>3 DEF Service!DetectInv, Service!LeftInv
  <2>2. port \in Left(i) /\ i \in 1..n
    BY <1>3, <1>4
  <2>3. examined \in [P -> Nat]
    BY DEF Service!DetectInv, Service!DetectTypeOK
  <2> HIDE DEF Left
  <2> QED BY <2>1, <2>2, <2>3, <1>4
<1>10. Service!DetectTypeOK'
  <2>1. examined' \in [P -> Nat]
    <3>1. examined' = [examined EXCEPT ![port] = 1]
      BY <1>1, <1>9
    <3> HIDE DEF P
    <3> QED BY <3>1, <1>9
  <2>2. threads' \in [1..n -> Service!Thread]
    BY <1>7
  <2>3. (\E m \in Nat : threads \in [1..m -> Service!Thread])'
    BY <2>2
  <2> QED BY <1>1, <2>1, <2>3 DEF Service!DetectInv, Service!DetectTypeOK
<1>11. Service!LeftInv'
  <2>1. \A j \in 1..n : threads'[j].at = "end" /\ ~exit[Self] =>
            threads'[j].ports = <<>> \/ Head(threads'[j].ports) \in failed
    BY <1>3, <1>6, <1>7 DEF Service!DetectInv, Service!LeftInv
  <2>2. \A p \in P : examined'[p] = IF \E j \in 1..n : p \in Left1(j) THEN 0 ELSE 1
    <3>1. \A p \in P : examined[p] = IF \E j \in 1..n : p \in Left(j) THEN 0 ELSE 1
      BY <1>3 DEF Service!DetectInv, Service!LeftInv
    <3>2. examined'[port] = 1 /\ \A p \in P : p # port => examined'[p] = examined[p]
      BY <1>1, <1>4, <1>9
    <3> HIDE DEF Left, Left1
    <3>3. \A j \in 1..n : port \notin Left1(j)
      BY <1>8
    <3>4. \A p \in P : p # port => \A j \in 1..n : p \in Left1(j) <=> p \in Left(j)
      BY <1>8
    <3> QED BY <3>1, <3>2, <3>3, <3>4
  <2>3. \A j \in 1..n : Service!IsInjective(threads'[j].ports)
    BY <1>3, <1>4, <1>6, <1>7 DEF Service!DetectInv, Service!LeftInv
  <2>4. \A j \in 1..n : \A k \in (1..n) \ {j} : Left1(j) \cap Left1(k) = {}
    <3>1. \A j \in 1..n : \A k \in (1..n) \ {j} : Left(j) \cap Left(k) = {}
      BY <1>3 DEF Service!DetectInv, Service!LeftInv
    <3>2. \A j \in 1..n : Left1(j) \subseteq Left(j)
      BY <1>8
    <3> HIDE DEF Left, Left1
    <3> QED BY <3>1, <3>2
  <2>5. exit' = exit /\ at' = "join" /\ failed' = failed /\ DOMAIN threads' = 1..n
    BY <1>1, <1>3, <1>7
  <2> QED BY <2>1, <2>2, <2>3, <2>4, <2>5 DEF Service!LeftInv
<1>12. Service!FoundInv'
  <2>1. \A j \in 1..n : Sound(threads[j], j)
    BY <1>3, FoundIsSound DEF Service!DetectInv
  <2>2. Sound(r, i)
    <3> DEFINE ports == threads[i].ports
               rest == Tail(threads[i].ports)
               E == Dealt(i) \ Left(i)
    <3>1. /\ Left(i) \subseteq Dealt(i)
          /\ \A k, l \in DOMAIN ports : k < l => Service!Earlier(ports[k], ports[l])
          /\ \A p \in E, q \in Left(i) : Service!Earlier(p, q)
          /\ threads[i].storage = Service!InOrder(E)
      BY <2>1, <1>1, <1>3 DEF Sound
    <3>2. /\ ports \in Seq(P) /\ ports # <<>> /\ DOMAIN ports = 1..Len(ports) /\ Len(ports) \in Nat \ {0}
          /\ port = ports[1] /\ 1 \in DOMAIN ports
          /\ DOMAIN rest = 1..(Len(ports) - 1) /\ \A k \in DOMAIN rest : rest[k] = ports[k + 1]
      BY <1>1, ThreadFacts, EmptySeq, HeadTailProperties DEF port
    <3>3. \A k \in DOMAIN rest : k \in Nat \ {0} /\ k + 1 \in DOMAIN ports
      BY <3>2
    <3>4. Dealt(i) \subseteq P
      <4>1. Service!Deal(Service!ThreadTotal) \in [1..Service!ThreadTotal -> Seq(P)]
        BY DealFacts
      <4>2. i \in 1..Service!ThreadTotal
        BY <1>3, FoundIsSound DEF Service!DetectInv
      <4>3. Service!Deal(Service!ThreadTotal)[i] \in Seq(P)
        BY <4>1, <4>2
      <4> QED BY <4>3 DEF Service!Range
    <3>5. Left(i) = Service!Range(rest) \cup {port} /\ port \notin Service!Range(rest)
      BY <1>4
    <3>6. r.ports = rest /\ r.at = "test" /\ r.storage = Service!WrittenAll(threads[i].storage, Finds[port])
      BY <1>6 DEF new
    <3>7. \A q \in Service!Range(rest) : \E k \in DOMAIN rest : q = rest[k]
      BY DEF Service!Range
    <3> HIDE DEF Dealt, Left, ports, rest
    <3>8. \A k, l \in DOMAIN rest : k < l => Service!Earlier(rest[k], rest[l])
      BY <3>1, <3>2, <3>3
    <3>9. \A q \in Service!Range(rest) : Service!Earlier(port, q)
      <4>1. \A k \in DOMAIN rest : 1 < k + 1
        BY <3>3
      <4> QED BY <3>1, <3>2, <3>3, <3>7, <4>1
    <3>10. /\ E \in SUBSET P /\ port \in P /\ port \notin E /\ port \in Left(i)
           /\ Dealt(i) \ Service!Range(rest) = E \cup {port}
      BY <3>1, <3>4, <3>5, <1>4
    <3> HIDE DEF E
    <3>11. Service!InOrder(E \cup {port}) = Service!WrittenAll(threads[i].storage, Finds[port])
      BY <3>1, <3>10, InOrderNext
    <3>12. \A p \in Dealt(i) \ Service!Range(rest), q \in Service!Range(rest) : Service!Earlier(p, q)
      BY <3>1, <3>5, <3>9, <3>10
    <3>13. Service!Range(rest) \subseteq Dealt(i)
      BY <3>1, <3>5
    <3>14. Service!NoDuplicates(r.storage)
      BY <1>5, <1>6
    <3>15. r.storage = Service!InOrder(Dealt(i) \ Service!Range(rest))
      BY <3>6, <3>10, <3>11
    <3> QED BY <3>6, <3>8, <3>12, <3>13, <3>14, <3>15 DEF Sound, Dealt
  <2>3. \A j \in 1..n : Sound(threads'[j], j)
    BY <1>7, <2>1, <2>2
  <2> QED BY <1>1, <1>3, <1>7, <2>3, FoundWhileRunning DEF Service!DetectInv
<1> QED BY <1>10, <1>11, <1>12 DEF Service!DetectInv

\* Every thread gets the ports dealt to it and the storage as it is.
LEMMA StartStep ==
  ASSUME Service!DetectInv, Service!StartThreads, UNCHANGED exit
  PROVE  Service!DetectInv'
<1> DEFINE P == Service!Range(TCPPorts)
           n == Service!ThreadTotal
           D == Service!Deal(n)
<1>1. /\ at = "idle" /\ at' = "join" /\ UNCHANGED <<storage, examined, failed>>
      /\ threads' = [i \in 1..n |-> [at |-> "enter", ports |-> D[i], storage |-> storage]]
  BY DEF Service!StartThreads
<1>2. /\ storage \in Service!Storage /\ storage = Before /\ Service!NoDuplicates(storage)
      /\ examined \in [P -> Nat] /\ failed \subseteq P
      /\ \A p \in P : examined[p] = 0
  BY <1>1 DEF Service!DetectInv, Service!DetectTypeOK, Service!LeftInv, Service!FoundInv
<1>3. /\ n \in Nat /\ D \in [1..n -> Seq(P)]
      /\ \A i \in 1..n : Service!IsInjective(D[i])
      /\ \A i \in 1..n : \A j \in (1..n) \ {i} : Service!Range(D[i]) \cap Service!Range(D[j]) = {}
      /\ \A p \in P : \E i \in 1..n : p \in Service!Range(D[i])
      /\ \A i \in 1..n : \A k, l \in DOMAIN D[i] : k < l => Service!Earlier(D[i][k], D[i][l])
  BY ThreadTotalFacts, DealFacts
<1>4. Service!ThreadTotal' = Service!ThreadTotal /\ Service!Deal(Service!ThreadTotal)' = Service!Deal(Service!ThreadTotal)
  BY DEF Service!ThreadTotal, Service!Deal
<1> HIDE DEF n, D, P
<1>5. /\ DOMAIN threads' = 1..n /\ threads' \in [1..n -> Service!Thread]
      /\ \A i \in 1..n : /\ threads'[i].at = "enter" /\ threads'[i].ports = D[i]
                         /\ threads'[i].storage = storage
  BY <1>1, <1>2, <1>3 DEF Service!Thread, P
<1>6. Service!DetectTypeOK'
  <2>1. (\E m \in Nat : threads \in [1..m -> Service!Thread])'
    BY <1>3, <1>5
  <2> QED BY <1>1, <1>2, <2>1 DEF Service!DetectTypeOK, P
<1>7. Service!LeftInv'
  <2>1. \A p \in P : examined'[p] = IF \E i \in 1..n : p \in Service!Range(threads'[i].ports) THEN 0 ELSE 1
    BY <1>1, <1>2, <1>3, <1>5
  <2>2. \A i \in 1..n : Service!IsInjective(threads'[i].ports)
    BY <1>3, <1>5
  <2>3. \A i \in 1..n : \A j \in (1..n) \ {i} :
            Service!Range(threads'[i].ports) \cap Service!Range(threads'[j].ports) = {}
    BY <1>3, <1>5
  <2>4. \A i \in 1..n : threads'[i].at # "end"
    BY <1>5
  <2> QED BY <1>1, <1>5, <2>1, <2>2, <2>3, <2>4 DEF Service!LeftInv, P
<1>8. Service!FoundInv'
  <2>1. \A i \in 1..n : Sound(threads'[i], i)
    <3> SUFFICES ASSUME NEW i \in 1..n PROVE Sound(threads'[i], i)
      OBVIOUS
    <3>1. Service!Range(D[i]) \ Service!Range(threads'[i].ports) = {}
      BY <1>5
    <3>2. threads'[i].storage = Service!InOrder({})
      BY <1>2, <1>5, InOrderNone
    <3> QED BY <1>2, <1>3, <1>4, <1>5, <3>1, <3>2 DEF Sound, n, D
  <2> QED BY <1>1, <1>2, <1>5, <2>1, FoundIsSoundNext DEF n
<1> QED BY <1>6, <1>7, <1>8 DEF Service!DetectInv

\* When all threads have ended, what they found is combined.
LEMMA JoinStep ==
  ASSUME Service!DetectInv, Service!JoinThreads, UNCHANGED exit
  PROVE  Service!DetectInv'
<1> DEFINE P == Service!Range(TCPPorts)
           clones == [i \in DOMAIN threads |-> threads[i].storage]
<1>1. /\ at = "join" /\ at' = "done" /\ UNCHANGED <<threads, examined, failed>>
      /\ \A i \in DOMAIN threads : threads[i].at = "end"
      /\ storage' = Service!CombineAll(storage, clones)
  BY DEF Service!JoinThreads
<1>2. PICK n \in Nat : threads \in [1..n -> Service!Thread]
  BY DEF Service!DetectInv, Service!DetectTypeOK
<1>3. /\ DOMAIN threads = 1..n /\ storage \in Service!Storage /\ storage = Before
      /\ 1..n = 1..Service!ThreadTotal /\ Service!NoDuplicates(storage)
  BY <1>1, <1>2 DEF Service!DetectInv, Service!DetectTypeOK, Service!FoundInv
<1>4. clones \in Seq(Service!Storage) /\ DOMAIN clones = 1..n /\ \A i \in 1..n : clones[i] = threads[i].storage
  <2>1. \A i \in 1..n : threads[i].storage \in Service!Storage
    BY <1>2 DEF Service!Thread
  <2>2. clones \in [1..n -> Service!Storage]
    BY <1>3, <2>1
  <2> HIDE DEF clones
  <2>3. clones \in Seq(Service!Storage)
    BY <2>2, FunctionIsSeq
  <2> QED BY <2>2, <2>3, <1>3 DEF clones
<1> HIDE DEF clones
<1>5. /\ storage' \in Service!Storage /\ Service!NoDuplicates(storage')
      /\ \A m \in Name : Service!Range(storage'[m])
            = Service!Range(Before[m]) \cup UNION {Service!Range(threads[i].storage[m]) : i \in 1..n}
  <2>1. /\ Service!CombineAll(storage, clones) \in Service!Storage
        /\ \A m \in Name : Service!Range(Service!CombineAll(storage, clones)[m])
              = Service!Range(storage[m]) \cup UNION {Service!Range(clones[k][m]) : k \in DOMAIN clones}
        /\ Service!NoDuplicates(Service!CombineAll(storage, clones))
    BY <1>3, <1>4, CombineAllFacts
  <2>2. \A m : {Service!Range(clones[k][m]) : k \in DOMAIN clones}
                = {Service!Range(threads[i].storage[m]) : i \in 1..n}
    BY <1>4
  <2> QED BY <2>1, <2>2, <1>1, <1>3
<1>6. Service!DetectTypeOK'
  <2>1. (\E m \in Nat : threads \in [1..m -> Service!Thread])'
    BY <1>1, <1>2
  <2> QED BY <1>1, <1>5, <2>1 DEF Service!DetectInv, Service!DetectTypeOK
<1>7. Service!LeftInv'
  BY <1>1 DEF Service!DetectInv, Service!LeftInv
<1>8. Service!FoundInv'
  <2>1. /\ at # "idle" => DOMAIN threads = 1..Service!ThreadTotal
        /\ \A i \in DOMAIN threads : Sound(threads[i], i)
    BY FoundIsSound DEF Service!DetectInv
  <2> QED BY <1>1, <1>3, <1>5, <2>1, FoundIsSoundNext
<1> QED BY <1>6, <1>7, <1>8 DEF Service!DetectInv

LEMMA DetectStep ==
  ASSUME Service!DetectInv, Service!Detect, UNCHANGED exit
  PROVE  Service!DetectInv'
<1>1. CASE Service!StartThreads
  BY <1>1, StartStep
<1>2. CASE Service!JoinThreads
  BY <1>2, JoinStep
<1>3. ASSUME NEW i \in DOMAIN threads, Service!TestExit(i)
      PROVE  Service!DetectInv'
  BY <1>3, TestExitStep
<1>4. ASSUME NEW i \in DOMAIN threads, Service!DetectPort(i)
      PROVE  Service!DetectInv'
  BY <1>4, DetectPortStep
<1>5. ASSUME NEW i \in DOMAIN threads, Service!ThreadFail(i)
      PROVE  Service!DetectInv'
  BY <1>5, ThreadFailStep
<1>6. ASSUME NEW i \in DOMAIN threads, Service!ThreadEnd(i)
      PROVE  Service!DetectInv'
  BY <1>6, ThreadEndStep
<1> QED BY <1>1, <1>2, <1>3, <1>4, <1>5, <1>6 DEF Service!Detect

\* The invariant speaks of Exit only where it is not set, and Exit is never reset.
LEMMA DetectStays ==
  ASSUME Service!DetectInv, UNCHANGED detectVars, exit[Self] => exit'[Self]
  PROVE  Service!DetectInv'
<1>1. /\ at' = at /\ storage' = storage /\ threads' = threads
      /\ examined' = examined /\ failed' = failed
  BY DEF detectVars
<1>2. Service!DetectTypeOK'
  BY <1>1 DEF Service!DetectInv, Service!DetectTypeOK
<1>3. Service!LeftInv'
  BY <1>1 DEF Service!DetectInv, Service!LeftInv
<1>4. Service!FoundInv'
  <2>1. Service!FoundInv
    BY DEF Service!DetectInv
  <2> QED BY <1>1, <2>1, FoundIsSound, FoundIsSoundNext
<1> QED BY <1>2, <1>3, <1>4 DEF Service!DetectInv

LEMMA ThreadStart == ASSUME ThreadInit PROVE ThreadInv
<1>1. Init /\ Service!Init /\ entered = "detect"
  BY DEF ThreadInit
<1>2. TypeOK /\ SeenInv /\ Service!DetectInv
  BY <1>1, TypeInit, SeenInit, DetectInit
<1>3. EnteredInv
  BY <1>1, SelfAssumption DEF Init, EnteredInv
<1> QED BY <1>2, <1>3 DEF ThreadInv

LEMMA ThreadKeeps == ASSUME ThreadInv, [ThreadNext]_threadVars PROVE ThreadInv'
<1> USE DEF ThreadInv
<1>1. CASE DetectService
  <2>1. Service!Detect /\ UNCHANGED vars /\ entered' = entered /\ entered = "detect"
    BY <1>1 DEF DetectService
  <2>2. UNCHANGED exit /\ UNCHANGED pc /\ UNCHANGED index
    BY <2>1 DEF vars, hostVars
  <2>3. TypeOK' /\ SeenInv'
    BY <2>1, TypeStep, SeenStep
  <2>4. Service!DetectInv'
    BY <2>2, <2>1, DetectStep
  <2>5. EnteredInv'
    BY <2>1, <2>2 DEF EnteredInv
  <2> QED BY <2>3, <2>4, <2>5
<1>2. CASE DetectEnd
  <2>1. /\ at = "done" /\ UNCHANGED vars /\ UNCHANGED detectVars
        /\ entered' \in {"quit", "scripts"}
    BY <1>2 DEF DetectEnd
  <2>2. UNCHANGED exit /\ UNCHANGED pc /\ UNCHANGED index /\ UNCHANGED at
    BY <2>1 DEF vars, hostVars, detectVars
  <2>3. TypeOK' /\ SeenInv'
    BY <2>1, TypeStep, SeenStep
  <2>4. Service!DetectInv'
    BY <2>2, <2>1, DetectStays
  <2>5. EnteredInv'
    BY <2>1, <2>2 DEF EnteredInv
  <2> QED BY <2>3, <2>4, <2>5
<1>3. CASE ExecuteScripts
  <2>1. HostStep(Self) /\ UNCHANGED detectVars /\ entered' = entered /\ entered = "scripts"
    BY <1>3 DEF ExecuteScripts
  <2>2. Next
    BY <2>1, SelfAssumption DEF Next
  <2>3. TypeOK' /\ SeenInv'
    BY <2>2, TypeStep, SeenStep
  <2>4. UNCHANGED exit
    BY <2>1 DEF HostStep, SkipScript, RunScript, RunEnd, ForkAgain, ForkRunEnd, ForkEnd,
                GroupDone, GroupEnd
  <2>5. Service!DetectInv'
    BY <2>1, <2>4, DetectStays
  <2>6. EnteredInv'
    BY <2>1 DEF EnteredInv, detectVars
  <2> QED BY <2>3, <2>5, <2>6
<1>4. CASE Stop
  <2>1. SetExit(Self) /\ UNCHANGED detectVars /\ entered' = entered
    BY <1>4 DEF Stop
  <2>2. Next
    BY <2>1, SelfAssumption DEF Next
  <2>3. TypeOK' /\ SeenInv'
    BY <2>2, TypeStep, SeenStep
  <2>4. exit[Self] => exit'[Self]
    BY <2>1 DEF SetExit
  <2>5. Service!DetectInv'
    BY <2>1, <2>4, DetectStays
  <2>6. EnteredInv'
    BY <2>1 DEF EnteredInv, detectVars, SetExit, hostVars
  <2> QED BY <2>3, <2>5, <2>6
<1>5. CASE UNCHANGED threadVars
  <2>1. UNCHANGED vars /\ UNCHANGED detectVars /\ entered' = entered
    BY <1>5 DEF threadVars
  <2>2. UNCHANGED exit /\ UNCHANGED pc /\ UNCHANGED index /\ UNCHANGED at
    BY <2>1 DEF vars, hostVars, detectVars
  <2>3. TypeOK' /\ SeenInv'
    BY <2>1, TypeStep, SeenStep
  <2>4. Service!DetectInv'
    BY <2>1, <2>2, DetectStays
  <2>5. EnteredInv'
    BY <2>1, <2>2 DEF EnteredInv
  <2> QED BY <2>3, <2>4, <2>5
<1> QED BY <1>1, <1>2, <1>3, <1>4, <1>5 DEF ThreadNext, ThreadStep

\* In every state of a host thread: the progress counts exactly the scripts it has
\* gone past, each port is examined or left to one detection thread, each thread
\* has found what its ports give, and no script is looked at before the end of
\* detection (ExecuteOneHost, TCPDetectService, ExecuteScriptOnHost).
THEOREM ThreadInvariant == ThreadSpec => []ThreadInv
BY ThreadStart, ThreadKeeps, PTL DEF ThreadSpec

LEMMA InvExamined == ASSUME Service!DetectInv PROVE Service!PortsExamined
<1> DEFINE P == Service!Range(TCPPorts)
<1>1. examined \in [P -> Nat] /\ at \in {"idle", "join", "done"}
  BY DEF Service!DetectInv, Service!DetectTypeOK
<1>2. at = "idle" => \A p \in P : examined[p] = 0
  BY DEF Service!DetectInv, Service!LeftInv
<1>3. at # "idle" => \A p \in P :
        examined[p] = IF \E i \in DOMAIN threads : p \in Service!Range(threads[i].ports) THEN 0 ELSE 1
  BY DEF Service!DetectInv, Service!LeftInv
<1>4. \A p \in P : examined[p] <= 1
  <2> HIDE DEF P
  <2> QED BY <1>1, <1>2, <1>3
<1>5. ASSUME at = "done", ~exit[Self], NEW p \in P
      PROVE  examined[p] = 1 <=> p \notin Service!Lost
  <2>1. ASSUME NEW i \in DOMAIN threads, p \in Service!Range(threads[i].ports)
        PROVE  p \in Service!Lost
    <3>1. threads[i].at = "end"
      BY <1>5 DEF Service!DetectInv, Service!LeftInv
    <3>2. threads[i].ports # <<>>
      BY <2>1 DEF Service!Range
    <3>3. Head(threads[i].ports) \in failed
      BY <1>5, <3>1, <3>2 DEF Service!DetectInv, Service!LeftInv
    <3> QED BY <2>1, <3>2, <3>3 DEF Service!Lost
  <2>2. ASSUME p \in Service!Lost
        PROVE  \E i \in DOMAIN threads : p \in Service!Range(threads[i].ports)
    BY <2>2 DEF Service!Lost
  <2>3. examined[p] = IF \E i \in DOMAIN threads : p \in Service!Range(threads[i].ports) THEN 0 ELSE 1
    BY <1>3, <1>5
  <2> QED BY <2>1, <2>2, <2>3
<1> QED BY <1>4, <1>5 DEF Service!PortsExamined

\* For every number of hosts' scripts, groups, open ports and detection threads: a
\* host thread that was never stopped has examined every open port once before its
\* first script, those of a failed detection thread excepted, and has seen every
\* script of every group once when it ends (ExecuteOneHost).
THEOREM AllSeen == ThreadSpec => []NothingSkipped
<1>1. ThreadInv => NothingSkipped
  <2> SUFFICES ASSUME ThreadInv PROVE NothingSkipped
    OBVIOUS
  <2>1. Service!PortsExamined
    BY InvExamined DEF ThreadInv
  <2>2. pc[Self] # "next" \/ index[Self] > 0 => at = "done"
    BY DEF ThreadInv, EnteredInv
  <2>3. EveryScriptSeen
    BY SeenAll DEF ThreadInv
  <2> QED BY <2>1, <2>2, <2>3 DEF NothingSkipped
<1> QED BY <1>1, ThreadInvariant, PTL

\* When every port was examined, each clone is what its thread's ports leave in order.
LEMMA ClonesAtEnd ==
  ASSUME Service!DetectInv, at = "done", \A p \in Service!Range(TCPPorts) : examined[p] = 1,
         NEW i \in DOMAIN threads
  PROVE  threads[i].storage = Service!InOrder(Service!Range(Service!Deal(Service!ThreadTotal)[i]))
<1> DEFINE P == Service!Range(TCPPorts)
<1>1. threads[i].ports \in Seq(P)
  BY ThreadFacts
<1>2. \A p \in P : p \notin Service!Range(threads[i].ports)
  BY DEF Service!DetectInv, Service!LeftInv
<1>3. Service!Range(threads[i].ports) \subseteq P
  BY <1>1 DEF Service!Range
<1>4. Service!Range(threads[i].ports) = {}
  BY <1>2, <1>3
<1>5. DOMAIN threads[i].ports = {}
  BY <1>4 DEF Service!Range
<1>6. threads[i].ports = <<>>
  BY <1>1, <1>5, NoDomain
<1>7. Sound(threads[i], i)
  BY FoundIsSound DEF Service!DetectInv
<1> QED BY <1>4, <1>6, <1>7 DEF Sound

\* Whatever the script finds on which port, whatever the threads and their
\* interleaving: when every port was examined, the combined storage holds every item
\* that one thread would have left that examined the ports in order, and none that
\* nobody stored; under a name that no port replaces while something else is stored
\* under it, exactly the items of the one thread (TCPDetectService, Clone, Combine).
THEOREM DetectedAlike == ThreadSpec => []DetectedLikeOneThread
<1>1. ThreadInv => DetectedLikeOneThread
  <2> DEFINE P == Service!Range(TCPPorts)
             n == Service!ThreadTotal
             E == [i \in 1..n |-> Service!Range(Service!Deal(n)[i])]
  <2> SUFFICES ASSUME ThreadInv, at = "done", \A p \in P : examined[p] = 1
               PROVE  /\ Service!NoDuplicates(storage)
                      /\ \A m \in Name :
                            /\ Service!Range(Service!OneAfterTheOther[m]) \subseteq Service!Range(storage[m])
                            /\ Service!Range(storage[m]) \subseteq Service!EverStored(m)
                            /\ ~Service!Contested(m) =>
                                    Service!Range(storage[m]) = Service!Range(Service!OneAfterTheOther[m])
    BY DEF DetectedLikeOneThread, Service!DetectedLikeOneThread
  <2>1. Service!DetectInv /\ Service!NoDuplicates(storage)
    BY DEF ThreadInv, Service!DetectInv, Service!FoundInv
  <2>2. DOMAIN threads = 1..n
    BY <2>1, FoundIsSound DEF Service!DetectInv
  <2>3. n \in Nat /\ \A p \in P : \E i \in 1..n : p \in E[i]
    BY ThreadTotalFacts, DealFacts
  <2>4. E \in [1..n -> SUBSET P]
    <3>1. Service!Deal(n) \in [1..n -> Seq(P)]
      BY DealFacts
    <3>2. ASSUME NEW i \in 1..n PROVE Service!Range(Service!Deal(n)[i]) \in SUBSET P
      <4>1. Service!Deal(n)[i] \in Seq(P)
        BY <3>1
      <4> HIDE DEF P
      <4> QED BY <4>1 DEF Service!Range
    <3> HIDE DEF P, n
    <3> QED BY <3>2
  <2>5. \A i \in 1..n : threads[i].storage = Service!InOrder(E[i])
    BY <2>1, <2>2, ClonesAtEnd
  <2> HIDE DEF E, n, P
  <2> SUFFICES ASSUME NEW m \in Name
               PROVE  /\ Service!Range(Service!OneAfterTheOther[m]) \subseteq Service!Range(storage[m])
                      /\ Service!Range(storage[m]) \subseteq Service!EverStored(m)
                      /\ ~Service!Contested(m) =>
                            Service!Range(storage[m]) = Service!Range(Service!OneAfterTheOther[m])
    BY <2>1
  <2>6. Service!Range(storage[m])
            = Service!Range(Before[m]) \cup UNION {Service!Range(Service!InOrder(E[i])[m]) : i \in 1..n}
    <3>1. Service!Range(storage[m])
            = Service!Range(Before[m]) \cup UNION {Service!Range(threads[i].storage[m]) : i \in 1..n}
      BY <2>1, <2>2, FoundIsSound DEF Service!DetectInv
    <3>2. {Service!Range(threads[i].storage[m]) : i \in 1..n}
            = {Service!Range(Service!InOrder(E[i])[m]) : i \in 1..n}
      BY <2>5
    <3> QED BY <3>1, <3>2
  <2>7. Service!Range(Service!InOrder(P)[m]) \subseteq Service!Range(storage[m])
    <3>1. Service!Range(Service!InOrder(P)[m]) \subseteq
            Service!Range(Before[m]) \cup UNION {Service!Range(Service!InOrder(E[i])[m]) : i \in 1..n}
      BY <2>3, <2>4, NothingLost DEF P
    <3> QED BY <3>1, <2>6
  <2>8. Service!Range(storage[m]) \subseteq Service!EverStored(m)
    <3>1. \A i \in 1..n : Service!Range(Service!InOrder(E[i])[m]) \subseteq Service!EverStored(m)
      BY NothingInvented
    <3>2. Service!Range(Before[m]) \subseteq Service!EverStored(m)
      BY DEF Service!EverStored
    <3> QED BY <3>1, <3>2, <2>6
  <2>9. ~Service!Contested(m) => Service!EverStored(m) \subseteq Service!Range(Service!InOrder(P)[m])
    BY AllKept DEF P
  <2>10. Service!OneAfterTheOther = Service!InOrder(P)
    BY DEF Service!OneAfterTheOther, P
  <2> QED BY <2>7, <2>8, <2>9, <2>10
<1> QED BY <1>1, ThreadInvariant, PTL

=============================================================================
