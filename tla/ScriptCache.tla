------------------------------ MODULE ScriptCache ------------------------------
(***************************************************************************)
(* Loading scripts (Executor::Execute, LoadScript and RequireScript) with  *)
(* the cache all executors share (ScriptCacheImplement).                   *)
(*                                                                         *)
(* Every thread has an executor of its own.  An instruction refers to      *)
(* others, and to constants, by key, and the executor finds the script a   *)
(* key belongs to by range, so the ranges of the scripts an executor holds *)
(* must not meet: a script is relocated once, when it is loaded.  Scripts  *)
(* of the cache lie above SharedBase and are used by all executors; the    *)
(* others, and the copy of a script that lost the race to be cached, are   *)
(* private and lie below.                                                  *)
(***************************************************************************)
EXTENDS Integers, Sequences, FiniteSets, Functions

CONSTANTS
    Executor,      \* the executors, one per thread
    Name,          \* script files
    Known,         \* those the cache takes (knownCache)
    Nasl,          \* "nasl.sc", required before every main script
    Main,          \* the files Execute is called with
    Requires,      \* the require calls at the top of each file, in order
    InsKey,        \* mInstructionKey of a freshly loaded file: one past its keys
    ConstKey,      \* mConstKey of a freshly loaded file
    SharedBase,    \* SHARED_SCRIPT_BASE; 0x80000000 in the code
    MaxKey,        \* no file has more keys
    MaxRuns        \* bound on the executions of one executor

\* The distance from one private base to the next is at most a Step.
Step == MaxKey + 1001

\* The keys are 32 bits wide and the private ones stay below SharedBase: a
\* private key cannot reach it unless an execution loads millions of lines.
ASSUME NameAssumption ==
    /\ IsFiniteSet(Name) /\ Known \subseteq Name /\ Main \subseteq Name /\ Nasl \in Name
    /\ Requires \in [Name -> Seq(Name)]
ASSUME KeyAssumption ==
    /\ MaxKey \in Nat /\ SharedBase \in Nat /\ MaxRuns \in Nat
    /\ InsKey \in [Name -> 1..MaxKey] /\ ConstKey \in [Name -> 1..MaxKey]
    /\ \A n \in Name : ConstKey[n] <= InsKey[n]
    /\ Cardinality(Name) * Step <= SharedBase

VARIABLES
    mCache,            \* ScriptCacheImplement::mCache
    mNextInsKey,       \* ScriptCacheImplement::mNextInsKey
    pc,                \* what each executor does
    target,            \* the file LoadScript is called with
    stack,             \* for each entry point under execution, the requires left
    mScripts,          \* Executor::mScripts
    mSharedScripts,    \* Executor::mSharedScripts, searched only as a set
    runs               \* executions begun

cacheVars == <<mCache, mNextInsKey>>
vars == <<cacheVars, pc, target, stack, mScripts, mSharedScripts, runs>>

\* A loaded script: its name and where its instructions and constants begin.
Script == [name : Name, ins : Nat, const : Nat]
NextIns(s)   == s.ins + InsKey[s.name]
NextConst(s) == s.const + ConstKey[s.name]

\* ALGINTO(a, 1000).
AlignInto(a) == ((a \div 1000) + 1) * 1000

Init ==
    /\ mCache = {} /\ mNextInsKey = SharedBase
    /\ pc = [e \in Executor |-> "idle"]
    /\ target = [e \in Executor |-> Nasl]
    /\ stack = [e \in Executor |-> <<>>]
    /\ mScripts = [e \in Executor |-> <<>>]
    /\ mSharedScripts = [e \in Executor |-> {}]
    /\ runs = [e \in Executor |-> 0]

\* The names an executor holds, as RequireScript looks for them.
Loaded(e) == {s.name : s \in Range(mScripts[e]) \cup mSharedScripts[e]}

\* The entry point of the target begins; for the main script nasl.sc is
\* required first (OnScriptWillExecute).
Entered(e) ==
    /\ stack' = [stack EXCEPT ![e] =
          Append(@, IF @ = <<>> THEN <<Nasl>> \o Requires[target[e]] ELSE Requires[target[e]])]
    /\ pc' = [pc EXCEPT ![e] = "run"]

\* Faulty variant: the name is not looked up again under the lock.
CacheableUnchecked(e) == target[e] \in Known

\* OnNewScript would take the target into the cache.
Cacheable(e) == target[e] \in Known /\ target[e] \notin {s.name : s \in mCache}

\* Faulty variant: a private script is never relocated.
PrivateCopyInPlace(e) == [name |-> target[e], ins |-> 0, const |-> 0]

\* The private script the target becomes: the first one is not relocated.
PrivateCopy(e) ==
    IF mScripts[e] = <<>> THEN [name |-> target[e], ins |-> 0, const |-> 0]
    ELSE LET last == mScripts[e][Len(mScripts[e])]
         IN  [name |-> target[e], ins |-> AlignInto(NextIns(last) + 1),
              const |-> AlignInto(NextConst(last) + 1)]

-----------------------------------------------------------------------------
(* Faulty variants, substituted for definitions below.                     *)

\* A require of a file already held waits, as if it had to be finished first.
RequireScriptWaits(e) ==
    /\ pc[e] = "run" /\ stack[e] # <<>> /\ stack[e][Len(stack[e])] # <<>>
    /\ LET top  == Len(stack[e])
           name == Head(stack[e][top])
       IN  /\ name \notin Loaded(e)
           /\ stack' = [stack EXCEPT ![e][top] = Tail(@)]
           /\ target' = [target EXCEPT ![e] = name]
    /\ pc' = [pc EXCEPT ![e] = "lookup"]
    /\ UNCHANGED <<cacheVars, mScripts, mSharedScripts, runs>>

-----------------------------------------------------------------------------

\* Execute(name): Reset drops both lists, then the main script is loaded.
Execute(e) ==
    /\ pc[e] = "idle" /\ runs[e] < MaxRuns
    /\ \E n \in Main : target' = [target EXCEPT ![e] = n]
    /\ mScripts' = [mScripts EXCEPT ![e] = <<>>]
    /\ mSharedScripts' = [mSharedScripts EXCEPT ![e] = {}]
    /\ pc' = [pc EXCEPT ![e] = "lookup"]
    /\ runs' = [runs EXCEPT ![e] = @ + 1]
    /\ UNCHANGED <<cacheVars, stack>>

\* GetCachedScript, under the cache's lock.
CacheHit(e) ==
    /\ pc[e] = "lookup"
    /\ \E s \in mCache :
          /\ s.name = target[e]
          /\ mSharedScripts' = [mSharedScripts EXCEPT ![e] = @ \cup {s}]
    /\ Entered(e)
    /\ UNCHANGED <<cacheVars, target, mScripts, runs>>

\* A miss: the file is read and parsed with no lock held.
CacheMiss(e) ==
    /\ pc[e] = "lookup"
    /\ \A s \in mCache : s.name # target[e]
    /\ pc' = [pc EXCEPT ![e] = "parse"]
    /\ UNCHANGED <<cacheVars, target, stack, mScripts, mSharedScripts, runs>>

\* OnNewScript takes the script: it is relocated before others can see it.
Publish(e) ==
    /\ pc[e] = "parse" /\ Cacheable(e)
    /\ LET s == [name |-> target[e], ins |-> mNextInsKey, const |-> mNextInsKey]
       IN  /\ mCache' = mCache \cup {s}
           /\ mNextInsKey' = AlignInto(NextIns(s) + 1)
           /\ mSharedScripts' = [mSharedScripts EXCEPT ![e] = @ \cup {s}]
    /\ Entered(e)
    /\ UNCHANGED <<target, mScripts, runs>>

\* OnNewScript declines, also when another executor was faster: the script is
\* relocated behind the last private one.
KeepPrivate(e) ==
    /\ pc[e] = "parse" /\ ~Cacheable(e)
    /\ mScripts' = [mScripts EXCEPT ![e] = Append(@, PrivateCopy(e))]
    /\ Entered(e)
    /\ UNCHANGED <<cacheVars, target, mSharedScripts, runs>>

\* RequireScript, for the next require of the innermost entry point: a name
\* already held is not loaded again, finished or not.
RequireScript(e) ==
    /\ pc[e] = "run" /\ stack[e] # <<>> /\ stack[e][Len(stack[e])] # <<>>
    /\ LET top  == Len(stack[e])
           name == Head(stack[e][top])
       IN  /\ stack' = [stack EXCEPT ![e][top] = Tail(@)]
           /\ IF name \in Loaded(e) THEN UNCHANGED <<pc, target>>
              ELSE /\ target' = [target EXCEPT ![e] = name]
                   /\ pc' = [pc EXCEPT ![e] = "lookup"]
    /\ UNCHANGED <<cacheVars, mScripts, mSharedScripts, runs>>

\* An entry point ends; with the last one the execution does.
EntryEnd(e) ==
    /\ pc[e] = "run" /\ stack[e] # <<>> /\ stack[e][Len(stack[e])] = <<>>
    /\ stack' = [stack EXCEPT ![e] = SubSeq(@, 1, Len(@) - 1)]
    /\ pc' = [pc EXCEPT ![e] = IF Len(stack[e]) = 1 THEN "idle" ELSE "run"]
    /\ UNCHANGED <<cacheVars, target, mScripts, mSharedScripts, runs>>

\* The loader finds no script, or a runtime error or the time limit unwinds
\* every entry point.
Fail(e) ==
    /\ pc[e] \in {"parse", "run"}
    /\ stack' = [stack EXCEPT ![e] = <<>>]
    /\ pc' = [pc EXCEPT ![e] = "idle"]
    /\ UNCHANGED <<cacheVars, target, mScripts, mSharedScripts, runs>>

Advance(e) ==
    \/ CacheHit(e) \/ CacheMiss(e) \/ Publish(e) \/ KeepPrivate(e)
    \/ RequireScript(e) \/ EntryEnd(e)

Next == \E e \in Executor : Execute(e) \/ Advance(e) \/ Fail(e)

Spec == Init /\ [][Next]_vars

\* An execution under way goes on; nothing has to fail or to begin.
FairSpec == Spec /\ \A e \in Executor : WF_vars(Advance(e))

-----------------------------------------------------------------------------
(* Properties.                                                             *)

\* Every variable has its type (ScriptCacheImplement and class Executor).
TypeOK ==
    /\ mCache \in SUBSET Script /\ mNextInsKey \in Nat
    /\ pc \in [Executor -> {"idle", "lookup", "parse", "run"}]
    /\ target \in [Executor -> Name]
    /\ stack \in [Executor -> Seq(Seq(Name))]
    /\ mScripts \in [Executor -> Seq(Script)]
    /\ mSharedScripts \in [Executor -> SUBSET Script]
    /\ runs \in [Executor -> Nat]

\* The scripts an executor holds, and the key ranges IsContain... tests.
Visible(e) == Range(mScripts[e]) \cup mSharedScripts[e]
HasIns(s, k)   == s.ins <= k /\ k < NextIns(s)
HasConst(s, k) == s.const <= k /\ k < NextConst(s)

\* Any two scripts of an executor, cached or private, and any two scripts of
\* the cache, have disjoint instruction keys and disjoint constant keys
\* (although constants are placed by the instruction counter).
Disjoint(s, t) ==
    /\ NextIns(s) <= t.ins \/ NextIns(t) <= s.ins
    /\ NextConst(s) <= t.const \/ NextConst(t) <= s.const
RangesDisjoint ==
    /\ \A e \in Executor : \A s, t \in Visible(e) : s # t => Disjoint(s, t)
    /\ \A s, t \in mCache : s # t => Disjoint(s, t)

\* The script GetInstruction finds for a key: a cached one if the key is that
\* high, else a private one.
Finds(e, k, s) ==
    \/ k >= SharedBase /\ s \in mSharedScripts[e] /\ HasIns(s, k)
    \/ /\ k >= SharedBase => \A t \in mSharedScripts[e] : ~HasIns(t, k)
       /\ s \in Range(mScripts[e]) /\ HasIns(s, k)

\* The first and the last key of every script an executor holds are found, and
\* found in that script and in no other.
KeysResolve ==
    \A e \in Executor : \A s \in Visible(e) : \A k \in {s.ins, NextIns(s) - 1} :
        Finds(e, k, s) /\ \A t \in Visible(e) : Finds(e, k, t) => t = s

\* One execution loads no file twice, although files require each other in a
\* cycle (nasl.sc and win_warp.inc.sc do).
LoadedOnce ==
    \A e \in Executor :
        /\ \A i, j \in DOMAIN mScripts[e] :
              mScripts[e][i].name = mScripts[e][j].name => i = j
        /\ \A s \in mSharedScripts[e] : \A t \in Visible(e) : s.name = t.name => s = t

\* A file the cache takes is private only to an executor that lost the race:
\* another one has published it meanwhile.
PrivateMeansLost ==
    \A e \in Executor : \A s \in Range(mScripts[e]) :
        s.name \in Known => s.name \in {t.name : t \in mCache}

\* What was published stays as it is and where it is: executors keep using it.
CacheStable == [][mCache \subseteq mCache' /\
                  \A s, t \in mCache' : s.name = t.name => s = t]_vars

\* Every execution ends, whatever the files require of each other.
RequireEnds == \A e \in Executor : []<>(pc[e] = "idle")

-----------------------------------------------------------------------------
(* The inductive invariant behind the safety properties.                   *)

\* The cache grows upwards, in both kinds of key.
CacheInv ==
    /\ mNextInsKey >= SharedBase
    /\ \A s \in mCache :
          /\ s.name \in Known
          /\ s.const = s.ins /\ SharedBase <= s.ins /\ NextIns(s) <= mNextInsKey
    /\ \A s, t \in mCache : s # t => s.name # t.name /\ Disjoint(s, t)

\* The private scripts of an executor grow upwards by at most a Step each.
PrivateInv ==
    \A e \in Executor :
        /\ \A i \in DOMAIN mScripts[e] :
              /\ mScripts[e][i].ins <= (i - 1) * Step
              /\ mScripts[e][i].const <= (i - 1) * Step
        /\ \A i, j \in DOMAIN mScripts[e] : i < j =>
              /\ NextIns(mScripts[e][i]) <= mScripts[e][j].ins
              /\ NextConst(mScripts[e][i]) <= mScripts[e][j].const

\* The lists hold each name once, and the target of a load is in neither.
ListInv ==
    \A e \in Executor :
        /\ mSharedScripts[e] \subseteq mCache
        /\ \A i, j \in DOMAIN mScripts[e] : mScripts[e][i].name = mScripts[e][j].name => i = j
        /\ \A s \in mSharedScripts[e], t \in Range(mScripts[e]) : s.name # t.name
        /\ pc[e] \in {"lookup", "parse"} => target[e] \notin Loaded(e)

\* The conjunction proved inductive in ScriptCache_proofs (vm.cc 135-229).
IndInv == TypeOK /\ CacheInv /\ PrivateInv /\ ListInv /\ PrivateMeansLost

=============================================================================
