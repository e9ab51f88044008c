----------------------------- MODULE HostScripts -----------------------------
(***************************************************************************)
(* The script loop of the host threads (HostsTask::ExecuteScriptOnHost).   *)
(*                                                                         *)
(* Each host thread goes through the script groups in order.  A script     *)
(* whose preconditions fail is skipped; otherwise it is executed once and, *)
(* when it met a knowledge-base item with several values, executed again   *)
(* for every further combination (how many is decided by ForkedScript).    *)
(* TCB::Exit is written by other threads at any moment and read only at    *)
(* three places of the loop.                                               *)
(***************************************************************************)
EXTENDS Integers, FiniteSets, Functions

CONSTANTS
    Host,        \* the hosts whose threads run
    NumGroups,   \* script categories; 11 in the code
    GroupSize,   \* number of scripts in each group
    MaxForks     \* bound on the forked runs of one script

ASSUME GroupsAssumption ==
    /\ NumGroups \in Nat
    /\ GroupSize \in [1..NumGroups -> Nat]
    /\ MaxForks \in Nat

VARIABLES
    pc,                     \* where each host thread stands
    group, index,           \* the script at hand: group i, position in it
    left,                   \* forked runs still to do for this script
    exit,                   \* TCB::Exit
    scriptProgress,         \* TCB::ScriptProgress
    executedScriptCount,    \* TCB::ExecutedScriptCount
    mFinishedScriptCount,   \* the task's counter, shared by the hosts
    begun,                  \* history: scripts whose execution was begun
    late                    \* history: executions begun with Exit already set

hostVars == <<pc, group, index, left>>
countVars == <<scriptProgress, executedScriptCount, mFinishedScriptCount>>
vars == <<hostVars, exit, countVars, begun, late>>

Pc == {"next", "run", "fork", "forkRun", "groupEnd", "end"}

Init ==
    /\ pc = [h \in Host |-> "next"]
    /\ group = [h \in Host |-> 1] /\ index = [h \in Host |-> 0]
    /\ left = [h \in Host |-> 0]
    /\ exit = [h \in Host |-> FALSE]
    /\ scriptProgress = [h \in Host |-> 0]
    /\ executedScriptCount = [h \in Host |-> 0]
    /\ mFinishedScriptCount = 0
    /\ begun = [h \in Host |-> 0] /\ late = [h \in Host |-> 0]

\* The group has a script left for host h.
HasNext(h) == group[h] <= NumGroups /\ index[h] < GroupSize[group[h]]

\* Both counters move before the preconditions are looked at.
CountScript(h) ==
    /\ index' = [index EXCEPT ![h] = @ + 1]
    /\ scriptProgress' = [scriptProgress EXCEPT ![h] = @ + 1]
    /\ mFinishedScriptCount' = mFinishedScriptCount + 1

\* An execution of the engine begins; Exit is not looked at.
Begin(h) == late' = [late EXCEPT ![h] = IF exit[h] THEN @ + 1 ELSE @]

-----------------------------------------------------------------------------
(* Faulty variants, substituted for actions below to see a property fail.  *)

\* Exit is forgotten after the first execution.
RunEndNoExit(h) ==
    /\ pc[h] = "run"
    /\ \/ /\ \E n \in 1..MaxForks : left' = [left EXCEPT ![h] = n]
          /\ pc' = [pc EXCEPT ![h] = "fork"]
          /\ UNCHANGED executedScriptCount
       \/ /\ executedScriptCount' = [executedScriptCount EXCEPT ![h] = @ + 1]
          /\ pc' = [pc EXCEPT ![h] = "next"]
          /\ UNCHANGED left
    /\ UNCHANGED <<group, index, exit, scriptProgress, mFinishedScriptCount, begun, late>>

\* The forked runs go on without consuming a combination.
ForkAgainForever(h) ==
    /\ pc[h] = "fork" /\ left[h] > 0 /\ ~exit[h]
    /\ pc' = [pc EXCEPT ![h] = "forkRun"]
    /\ Begin(h)
    /\ UNCHANGED <<group, index, left, exit, countVars, begun>>

\* The position is not rewound for the next group.
GroupEndKeepsIndex(h) ==
    /\ pc[h] = "groupEnd"
    /\ IF exit[h] \/ group[h] = NumGroups
       THEN pc' = [pc EXCEPT ![h] = "end"] /\ UNCHANGED <<group, index>>
       ELSE /\ pc' = [pc EXCEPT ![h] = "next"]
            /\ group' = [group EXCEPT ![h] = @ + 1]
            /\ UNCHANGED index
    /\ UNCHANGED <<left, exit, countVars, begun, late>>

-----------------------------------------------------------------------------

\* CheckScript fails: the loop continues, without a look at Exit.
SkipScript(h) ==
    /\ pc[h] = "next" /\ HasNext(h)
    /\ CountScript(h)
    /\ UNCHANGED <<pc, group, left, exit, executedScriptCount, begun, late>>

\* CheckScript passes and the engine executes the script.
RunScript(h) ==
    /\ pc[h] = "next" /\ HasNext(h)
    /\ CountScript(h)
    /\ pc' = [pc EXCEPT ![h] = "run"]
    /\ begun' = [begun EXCEPT ![h] = @ + 1]
    /\ Begin(h)
    /\ UNCHANGED <<group, left, exit, executedScriptCount>>

\* The execution ended.  Exit leaves the group; otherwise the script forks or
\* is counted as executed.
RunEnd(h) ==
    /\ pc[h] = "run"
    /\ \/ /\ exit[h]
          /\ pc' = [pc EXCEPT ![h] = "groupEnd"]
          /\ UNCHANGED <<left, executedScriptCount>>
       \/ /\ ~exit[h]
          /\ \E n \in 1..MaxForks : left' = [left EXCEPT ![h] = n]
          /\ pc' = [pc EXCEPT ![h] = "fork"]
          /\ UNCHANGED executedScriptCount
       \/ /\ ~exit[h]
          /\ executedScriptCount' = [executedScriptCount EXCEPT ![h] = @ + 1]
          /\ pc' = [pc EXCEPT ![h] = "next"]
          /\ UNCHANGED left
    /\ UNCHANGED <<group, index, exit, scriptProgress, mFinishedScriptCount, begun, late>>

\* while (PrepareForNextScriptExecute() && !Exit): one more combination.
ForkAgain(h) ==
    /\ pc[h] = "fork" /\ left[h] > 0 /\ ~exit[h]
    /\ left' = [left EXCEPT ![h] = @ - 1]
    /\ pc' = [pc EXCEPT ![h] = "forkRun"]
    /\ Begin(h)
    /\ UNCHANGED <<group, index, exit, countVars, begun>>

ForkRunEnd(h) ==
    /\ pc[h] = "forkRun"
    /\ pc' = [pc EXCEPT ![h] = "fork"]
    /\ UNCHANGED <<group, index, left, exit, countVars, begun, late>>

\* The loop is left, by exhaustion or by Exit; the script counts as executed
\* and the group goes on either way.
ForkEnd(h) ==
    /\ pc[h] = "fork" /\ (left[h] = 0 \/ exit[h])
    /\ left' = [left EXCEPT ![h] = 0]
    /\ executedScriptCount' = [executedScriptCount EXCEPT ![h] = @ + 1]
    /\ pc' = [pc EXCEPT ![h] = "next"]
    /\ UNCHANGED <<group, index, exit, scriptProgress, mFinishedScriptCount, begun, late>>

GroupDone(h) ==
    /\ pc[h] = "next" /\ ~HasNext(h)
    /\ pc' = [pc EXCEPT ![h] = "groupEnd"]
    /\ UNCHANGED <<group, index, left, exit, countVars, begun, late>>

\* The outer loop looks at Exit after each group.
GroupEnd(h) ==
    /\ pc[h] = "groupEnd"
    /\ IF exit[h] \/ group[h] >= NumGroups
       THEN pc' = [pc EXCEPT ![h] = "end"] /\ UNCHANGED <<group, index>>
       ELSE /\ pc' = [pc EXCEPT ![h] = "next"]
            /\ group' = [group EXCEPT ![h] = @ + 1]
            /\ index' = [index EXCEPT ![h] = 0]
    /\ UNCHANGED <<left, exit, countVars, begun, late>>

HostStep(h) ==
    \/ SkipScript(h) \/ RunScript(h) \/ RunEnd(h)
    \/ ForkAgain(h) \/ ForkRunEnd(h) \/ ForkEnd(h)
    \/ GroupDone(h) \/ GroupEnd(h)

\* Stop or StopHostTask of another thread.
SetExit(h) ==
    /\ ~exit[h]
    /\ exit' = [exit EXCEPT ![h] = TRUE]
    /\ UNCHANGED <<hostVars, countVars, begun, late>>

Next == \E h \in Host : HostStep(h) \/ SetExit(h)

Spec == Init /\ [][Next]_vars

-----------------------------------------------------------------------------
(* Properties.                                                             *)

\* Every variable has its type (struct TCB and the loop's locals).
TypeOK ==
    /\ pc \in [Host -> Pc]
    /\ group \in [Host -> Nat \ {0}] /\ index \in [Host -> Nat] /\ left \in [Host -> Nat]
    /\ exit \in [Host -> BOOLEAN]
    /\ scriptProgress \in [Host -> Nat] /\ executedScriptCount \in [Host -> Nat]
    /\ mFinishedScriptCount \in Nat
    /\ begun \in [Host -> Nat] /\ late \in [Host -> Nat]

\* A stopped host begins at most one more execution.  It may begin one even
\* though Exit was set long before: neither the skip path, nor the end of the
\* forked runs, nor the start of a script looks at Exit.
AtMostOneLateRun == \A h \in Host : late[h] <= 1

\* ExecutedScriptCount, which the report shows, counts every script begun, a
\* forked one once, except the one at hand and the one Exit cut off.
ExecutedCountExact ==
    \A h \in Host :
        begun[h] - executedScriptCount[h] \in
            (CASE pc[h] \in {"run", "fork", "forkRun"} -> {1}
               [] pc[h] \in {"groupEnd", "end"} /\ exit[h] -> {0, 1}
               [] OTHER -> {0})

\* The number of scripts of the first n groups.
ScriptsUpTo[n \in 0..NumGroups] ==
    IF n = 0 THEN 0 ELSE ScriptsUpTo[n - 1] + GroupSize[n]

\* A host that was never stopped has seen every script of every group once.
EveryScriptSeen ==
    \A h \in Host : pc[h] = "end" /\ ~exit[h] => scriptProgress[h] = ScriptsUpTo[NumGroups]

-----------------------------------------------------------------------------
(* The inductive invariants behind them.                                   *)

LateInv ==
    \A h \in Host :
        \/ late[h] = 0
        \/ late[h] = 1 /\ exit[h] /\ pc[h] \in {"run", "groupEnd", "end"}

\* The pending script: begun and not yet counted.
Pending(h) == begun[h] - executedScriptCount[h]

PendingInv ==
    \A h \in Host :
        /\ pc[h] \in {"run", "fork", "forkRun"} => Pending(h) = 1
        /\ pc[h] = "next" => Pending(h) = 0
        /\ pc[h] \in {"groupEnd", "end"} =>
              Pending(h) = 0 \/ (exit[h] /\ Pending(h) = 1)

\* The progress is the groups left behind and the position in the one at hand; a
\* host leaves a group early only when it was stopped.
SeenInv ==
    \A h \in Host :
        /\ group[h] = 1 \/ group[h] <= NumGroups
        /\ scriptProgress[h] = ScriptsUpTo[group[h] - 1] + index[h]
        /\ index[h] <= (IF group[h] <= NumGroups THEN GroupSize[group[h]] ELSE 0)
        /\ pc[h] \in {"groupEnd", "end"} /\ ~exit[h] => ~HasNext(h)
        /\ pc[h] = "end" /\ ~exit[h] => group[h] >= NumGroups

=============================================================================
