----------------------------- MODULE ForkedScript -----------------------------
(***************************************************************************)
(* The executions of one script on one host (OVAContext and ForkedValue,   *)
(* with the fork loop of HostsTask::ExecuteScriptOnHost).                  *)
(*                                                                         *)
(* OpenVAS forks the script process when get_kb_item meets an item with    *)
(* several values.  Here the first execution records such items, reading   *)
(* their first value; afterwards the script is executed again for every    *)
(* further combination of positions, reading from a snapshot.  The script  *)
(* itself is any sequence of get_kb_item, set_kb_item and replace_kb_item. *)
(*                                                                         *)
(* Stop or StopHostTask of another thread may set TCB::Exit at any moment, *)
(* or have set it before; it is looked at after each execution.            *)
(***************************************************************************)
EXTENDS ScriptStorage, FiniteSets

CONSTANTS
    Initial,       \* the knowledge bases earlier scripts may have left
    MaxOps         \* bound on the calls of one execution

ASSUME ForkAssumption ==
    /\ MaxOps \in Nat
    /\ \A s \in Initial : s \in Storage /\ NoDuplicates(s)

VARIABLES
    exit,                        \* TCB::Exit, written by others
    phase,                       \* "run", "between" two executions, "done"
    storage, snapshot,           \* OVAContext::Storage and ForkedValue::Snapshot
    isForkedTask,                \* OVAContext::IsForkedTask
    names, values, current,      \* the three vectors of ForkedValue
    ops,                         \* calls made by this execution
    visited,                     \* history: the positions executed so far
    seen,                        \* history: what this execution read, per name
    got,                         \* history: what all executions read, per name
    always,                      \* history: names every ended execution read
    replaced                     \* history: replace_kb_item was called

fork == <<names, values, current>>
vars == <<exit, phase, storage, snapshot, isForkedTask, fork, ops, visited, seen, got,
          always, replaced>>

Init ==
    /\ exit \in BOOLEAN
    /\ phase = "run"
    /\ storage \in Initial
    /\ snapshot = EmptyStorage
    /\ isForkedTask = FALSE
    /\ names = <<>> /\ values = <<>> /\ current = <<>>
    /\ ops = 0
    /\ visited = {}
    /\ seen = [n \in Name |-> {}] /\ got = [n \in Name |-> {}]
    /\ always = Name
    /\ replaced = FALSE

-----------------------------------------------------------------------------
(* ForkedValue.                                                            *)

\* GetItemPos: the position of a recorded name, -1 for any other.
GetItemPos(n) ==
    IF n \in Range(names) THEN current[CHOOSE i \in DOMAIN names : names[i] = n] ELSE -1

\* UpdateValue carries from the last index to the first: the digits after the
\* last one that can grow go back to 0; if none can grow nothing changes.
CanGrow(i) == current[i] + 1 < values[i]
\* Faulty variant: a digit is compared one too early.
HasNextShort == \E i \in DOMAIN current : current[i] + 2 < values[i]

HasNext == \E i \in DOMAIN current : CanGrow(i)

\* UpdateValue, when it returns true.
NextCombination ==
    LET p == CHOOSE i \in DOMAIN current :
                CanGrow(i) /\ \A j \in DOMAIN current : j > i => ~CanGrow(j)
    IN  [i \in DOMAIN current |-> IF i < p THEN current[i]
                                  ELSE IF i = p THEN current[i] + 1 ELSE 0]

-----------------------------------------------------------------------------
(* Faulty variants, substituted for definitions below.                     *)

\* After the last combination the odometer starts again from 0.
NextRunWraps ==
    /\ phase = "between" /\ ~exit
    /\ current' = IF HasNext THEN NextCombination ELSE [i \in DOMAIN current |-> 0]
    /\ visited' = visited \cup {current'}
    /\ phase' = "run"
    /\ UNCHANGED <<exit, storage, snapshot, isForkedTask, names, values, ops, seen, got, always,
                   replaced>>

\* Forked executions read the live storage.
GetForkedLive(n) == GetItem(storage, n, GetItemPos(n))

-----------------------------------------------------------------------------
(* The calls of the script.                                                *)

\* The first execution records a name with several values once, position 0.
Record(n) ==
    IF n \in Range(names) THEN UNCHANGED fork
    ELSE /\ names' = Append(names, n)
         /\ values' = Append(values, GetItemSize(storage, n))
         /\ current' = Append(current, 0)

GetForked(n) == GetItem(snapshot, n, GetItemPos(n))

\* history: the value one call returned.
Saw(n, v) ==
    /\ seen' = [seen EXCEPT ![n] = @ \cup {v}]
    /\ got' = [got EXCEPT ![n] = @ \cup {v}]

GetKbItem(n) ==
    /\ phase = "run" /\ ops < MaxOps
    /\ \/ /\ isForkedTask
          /\ Saw(n, GetForked(n)) /\ UNCHANGED fork
       \/ /\ ~isForkedTask /\ GetItemSize(storage, n) > 1
          /\ Saw(n, GetItem(storage, n, 0)) /\ Record(n)
       \/ /\ ~isForkedTask /\ GetItemSize(storage, n) <= 1
          /\ Saw(n, GetItem(storage, n, -1)) /\ UNCHANGED fork
    /\ ops' = ops + 1
    /\ UNCHANGED <<exit, phase, storage, snapshot, isForkedTask, visited, always, replaced>>

\* set_kb_item writes the live storage, also in a forked execution.
SetKbItem(n, v) ==
    /\ phase = "run" /\ ops < MaxOps
    /\ storage' = SetItem(storage, n, v)
    /\ ops' = ops + 1
    /\ UNCHANGED <<exit, phase, snapshot, isForkedTask, fork, visited, seen, got, always, replaced>>

ReplaceKbItem(n, v) ==
    /\ phase = "run" /\ ops < MaxOps
    /\ storage' = ReplaceItem(storage, n, v)
    /\ replaced' = TRUE
    /\ ops' = ops + 1
    /\ UNCHANGED <<exit, phase, snapshot, isForkedTask, fork, visited, seen, got, always>>

-----------------------------------------------------------------------------
(* The fork loop.                                                          *)

\* history: an execution ended.
Ended ==
    /\ always' = {n \in always : seen[n] # {}}
    /\ seen' = [n \in Name |-> {}]
    /\ ops' = 0

\* The first execution ended: the host was stopped, there is nothing to repeat, or
\* the snapshot is taken.
FirstRunEnd ==
    /\ phase = "run" /\ ~isForkedTask
    /\ IF exit \/ names = <<>>
       THEN phase' = "done" /\ UNCHANGED <<snapshot, isForkedTask, visited>>
       ELSE /\ phase' = "between"
            /\ snapshot' = storage /\ isForkedTask' = TRUE
            /\ visited' = {current}
    /\ Ended
    /\ UNCHANGED <<exit, storage, fork, got, replaced>>

\* PrepareForNextScriptExecute found a combination: execute again.
NextRun ==
    /\ phase = "between" /\ HasNext /\ ~exit
    /\ current' = NextCombination
    /\ visited' = visited \cup {current'}
    /\ phase' = "run"
    /\ UNCHANGED <<exit, storage, snapshot, isForkedTask, names, values, ops, seen, got, always,
                   replaced>>

ForkedRunEnd ==
    /\ phase = "run" /\ isForkedTask
    /\ phase' = "between"
    /\ Ended
    /\ UNCHANGED <<exit, storage, snapshot, isForkedTask, fork, visited, got, replaced>>

\* The combination is prepared before Exit is looked at.
StopBetween ==
    /\ phase = "between" /\ HasNext /\ exit
    /\ current' = NextCombination
    /\ phase' = "done"
    /\ UNCHANGED <<exit, storage, snapshot, isForkedTask, names, values, ops, visited, seen,
                   got, always, replaced>>

Exhausted ==
    /\ phase = "between" /\ ~HasNext
    /\ phase' = "done"
    /\ UNCHANGED <<exit, storage, snapshot, isForkedTask, fork, ops, visited, seen, got,
                   always, replaced>>

\* Stop, StopHostTask.
SetExit ==
    /\ exit' = TRUE
    /\ UNCHANGED <<phase, storage, snapshot, isForkedTask, fork, ops, visited, seen, got,
                   always, replaced>>

ForkLoop == FirstRunEnd \/ NextRun \/ ForkedRunEnd \/ StopBetween \/ Exhausted

Next ==
    \/ \E n \in Name : GetKbItem(n)
    \/ \E n \in Name, v \in Value : SetKbItem(n, v) \/ ReplaceKbItem(n, v)
    \/ ForkLoop \/ SetExit

Spec == Init /\ [][Next]_vars

\* Executions end (they have a time limit) and the loop goes on.
FairSpec == Spec /\ WF_vars(ForkLoop)

-----------------------------------------------------------------------------
(* Properties.                                                             *)

\* Every combination of positions of the recorded names.
Combinations ==
    {c \in [DOMAIN values -> UNION {0..(values[i] - 1) : i \in DOMAIN values}] :
        \A i \in DOMAIN values : c[i] < values[i]}

\* Types, and the three vectors stay parallel and hold each name once.
TypeOK ==
    /\ exit \in BOOLEAN /\ phase \in {"run", "between", "done"}
    /\ storage \in Storage /\ snapshot \in Storage
    /\ isForkedTask \in BOOLEAN /\ replaced \in BOOLEAN
    /\ ops \in 0..MaxOps
    /\ names \in Seq(Name) /\ IsInjective(names)
    /\ values \in Seq(Nat \ {0, 1}) /\ Len(values) = Len(names)
    /\ current \in Combinations
    /\ visited \subseteq Combinations
    /\ seen \in [Name -> SUBSET (Value \cup {Null})]
    /\ got \in [Name -> SUBSET (Value \cup {Null})]
    /\ always \in SUBSET Name

\* A forked execution reads one value per name, whatever it writes meanwhile.
ForkedReadsStable == isForkedTask => \A n \in Name : Cardinality(seen[n]) <= 1

\* On a host that was not stopped, a script that never replaces an item and reads a
\* recorded name in every execution has been given, over all of them, every value the
\* name had when it was first read with several.
EveryValueDelivered ==
    phase = "done" /\ ~exit /\ ~replaced =>
        \A i \in DOMAIN names : names[i] \in always =>
            {snapshot[names[i]][k] : k \in 1..values[i]} \subseteq got[names[i]]

\* When the loop ends and the host was not stopped, every combination was executed and
\* every value delivered; of a stopped host the rest is left out
\* (PrepareForNextScriptExecute, ExecuteScriptOnHost).
AllCombinationsRun ==
    /\ phase = "done" /\ ~exit /\ isForkedTask => visited = Combinations
    /\ EveryValueDelivered

\* The script's executions come to an end although a forked execution may
\* store further values under the recorded names.
ForkLoopEnds == <>(phase = "done")

=============================================================================
