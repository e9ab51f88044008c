------------------------------ MODULE ScriptOrder ------------------------------
(***************************************************************************)
(* Which scripts a task runs, and in which order (HostsTask::InitScripts). *)
(*                                                                         *)
(* The requested scripts are loaded depth first: a script is appended to   *)
(* loadOrder when the scripts it depends on have been.  The recursion is   *)
(* an explicit stack here.  Then the order is split into one list per      *)
(* category, and the lists are run one after the other.                    *)
(***************************************************************************)
EXTENDS Integers, Sequences, Functions

CONSTANTS
    File,       \* script file names
    Database,   \* the contents the script database may have
    Request     \* the lists of scripts a task may be given

Category == 0..10

ASSUME OrderAssumption ==
    /\ \A d \in Database : d \in [known    : SUBSET File,
                                  deps     : [File -> Seq(File)],
                                  category : [File -> Category]]
    /\ \A r \in Request : r \in Seq(File)
    /\ "top" \notin File

VARIABLES
    db,               \* what the database holds
    request,          \* the task's list (OIDs, named by their files here)
    status,           \* "load", "group", "loaded" or "failed"
    stack,            \* the calls under way: whose dependencies, and which are left
    loaded,           \* the files met so far
    loadOrder,
    placed,           \* how many files of loadOrder are in their category
    mGroupedScripts   \* category -> list of files

groupVars == <<placed, mGroupedScripts>>
vars == <<db, request, status, stack, loaded, loadOrder, groupVars>>

Init ==
    /\ db \in Database /\ request \in Request
    /\ status = "load"
    /\ stack = <<[file |-> "top", todo |-> request]>>
    /\ loaded = {} /\ loadOrder = <<>>
    /\ placed = 0 /\ mGroupedScripts = [c \in Category |-> <<>>]

Top == stack[Len(stack)]
Outer == SubSeq(stack, 1, Len(stack) - 1)

\* The next file of the innermost call, and the call without it.
Loading == status = "load" /\ Top.todo # <<>>
NextFile == Head(Top.todo)
Advanced == [stack EXCEPT ![Len(stack)].todo = Tail(@)]

-----------------------------------------------------------------------------
(* Faulty variants, substituted for actions below to see a property fail.  *)

\* A loaded file is not passed over.
SkipLoadedStays ==
    /\ Loading /\ NextFile \in loaded
    /\ stack' = [stack EXCEPT ![Len(stack)].todo = Append(Tail(@), Head(@))]
    /\ UNCHANGED <<db, request, status, loaded, loadOrder, groupVars>>

\* A missing dependency is skipped like a missing requested script.
FailUnknownSkips ==
    /\ Loading /\ NextFile \notin db.known /\ Len(stack) > 1
    /\ stack' = Advanced
    /\ UNCHANGED <<db, request, status, loaded, loadOrder, groupVars>>

\* A script is put in front of what is loaded already.
LeaveInFront ==
    /\ status = "load" /\ Top.todo = <<>> /\ Len(stack) > 1
    /\ loadOrder' = <<Top.file>> \o loadOrder
    /\ stack' = Outer
    /\ UNCHANGED <<db, request, status, loaded, groupVars>>

-----------------------------------------------------------------------------

SkipLoaded ==
    /\ Loading /\ NextFile \in loaded
    /\ stack' = Advanced
    /\ UNCHANGED <<db, request, status, loaded, loadOrder, groupVars>>

\* A requested script the database does not know is only warned about.
SkipUnknown ==
    /\ Loading /\ NextFile \notin db.known /\ Len(stack) = 1
    /\ stack' = Advanced
    /\ UNCHANGED <<db, request, status, loaded, loadOrder, groupVars>>

\* An unknown dependency makes every call return false.
FailUnknown ==
    /\ Loading /\ NextFile \notin db.known /\ Len(stack) > 1
    /\ status' = "failed"
    /\ UNCHANGED <<db, request, stack, loaded, loadOrder, groupVars>>

\* A new script is marked, then its dependencies are loaded (a script without
\* the attribute has an empty list).
Enter ==
    /\ Loading /\ NextFile \in db.known \ loaded
    /\ loaded' = loaded \cup {NextFile}
    /\ stack' = Append(Advanced, [file |-> NextFile, todo |-> db.deps[NextFile]])
    /\ UNCHANGED <<db, request, status, loadOrder, groupVars>>

\* The dependencies are loaded: the script follows them.
Leave ==
    /\ status = "load" /\ Top.todo = <<>> /\ Len(stack) > 1
    /\ loadOrder' = Append(loadOrder, Top.file)
    /\ stack' = Outer
    /\ UNCHANGED <<db, request, status, loaded, groupVars>>

\* Every requested script is done.
LoadEnd ==
    /\ status = "load" /\ Top.todo = <<>> /\ Len(stack) = 1
    /\ status' = "group"
    /\ UNCHANGED <<db, request, stack, loaded, loadOrder, groupVars>>

\* The order is split by category, one script after the other.
Place ==
    /\ status = "group" /\ placed < Len(loadOrder)
    /\ placed' = placed + 1
    /\ LET f == loadOrder[placed']
       IN  mGroupedScripts' = [mGroupedScripts EXCEPT ![db.category[f]] = Append(@, f)]
    /\ UNCHANGED <<db, request, status, stack, loaded, loadOrder>>

GroupEnd ==
    /\ status = "group" /\ placed = Len(loadOrder)
    /\ status' = "loaded"
    /\ UNCHANGED <<db, request, stack, loaded, loadOrder, groupVars>>

Next == SkipLoaded \/ SkipUnknown \/ FailUnknown \/ Enter \/ Leave
        \/ LoadEnd \/ Place \/ GroupEnd

Spec == Init /\ [][Next]_vars

\* One thread, which nothing holds up.
FairSpec == Spec /\ WF_vars(Next)

-----------------------------------------------------------------------------
(* Properties.                                                             *)

\* In a database d, a set of files is closed if it holds what its known scripts
\* depend on; g depends on f if every closed set that holds g holds f.
Closed(d, S) == \A f \in S \cap d.known : Range(d.deps[f]) \subseteq S
Depends(d, g, f) == \A S \in SUBSET File : g \in S /\ Closed(d, S) => f \in S

DependsOn(g, f) == Depends(db, g, f)
Requested == Range(request) \cap db.known

\* Every variable has its type (the locals of InitScripts).
TypeOK ==
    /\ db \in Database /\ request \in Request
    /\ status \in {"load", "group", "loaded", "failed"}
    /\ stack \in Seq([file : File \cup {"top"}, todo : Seq(File)]) /\ stack # <<>>
    /\ loaded \in SUBSET File
    /\ loadOrder \in Seq(File) /\ placed \in 0..Len(loadOrder)
    /\ mGroupedScripts \in [Category -> Seq(File)]

\* A task that starts runs the requested scripts the database knows and all
\* they depend on, each once, and nothing else; it does not start only if one
\* of those is missing.
LoadsExactly ==
    /\ status = "loaded" =>
          /\ IsInjective(loadOrder)
          /\ \A f \in File : f \in Range(loadOrder) <=> \E g \in Requested : DependsOn(g, f)
    /\ status = "failed" =>
          \E f \in File \ db.known : \E g \in Requested : DependsOn(g, f)

\* f is run before g: in an earlier category, or earlier in the same one.
Before(list, f, g) == \E i, j \in DOMAIN list : i < j /\ list[i] = f /\ list[j] = g
RunsBefore(f, g) ==
    \/ db.category[f] < db.category[g]
    \/ /\ db.category[f] = db.category[g]
       /\ Before(mGroupedScripts[db.category[g]], f, g)

\* A script is run after everything it depends on directly, except what is in
\* a later category and what depends on it in turn.
DependenciesFirst ==
    status = "loaded" =>
        \A g \in Range(loadOrder) : \A f \in Range(db.deps[g]) :
            RunsBefore(f, g) \/ db.category[f] > db.category[g] \/ DependsOn(f, g)

\* Loading ends, although scripts may depend on each other in a cycle.
LoadingEnds == <>(status \in {"loaded", "failed"})

-----------------------------------------------------------------------------
(* The inductive invariant behind the safety properties.                   *)

\* A file that was met is in the order, or is one whose dependencies are being
\* loaded, not both.
StackInv ==
    /\ Range(loadOrder) \subseteq loaded /\ loaded \subseteq db.known
    /\ IsInjective(loadOrder)
    /\ \A i \in 2..Len(stack) : stack[i].file \in loaded \ Range(loadOrder)
    /\ \A i, j \in 2..Len(stack) : stack[i].file = stack[j].file => i = j
    /\ \A f \in loaded \ Range(loadOrder) : \E i \in 2..Len(stack) : stack[i].file = f

\* What is left of a call is part of its list, and what is not left was met.
TodoInv ==
    /\ Range(stack[1].todo) \subseteq Range(request)
    /\ Requested \subseteq loaded \cup Range(stack[1].todo)
    /\ \A i \in 2..Len(stack) :
          /\ Range(stack[i].todo) \subseteq Range(db.deps[stack[i].file])
          /\ Range(db.deps[stack[i].file]) \subseteq loaded \cup Range(stack[i].todo)
    /\ \A f \in Range(loadOrder) : Range(db.deps[f]) \subseteq loaded

\* Only what a requested script depends on is met.
ReachInv == \A f \in loaded : \E g \in Requested : DependsOn(g, f)

\* Each call under way serves the ones before it; in the order, dependencies
\* come first except on a cycle.
OrderInv ==
    /\ \A i, j \in 2..Len(stack) : i <= j => DependsOn(stack[i].file, stack[j].file)
    /\ \A i \in DOMAIN loadOrder : \A f \in Range(db.deps[loadOrder[i]]) :
          DependsOn(f, loadOrder[i]) \/ \E j \in 1..(i - 1) : loadOrder[j] = f

\* The lists keep the order.
GroupInv ==
    \A i, j \in 1..placed :
        i < j /\ db.category[loadOrder[i]] = db.category[loadOrder[j]] =>
            Before(mGroupedScripts[db.category[loadOrder[j]]], loadOrder[i], loadOrder[j])
PlacedInv ==
    \A i \in 1..placed : loadOrder[i] \in Range(mGroupedScripts[db.category[loadOrder[i]]])

\* Where loading stands when it has ended.
EndInv ==
    /\ status = "load" => placed = 0
    /\ status \in {"group", "loaded"} => Len(stack) = 1 /\ stack[1].todo = <<>>
    /\ status = "loaded" => placed = Len(loadOrder)
    /\ status = "failed" => Len(stack) > 1 /\ Top.todo # <<>> /\ NextFile \notin db.known

\* The conjunction proved inductive in ScriptOrder_proofs (taskmgr.cc 482-569).
IndInv ==
    /\ TypeOK /\ StackInv /\ TodoInv /\ ReachInv /\ OrderInv
    /\ GroupInv /\ PlacedInv /\ EndInv

=============================================================================
