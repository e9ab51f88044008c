------------------------------- MODULE RPCServer -------------------------------
(***************************************************************************)
(* The task table of the JSON-RPC server (class RPCServer of manger.hpp    *)
(* and manger.cc).                                                         *)
(*                                                                         *)
(* Each connection has a worker thread that handles its requests one after *)
(* the other.  A handler looks a task up under mLock and then uses the     *)
(* pointer with the lock free, so the calls of two connections interleave  *)
(* between a lookup and what follows it.  Of a task only its main thread   *)
(* and its stop flag are kept.  The server is destroyed when ServeTCP      *)
(* returns, while workers may still be at work.                            *)
(***************************************************************************)
EXTENDS Integers, FiniteSets, Functions

CONSTANTS
    Worker,     \* connections, one worker thread each
    TaskId,     \* the identifiers clients give their tasks
    MaxTask     \* bound on the tasks created

ASSUME ServerAssumption == MaxTask \in Nat /\ TaskId # {}

Task == 1..MaxTask
NoTask == 0

VARIABLES
    server,       \* "serving", "closing" (~RPCServer holds mLock), "closed"
    mTasks,       \* the table: id -> task, NoTask if the id has no entry
    created,      \* tasks created so far
    idOf,         \* the id each task was created for
    main,         \* each task's main thread: "none", "running", "ended"
    stopped,      \* each task's mStopAll
    freed,        \* the tasks deleted
    pc, arg, ptr, \* each worker: its place, the id of its request, its pointer
    raced,        \* history: ids on which two calls got in each other's way
    dangling      \* history: ids of a task used after it was deleted; what
                  \* such a use does is undefined, here it finds the task intact

taskVars == <<created, idOf, main, stopped, freed>>
workerVars == <<pc, arg, ptr>>
vars == <<server, mTasks, taskVars, workerVars, raced, dangling>>

\* Where a worker may stand.  "use" stands for the handlers that read the task
\* or stop one host of it.
WorkerPc == {"none", "idle", "create", "add", "stop", "use",
             "cleanStop", "cleanJoin", "cleanErase", "cleanDelete"}
Cleaning == {"cleanStop", "cleanJoin", "cleanErase", "cleanDelete"}
Holding  == {"stop", "use"} \cup Cleaning

Init ==
    /\ server = "serving"
    /\ mTasks = [i \in TaskId |-> NoTask]
    /\ created = 0 /\ idOf = [t \in Task |-> CHOOSE i \in TaskId : TRUE]
    /\ main = [t \in Task |-> "none"] /\ stopped = [t \in Task |-> FALSE]
    /\ freed = {}
    /\ pc = [w \in Worker |-> "none"]
    /\ arg = [w \in Worker |-> CHOOSE i \in TaskId : TRUE]
    /\ ptr = [w \in Worker |-> NoTask]
    /\ raced = {} /\ dangling = {}

\* mLock is free: only ~RPCServer holds it over more than one step.
Unlocked == server = "serving"

\* The process is alive: when ~RPCServer has returned, main returns.
Alive == server # "closed"

\* history: worker w uses the object its pointer points to.
Touch(w) ==
    dangling' = IF ptr[w] \in freed THEN dangling \cup {arg[w]} ELSE dangling

\* history: w now holds task t while another worker does, and one cleans it.
Meets(w, t, cleaning) ==
    \E v \in Worker \ {w} : pc[v] \in Holding /\ ptr[v] = t /\ (cleaning \/ pc[v] \in Cleaning)

-----------------------------------------------------------------------------
(* Faulty variants, substituted for actions below to see a property fail.  *)

\* BeginTask forgets to put the task into the table.
AddTaskForgotten(w) ==
    /\ Alive /\ Unlocked /\ pc[w] = "add"
    /\ pc' = [pc EXCEPT ![w] = "idle"]
    /\ ptr' = [ptr EXCEPT ![w] = NoTask]
    /\ UNCHANGED <<server, mTasks, taskVars, arg, raced, dangling>>

\* CleanTask deletes the task a second time when it erases it.
CleanEraseDeletes(w) ==
    /\ Alive /\ Unlocked /\ pc[w] = "cleanErase"
    /\ mTasks' = [mTasks EXCEPT ![arg[w]] = NoTask]
    /\ freed' = freed \cup {ptr[w]}
    /\ pc' = [pc EXCEPT ![w] = "cleanDelete"]
    /\ UNCHANGED <<server, created, idOf, main, stopped, arg, ptr, raced, dangling>>

\* AddTask waits until the id is free.
AddTaskWaits(w) ==
    /\ Alive /\ Unlocked /\ pc[w] = "add" /\ mTasks[arg[w]] = NoTask
    /\ mTasks' = [mTasks EXCEPT ![arg[w]] = ptr[w]]
    /\ pc' = [pc EXCEPT ![w] = "idle"]
    /\ ptr' = [ptr EXCEPT ![w] = NoTask]
    /\ UNCHANGED <<server, taskVars, arg, raced, dangling>>

\* The destructor waits until no worker holds the task.
CloseTaskUnshared(i) ==
    /\ server = "closing"
    /\ mTasks[i] \in Task \ freed /\ main[mTasks[i]] = "ended"
    /\ \A w \in Worker : ptr[w] # mTasks[i]
    /\ freed' = freed \cup {mTasks[i]}
    /\ UNCHANGED <<server, mTasks, created, idOf, main, stopped, workerVars, raced, dangling>>

-----------------------------------------------------------------------------
(* Connections.                                                            *)

\* ServeTCP accepts a connection and gives it a worker.
Accept(w) ==
    /\ Unlocked /\ pc[w] = "none"
    /\ pc' = [pc EXCEPT ![w] = "idle"]
    /\ UNCHANGED <<server, mTasks, taskVars, arg, ptr, raced, dangling>>

\* The worker ends: end of stream, timeout, or a request it cannot parse.
Disconnect(w) ==
    /\ Alive /\ pc[w] = "idle"
    /\ pc' = [pc EXCEPT ![w] = "none"]
    /\ UNCHANGED <<server, mTasks, taskVars, arg, ptr, raced, dangling>>

-----------------------------------------------------------------------------
(* Handlers.  A refused request changes nothing and is left out.           *)

\* LookupTask finds the task; the pointer is used when the lock is free again.
Lookup(w, i, use) ==
    /\ Alive /\ Unlocked /\ pc[w] = "idle"
    /\ mTasks[i] # NoTask
    /\ pc' = [pc EXCEPT ![w] = use]
    /\ arg' = [arg EXCEPT ![w] = i]
    /\ ptr' = [ptr EXCEPT ![w] = mTasks[i]]
    /\ raced' = IF Meets(w, mTasks[i], use = "cleanStop") THEN raced \cup {i} ELSE raced
    /\ UNCHANGED <<server, mTasks, taskVars, dangling>>

\* BeginTask: the id is not in the table, and the lock is given up.
BeginLookup(w, i) ==
    /\ Alive /\ Unlocked /\ pc[w] = "idle"
    /\ mTasks[i] = NoTask
    /\ pc' = [pc EXCEPT ![w] = "create"]
    /\ arg' = [arg EXCEPT ![w] = i]
    /\ raced' = IF \E v \in Worker : pc[v] \in {"create", "add"} /\ arg[v] = i
                THEN raced \cup {i} ELSE raced
    /\ UNCHANGED <<server, mTasks, taskVars, ptr, dangling>>

\* BeginTask: a new HostsTask, started before anyone can find it (Start always
\* returns true).
CreateTask(w) ==
    /\ Alive /\ pc[w] = "create" /\ created < MaxTask
    /\ created' = created + 1
    /\ idOf' = [idOf EXCEPT ![created'] = arg[w]]
    /\ main' = [main EXCEPT ![created'] = "running"]
    /\ ptr' = [ptr EXCEPT ![w] = created']
    /\ pc' = [pc EXCEPT ![w] = "add"]
    /\ UNCHANGED <<server, mTasks, stopped, freed, arg, raced, dangling>>

\* BeginTask: AddTask overwrites whatever the table holds under the id.
AddTask(w) ==
    /\ Alive /\ Unlocked /\ pc[w] = "add"
    /\ mTasks' = [mTasks EXCEPT ![arg[w]] = ptr[w]]
    /\ pc' = [pc EXCEPT ![w] = "idle"]
    /\ ptr' = [ptr EXCEPT ![w] = NoTask]
    /\ UNCHANGED <<server, taskVars, arg, raced, dangling>>

\* GetTaskStatus, GetDiscoverdHost, GetFinishedHost, GetHostTaskInformation and
\* StopHostTask: none changes what is modelled here.
UseTask(w) ==
    /\ Alive /\ pc[w] = "use"
    /\ Touch(w)
    /\ pc' = [pc EXCEPT ![w] = "idle"] /\ ptr' = [ptr EXCEPT ![w] = NoTask]
    /\ UNCHANGED <<server, mTasks, taskVars, arg, raced>>

StopTask(w) ==
    /\ Alive /\ pc[w] = "stop"
    /\ Touch(w)
    /\ stopped' = [stopped EXCEPT ![ptr[w]] = TRUE]
    /\ pc' = [pc EXCEPT ![w] = "idle"] /\ ptr' = [ptr EXCEPT ![w] = NoTask]
    /\ UNCHANGED <<server, mTasks, created, idOf, main, freed, arg, raced>>

CleanStop(w) ==
    /\ Alive /\ pc[w] = "cleanStop"
    /\ Touch(w)
    /\ stopped' = [stopped EXCEPT ![ptr[w]] = TRUE]
    /\ pc' = [pc EXCEPT ![w] = "cleanJoin"]
    /\ UNCHANGED <<server, mTasks, created, idOf, main, freed, arg, ptr, raced>>

CleanJoin(w) ==
    /\ Alive /\ pc[w] = "cleanJoin"
    /\ main[ptr[w]] = "ended"
    /\ Touch(w)
    /\ pc' = [pc EXCEPT ![w] = "cleanErase"]
    /\ UNCHANGED <<server, mTasks, taskVars, arg, ptr, raced>>

\* The entry of the id goes, whichever task it holds by now.
CleanErase(w) ==
    /\ Alive /\ Unlocked /\ pc[w] = "cleanErase"
    /\ mTasks' = [mTasks EXCEPT ![arg[w]] = NoTask]
    /\ pc' = [pc EXCEPT ![w] = "cleanDelete"]
    /\ UNCHANGED <<server, taskVars, arg, ptr, raced, dangling>>

CleanDelete(w) ==
    /\ Alive /\ pc[w] = "cleanDelete"
    /\ Touch(w)
    /\ freed' = freed \cup {ptr[w]}
    /\ pc' = [pc EXCEPT ![w] = "idle"] /\ ptr' = [ptr EXCEPT ![w] = NoTask]
    /\ UNCHANGED <<server, mTasks, created, idOf, main, stopped, arg, raced>>

Handle(w) ==
    \/ CreateTask(w) \/ AddTask(w) \/ UseTask(w)
    \/ StopTask(w) \/ CleanStop(w) \/ CleanJoin(w) \/ CleanErase(w) \/ CleanDelete(w)

\* The main thread of a task ends (HostsTask, TaskEnds).
TaskEnd(t) ==
    /\ Alive /\ main[t] = "running"
    /\ main' = [main EXCEPT ![t] = "ended"]
    /\ UNCHANGED <<server, mTasks, created, idOf, stopped, freed, workerVars, raced, dangling>>

-----------------------------------------------------------------------------
(* ~RPCServer.                                                             *)

\* Accept failed: the destructor takes mLock and stops every task of the table.
CloseStop ==
    /\ server = "serving"
    /\ server' = "closing"
    /\ stopped' = [t \in Task |-> stopped[t] \/ t \in Range(mTasks)]
    /\ UNCHANGED <<mTasks, created, idOf, main, freed, workerVars, raced, dangling>>

\* One task of the table is joined and deleted; its entry stays.
CloseTask(i) ==
    /\ server = "closing"
    /\ mTasks[i] \in Task \ freed /\ main[mTasks[i]] = "ended"
    /\ freed' = freed \cup {mTasks[i]}
    /\ raced' = IF \E w \in Worker : pc[w] \in Holding /\ ptr[w] = mTasks[i]
                THEN raced \cup {i} ELSE raced
    /\ UNCHANGED <<server, mTasks, created, idOf, main, stopped, workerVars, dangling>>

CloseEnd ==
    /\ server = "closing"
    /\ \A i \in TaskId : mTasks[i] # NoTask => mTasks[i] \in freed
    /\ server' = "closed"
    /\ UNCHANGED <<mTasks, taskVars, workerVars, raced, dangling>>

Close == CloseEnd \/ \E i \in TaskId : CloseTask(i)

Next ==
    \/ \E w \in Worker :
          \/ Accept(w) \/ Disconnect(w) \/ Handle(w)
          \/ \E i \in TaskId : BeginLookup(w, i)
          \/ \E i \in TaskId, use \in {"stop", "use", "cleanStop"} : Lookup(w, i, use)
    \/ \E t \in Task : TaskEnd(t)
    \/ CloseStop \/ Close

Spec == Init /\ [][Next]_vars

\* Threads are scheduled and tasks end; nobody has to call or to connect.
Fairness ==
    /\ \A w \in Worker : WF_vars(Handle(w))
    /\ \A t \in Task : WF_vars(TaskEnd(t))
    /\ WF_vars(Close)

FairSpec == Spec /\ Fairness

-----------------------------------------------------------------------------
(* Properties.                                                             *)

\* Every variable has its type (class RPCServer and its handlers' locals).
TypeOK ==
    /\ server \in {"serving", "closing", "closed"}
    /\ mTasks \in [TaskId -> Task \cup {NoTask}]
    /\ created \in 0..MaxTask
    /\ idOf \in [Task -> TaskId]
    /\ main \in [Task -> {"none", "running", "ended"}]
    /\ stopped \in [Task -> BOOLEAN] /\ freed \in SUBSET Task
    /\ pc \in [Worker -> WorkerPc] /\ arg \in [Worker -> TaskId]
    /\ ptr \in [Worker -> Task \cup {NoTask}]
    /\ \A w \in Worker : pc[w] \in Holding \cup {"add"} <=> ptr[w] # NoTask
    /\ raced \in SUBSET TaskId /\ dangling \in SUBSET TaskId

\* While the server serves, the table never leads to a deleted task, whatever
\* the calls do to each other: a task leaves the table before it is deleted
\* and is put there only once.
TableLive == server = "serving" => \A i \in TaskId : mTasks[i] \notin freed

\* A task is deleted only when its main thread has ended: it was stopped and
\* joined by CleanTask, or by the destructor.
DeletedAfterEnd == \A t \in freed : main[t] = "ended" /\ stopped[t]

\* A task is used or deleted after its deletion only if a CleanTask, or the
\* destructor, met another call on the same task.
DanglingOnlyIfRaced == dangling \subseteq raced

\* A task that was not deleted can be found by its id, or is in the hands of
\* the call that begins or cleans it, unless two calls on its id raced: then a
\* running task may be unreachable for good.
NoTaskLost ==
    \A t \in 1..created : t \notin freed /\ idOf[t] \notin raced =>
        \/ mTasks[idOf[t]] = t
        \/ \E w \in Worker : pc[w] \in {"add", "cleanDelete"} /\ ptr[w] = t

\* One id has one task at a time, unless calls on it raced.
OneTaskPerId ==
    \A t, u \in 1..created :
        idOf[t] = idOf[u] /\ t # u /\ idOf[t] \notin raced =>
            t \in freed \/ u \in freed
            \/ \E w \in Worker : pc[w] = "cleanDelete" /\ ptr[w] \in {t, u}

\* Every call returns, also one that waits for a task or for the lock, unless
\* the bound on tasks holds it up or the process ends.
CallsReturn ==
    \A w \in Worker : []<>(\/ pc[w] \in {"none", "idle"}
                           \/ pc[w] = "create" /\ created = MaxTask
                           \/ server = "closed")

\* A destructor that has begun ends.
CloseEnds == [](server = "closing" => <>(server = "closed"))

\* The inductive invariant.  What is in the table or in a worker's hands was
\* created, for the id it is found under; only a call that begins a task holds
\* one that nobody else knows.
TasksKnown ==
    /\ \A i \in TaskId : mTasks[i] # NoTask => mTasks[i] <= created /\ idOf[mTasks[i]] = i
    /\ \A w \in Worker : ptr[w] # NoTask => ptr[w] <= created /\ idOf[ptr[w]] = arg[w]
    /\ \A t \in freed : t <= created
NewIsPrivate ==
    \A w \in Worker : pc[w] = "add" =>
        /\ ptr[w] \notin freed
        /\ \A i \in TaskId : mTasks[i] # ptr[w]
        /\ \A v \in Worker \ {w} : ptr[v] # ptr[w]

\* A call that cleans a task, and the destructor, go step by step.
CleanInOrder ==
    /\ \A w \in Worker :
          /\ pc[w] \in Cleaning \ {"cleanStop"} => stopped[ptr[w]]
          /\ pc[w] \in {"cleanErase", "cleanDelete"} => main[ptr[w]] = "ended"
          /\ pc[w] = "cleanDelete" => \A i \in TaskId : mTasks[i] # ptr[w]
    /\ server = "closing" => \A i \in TaskId : mTasks[i] # NoTask => stopped[mTasks[i]]

\* What may go wrong is recorded before it does: two begins of one id, a begin
\* overtaken by another, two calls on one task of which one cleans it, a clean
\* that would erase another task, a task deleted while a call holds it.
RacesRecorded ==
    \A w \in Worker : arg[w] \notin raced =>
        /\ pc[w] \in {"create", "add"} =>
              /\ mTasks[arg[w]] = NoTask
              /\ \A v \in Worker \ {w} : pc[v] \in {"create", "add"} => arg[v] # arg[w]
        /\ pc[w] \in Cleaning =>
              \A v \in Worker \ {w} : pc[v] \in Holding => ptr[v] # ptr[w]
        /\ pc[w] \in {"cleanStop", "cleanJoin", "cleanErase"} => mTasks[arg[w]] = ptr[w]
        /\ pc[w] \in Holding => ptr[w] \notin freed

IndInv ==
    /\ TypeOK /\ TasksKnown /\ NewIsPrivate /\ CleanInOrder /\ RacesRecorded
    /\ TableLive /\ DeletedAfterEnd /\ DanglingOnlyIfRaced /\ NoTaskLost

=============================================================================
