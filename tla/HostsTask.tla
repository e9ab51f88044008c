------------------------------ MODULE HostsTask ------------------------------
(***************************************************************************)
(* One scan task (class HostsTask of taskmgr.hpp / taskmgr.cc).            *)
(*                                                                         *)
(* A main thread runs Execute: it sorts the scripts, scans the target for  *)
(* live hosts, starts one thread per host and joins them.  RPC workers     *)
(* ("callers") run Stop and StopHostTask at any moment.  The threads share *)
(* mState, mStopAll, the TCB list mTCBGroup, each TCB's Exit flag and a    *)
(* few counters; mLock protects only the lists.                            *)
(*                                                                         *)
(* One action is one access to shared state, so that every interleaving of *)
(* the threads is a behaviour.  What a host thread does between two        *)
(* accesses (service detection, the scripts) is one step here; the script  *)
(* loop itself is modelled in HostScripts.                                 *)
(*                                                                         *)
(* s_RunningTask is a static: all tasks of the server count their running  *)
(* hosts in it.  What the other tasks do to it is a step of its own.       *)
(***************************************************************************)
EXTENDS Integers, Sequences, FiniteSets, Functions

CONSTANTS
    Host,       \* the addresses the port scan can report
    Caller,     \* the RPC worker threads that may call Stop / StopHostTask
    OtherTasks, \* how many other tasks the server may have
    MaxElsewhere    \* bound on the running hosts of those

ASSUME HostFinite == IsFiniteSet(Host)

ASSUME OthersAssumption == OtherTasks \in Nat /\ MaxElsewhere \in Nat

VARIABLES
    main,                 \* program counter of the main thread (Execute)
    mState,               \* HostsTask::mState
    mStopAll,             \* HostsTask::mStopAll
    found,                \* task->result, the list the scan left
    seek,                 \* position in found; Len(found) + 1 is NULL
    mHostArray,           \* hosts published by GetDiscoverdHost
    mHostCount, mScheduledHostCount, mFinishedHostCount,
    mFinishedHost,        \* hosts published by GetFinishedHost
    mTCBGroup,            \* hosts whose TCB is in the list
    sRunningTask,         \* the static s_RunningTask
    elsewhere,            \* what of it is of other tasks: counted and not released
    exit,                 \* TCB::Exit of each host
    thread,               \* program counter of each host thread
    reported,             \* hosts whose TCB::Report was written
    caller,               \* program counter of each caller
    copy                  \* the caller's local list of TCBs still to flag

mainVars   == <<main, mState, found, seek, mHostArray, mHostCount>>
launchVars == <<mScheduledHostCount, mTCBGroup>>
threadVars == <<thread, reported, mFinishedHostCount, mFinishedHost>>
callVars   == <<caller, copy>>
running    == <<sRunningTask, elsewhere>>
vars == <<mainVars, launchVars, threadVars, callVars, mStopAll, exit, running>>

TaskState == {"None", "Scheduled", "PortScan", "Running", "ScheduledStop", "Stoped"}
MainPc    == {"none", "init", "scan", "sending", "fill", "count", "loop", "make",
              "launch", "running", "scheduled", "register", "drain", "done"}
ThreadPc  == {"idle", "detect", "scripts", "report", "count", "publish", "release", "done"}
CallerPc  == {"idle", "stopState", "stopCopy", "mark"}

\* The hosts whose thread exists, and those whose thread has not ended.
Launched == {h \in Host : thread[h] # "idle"}
Live     == {h \in Host : thread[h] \notin {"idle", "done"}}

\* The hosts counted in mFinishedHostCount, and those also in mFinishedHost.
Counted   == {h \in Host : thread[h] \in {"publish", "release", "done"}}
Published == {h \in Host : thread[h] \in {"release", "done"}}

\* A host of another task counts until its thread releases it; one that each task is
\* just starting may have released before it is counted.
Elsewhere == -OtherTasks .. MaxElsewhere

Init ==
    /\ main = "none" /\ mState = "None" /\ mStopAll = FALSE
    /\ found = <<>> /\ seek = 1
    /\ mHostArray = <<>> /\ mHostCount = 0
    /\ mScheduledHostCount = 0 /\ mFinishedHostCount = 0 /\ mFinishedHost = <<>>
    /\ mTCBGroup = {}
    /\ elsewhere \in Elsewhere /\ sRunningTask = elsewhere
    /\ exit = [h \in Host |-> FALSE]
    /\ thread = [h \in Host |-> "idle"]
    /\ reported = {}
    /\ caller = [c \in Caller |-> "idle"]
    /\ copy = [c \in Caller |-> {}]

-----------------------------------------------------------------------------
(* Faulty variants of actions below.  None is part of Next: each stands for *)
(* a plausible slip in the code and is substituted for one action to see    *)
(* that a property notices.                                                 *)

\* No second test of mStopAll before the thread is started.
StopTestDropped ==
    /\ main = "make"
    /\ main' = "launch"
    /\ UNCHANGED <<mState, mStopAll, found, seek, mHostArray, mHostCount, launchVars,
                   threadVars, callVars, exit, running>>

\* The host threads are not joined.
JoinHostsDetached ==
    /\ main = "drain"
    /\ main' = "done" /\ mState' = "Stoped"
    /\ UNCHANGED <<mStopAll, found, seek, mHostArray, mHostCount, launchVars,
                   threadVars, callVars, exit, running>>

\* Every discovered host is waited for, started or not.
JoinDiscovered ==
    /\ main = "drain"
    /\ \A h \in Range(mHostArray) : thread[h] = "done"
    /\ main' = "done" /\ mState' = "Stoped"
    /\ UNCHANGED <<mStopAll, found, seek, mHostArray, mHostCount, launchVars,
                   threadVars, callVars, exit, running>>

\* The running slot is not given back.
ReleaseRunningKept(h) ==
    /\ thread[h] = "release"
    /\ thread' = [thread EXCEPT ![h] = "done"]
    /\ UNCHANGED <<mainVars, launchVars, reported, mFinishedHostCount, mFinishedHost,
                   callVars, mStopAll, exit, running>>

\* Stop copies the TCBs themselves, and flags its copies.
MarkCopies(c, h) ==
    /\ caller[c] = "mark" /\ h \in copy[c]
    /\ copy' = [copy EXCEPT ![c] = @ \ {h}]
    /\ UNCHANGED <<mainVars, launchVars, threadVars, caller, mStopAll, exit, running>>

-----------------------------------------------------------------------------
(* The main thread.                                                        *)

\* Start: the task is in no table yet, so nothing else can run before it.
Start ==
    /\ main = "none"
    /\ main' = "init" /\ mState' = "Scheduled"
    /\ UNCHANGED <<mStopAll, found, seek, mHostArray, mHostCount, launchVars,
                   threadVars, callVars, exit, running>>

\* InitScripts failed (a dependency is missing): the task ends at once.
InitScriptsFail ==
    /\ main = "init"
    /\ main' = "done" /\ mState' = "Stoped"
    /\ UNCHANGED <<mStopAll, found, seek, mHostArray, mHostCount, launchVars,
                   threadVars, callVars, exit, running>>

InitScriptsOk ==
    /\ main = "init"
    /\ main' = "scan" /\ mState' = "PortScan"
    /\ UNCHANGED <<mStopAll, found, seek, mHostArray, mHostCount, launchVars,
                   threadVars, callVars, exit, running>>

\* init_host_scan_task returned NULL: Execute returns and leaves mState alone.
ScanFail ==
    /\ main = "scan"
    /\ main' = "done"
    /\ UNCHANGED <<mState, mStopAll, found, seek, mHostArray, mHostCount, launchVars,
                   threadVars, callVars, exit, running>>

ScanStart ==
    /\ main = "scan"
    /\ main' = "sending"
    /\ UNCHANGED <<mState, mStopAll, found, seek, mHostArray, mHostCount, launchVars,
                   threadVars, callVars, exit, running>>

\* send_done is seen, the scan threads are joined and their result list is
\* read.  The scanner keeps one entry per address.  mStopAll is not looked at,
\* and a ScheduledStop written meanwhile is overwritten.
ScanJoin ==
    /\ main = "sending"
    /\ \E n \in 0..Cardinality(Host) : \E list \in [1..n -> Host] :
          /\ IsInjective(list)
          /\ found' = list
    /\ main' = "fill" /\ mState' = "Running" /\ seek' = 1
    /\ UNCHANGED <<mStopAll, mHostArray, mHostCount, launchVars, threadVars, callVars,
                   exit, running>>

FillHost ==
    /\ main = "fill" /\ seek <= Len(found)
    /\ mHostArray' = Append(mHostArray, found[seek])
    /\ main' = "count"
    /\ UNCHANGED <<mState, mStopAll, found, seek, mHostCount, launchVars, threadVars,
                   callVars, exit, running>>

CountHost ==
    /\ main = "count"
    /\ mHostCount' = mHostCount + 1
    /\ seek' = seek + 1 /\ main' = "fill"
    /\ UNCHANGED <<mState, mStopAll, found, mHostArray, launchVars, threadVars,
                   callVars, exit, running>>

FillEnd ==
    /\ main = "fill" /\ seek > Len(found)
    /\ seek' = 1 /\ main' = "loop"
    /\ UNCHANGED <<mState, mStopAll, found, mHostArray, mHostCount, launchVars,
                   threadVars, callVars, exit, running>>

\* while (seek != NULL && !mStopAll): a new TCB, with Exit = false, or the end.
LoopTest ==
    /\ main = "loop"
    /\ IF seek <= Len(found) /\ ~mStopAll
       THEN /\ main' = "make"
            /\ exit' = [exit EXCEPT ![found[seek]] = FALSE]
       ELSE main' = "drain" /\ UNCHANGED exit
    /\ UNCHANGED <<mState, mStopAll, found, seek, mHostArray, mHostCount, launchVars,
                   threadVars, callVars, running>>

\* The second test of mStopAll.  The test of s_RunningTask against s_TaskLimit
\* before it only sleeps: it changes nothing and holds nobody back.
StopTest ==
    /\ main = "make"
    /\ main' = IF mStopAll THEN "drain" ELSE "launch"
    /\ UNCHANGED <<mState, mStopAll, found, seek, mHostArray, mHostCount, launchVars,
                   threadVars, callVars, exit, running>>

\* pixie_begin_thread: the host thread runs from here on, before it is counted
\* and before its TCB is in the list.
LaunchHost ==
    /\ main = "launch"
    /\ thread' = [thread EXCEPT ![found[seek]] = "detect"]
    /\ main' = "running"
    /\ UNCHANGED <<mState, mStopAll, found, seek, mHostArray, mHostCount, launchVars,
                   reported, mFinishedHostCount, mFinishedHost, callVars, exit,
                   running>>

CountRunning ==
    /\ main = "running"
    /\ sRunningTask' = sRunningTask + 1
    /\ main' = "scheduled"
    /\ UNCHANGED <<mState, mStopAll, found, seek, mHostArray, mHostCount, launchVars,
                   threadVars, callVars, exit, elsewhere>>

CountScheduled ==
    /\ main = "scheduled"
    /\ mScheduledHostCount' = mScheduledHostCount + 1
    /\ main' = "register"
    /\ UNCHANGED <<mState, mStopAll, found, seek, mHostArray, mHostCount, mTCBGroup,
                   threadVars, callVars, exit, running>>

Register ==
    /\ main = "register"
    /\ mTCBGroup' = mTCBGroup \cup {found[seek]}
    /\ seek' = seek + 1 /\ main' = "loop"
    /\ UNCHANGED <<mState, mStopAll, found, mHostArray, mHostCount, mScheduledHostCount,
                   threadVars, callVars, exit, running>>

\* Every thread of the list is joined, then the state is written.
JoinHosts ==
    /\ main = "drain"
    /\ \A h \in mTCBGroup : thread[h] = "done"
    /\ main' = "done" /\ mState' = "Stoped"
    /\ UNCHANGED <<mStopAll, found, seek, mHostArray, mHostCount, launchVars,
                   threadVars, callVars, exit, running>>

Main ==
    \/ InitScriptsFail \/ InitScriptsOk \/ ScanFail \/ ScanStart \/ ScanJoin
    \/ FillHost \/ CountHost \/ FillEnd \/ LoopTest \/ StopTest
    \/ LaunchHost \/ CountRunning \/ CountScheduled \/ Register \/ JoinHosts

-----------------------------------------------------------------------------
(* A host thread: ExecuteOneHost, then the tail of the thread proxy.       *)

\* TCPDetectService, then the test of Exit: a host stopped by now gets neither
\* scripts nor a report.
DetectService(h) ==
    /\ thread[h] = "detect"
    /\ thread' = [thread EXCEPT ![h] = IF exit[h] THEN "count" ELSE "scripts"]
    /\ UNCHANGED <<mainVars, launchVars, reported, mFinishedHostCount, mFinishedHost,
                   callVars, mStopAll, exit, running>>

ExecuteScriptOnHost(h) ==
    /\ thread[h] = "scripts"
    /\ thread' = [thread EXCEPT ![h] = "report"]
    /\ UNCHANGED <<mainVars, launchVars, reported, mFinishedHostCount, mFinishedHost,
                   callVars, mStopAll, exit, running>>

OutputHostResult(h) ==
    /\ thread[h] = "report"
    /\ reported' = reported \cup {h}
    /\ thread' = [thread EXCEPT ![h] = "count"]
    /\ UNCHANGED <<mainVars, launchVars, mFinishedHostCount, mFinishedHost,
                   callVars, mStopAll, exit, running>>

CountFinished(h) ==
    /\ thread[h] = "count"
    /\ mFinishedHostCount' = mFinishedHostCount + 1
    /\ thread' = [thread EXCEPT ![h] = "publish"]
    /\ UNCHANGED <<mainVars, launchVars, reported, mFinishedHost,
                   callVars, mStopAll, exit, running>>

PublishFinished(h) ==
    /\ thread[h] = "publish"
    /\ mFinishedHost' = Append(mFinishedHost, h)
    /\ thread' = [thread EXCEPT ![h] = "release"]
    /\ UNCHANGED <<mainVars, launchVars, reported, mFinishedHostCount,
                   callVars, mStopAll, exit, running>>

ReleaseRunning(h) ==
    /\ thread[h] = "release"
    /\ sRunningTask' = sRunningTask - 1
    /\ thread' = [thread EXCEPT ![h] = "done"]
    /\ UNCHANGED <<mainVars, launchVars, reported, mFinishedHostCount, mFinishedHost,
                   callVars, mStopAll, exit, elsewhere>>

HostThread(h) ==
    \/ DetectService(h) \/ ExecuteScriptOnHost(h) \/ OutputHostResult(h)
    \/ CountFinished(h) \/ PublishFinished(h) \/ ReleaseRunning(h)

-----------------------------------------------------------------------------
(* The callers.                                                            *)

\* Stop, first write: mStopAll = true, with no lock held.
StopFlag(c) ==
    /\ main # "none" /\ caller[c] = "idle"
    /\ mStopAll' = TRUE
    /\ caller' = [caller EXCEPT ![c] = "stopState"]
    /\ UNCHANGED <<mainVars, launchVars, threadVars, copy, exit, running>>

\* Stop, second write: mState = ScheduledStop, whatever it was.
StopState(c) ==
    /\ caller[c] = "stopState"
    /\ mState' = "ScheduledStop"
    /\ caller' = [caller EXCEPT ![c] = "stopCopy"]
    /\ UNCHANGED <<main, found, seek, mHostArray, mHostCount, launchVars, threadVars,
                   copy, mStopAll, exit, running>>

\* Stop copies the list under mLock and releases it.
StopCopy(c) ==
    /\ caller[c] = "stopCopy"
    /\ copy' = [copy EXCEPT ![c] = mTCBGroup]
    /\ caller' = [caller EXCEPT ![c] = "mark"]
    /\ UNCHANGED <<mainVars, launchVars, threadVars, mStopAll, exit, running>>

\* StopHostTask finds the TCB of one host under mLock; with none it returns
\* false and changes nothing.
StopHostFind(c, h) ==
    /\ main # "none" /\ caller[c] = "idle"
    /\ h \in mTCBGroup
    /\ copy' = [copy EXCEPT ![c] = {h}]
    /\ caller' = [caller EXCEPT ![c] = "mark"]
    /\ UNCHANGED <<mainVars, launchVars, threadVars, mStopAll, exit, running>>

\* One TCB of the local list is flagged, the lock being free.
MarkExit(c, h) ==
    /\ caller[c] = "mark" /\ h \in copy[c]
    /\ exit' = [exit EXCEPT ![h] = TRUE]
    /\ copy' = [copy EXCEPT ![c] = @ \ {h}]
    /\ UNCHANGED <<mainVars, launchVars, threadVars, caller, mStopAll, running>>

StopReturn(c) ==
    /\ caller[c] = "mark" /\ copy[c] = {}
    /\ caller' = [caller EXCEPT ![c] = "idle"]
    /\ UNCHANGED <<mainVars, launchVars, threadVars, copy, mStopAll, exit, running>>

Call(c) ==
    \/ StopFlag(c) \/ StopState(c) \/ StopCopy(c) \/ StopReturn(c)
    \/ \E h \in Host : StopHostFind(c, h) \/ MarkExit(c, h)

-----------------------------------------------------------------------------
(* The other tasks of the server.                                          *)

\* One of them counts a host it has started, or a thread of it ends.
OtherTask ==
    /\ \E change \in {1, -1} :
          /\ elsewhere' = elsewhere + change
          /\ sRunningTask' = sRunningTask + change
    /\ elsewhere' \in Elsewhere
    /\ UNCHANGED <<mainVars, launchVars, threadVars, callVars, mStopAll, exit>>

-----------------------------------------------------------------------------

Next ==
    \/ Start
    \/ Main
    \/ OtherTask
    \/ \E h \in Host : HostThread(h)
    \/ \E c \in Caller : Call(c)

Spec == Init /\ [][Next]_vars

\* Threads the operating system schedules; nobody has to start or stop a task.
Fairness ==
    /\ WF_vars(Main)
    /\ \A h \in Host : WF_vars(HostThread(h))

FairSpec == Spec /\ Fairness

-----------------------------------------------------------------------------
(* Properties.                                                             *)

\* Every variable has its type (the fields of class HostsTask and struct TCB).
TypeOK ==
    /\ main \in MainPc /\ mState \in TaskState /\ mStopAll \in BOOLEAN
    /\ found \in Seq(Host) /\ seek \in Nat \ {0}
    /\ mHostArray \in Seq(Host) /\ mFinishedHost \in Seq(Host)
    /\ mHostCount \in Nat /\ mScheduledHostCount \in Nat /\ mFinishedHostCount \in Nat
    /\ sRunningTask \in Int /\ elsewhere \in Elsewhere
    /\ mTCBGroup \in SUBSET Host /\ reported \in SUBSET Host
    /\ exit \in [Host -> BOOLEAN] /\ thread \in [Host -> ThreadPc]
    /\ caller \in [Caller -> CallerPc] /\ copy \in [Caller -> SUBSET Host]

\* The counters GetStatus reports agree with the threads up to the one host the
\* main thread is starting: a thread may finish and decrement s_RunningTask
\* before the main thread has counted it, and the published list lags its counter
\* by the threads between the two statements.  The running hosts are those of all
\* the server's tasks: every task reports the others' hosts as its own.
CountersConserved ==
    /\ Len(mHostArray) = mHostCount + (IF main = "count" THEN 1 ELSE 0)
    /\ mScheduledHostCount =
          Cardinality(mTCBGroup) + (IF main = "register" THEN 1 ELSE 0)
    /\ sRunningTask = Cardinality(Live) - (IF main = "running" THEN 1 ELSE 0) + elsewhere
    /\ mFinishedHostCount = Cardinality(Counted)
    /\ Len(mFinishedHost) = Cardinality(Published)

\* GetStatus says "Stoped" only when no host thread is left: every thread ever
\* started has published its host, and given back its running slot: what is still
\* counted as running belongs to other tasks.
StopedIsQuiet ==
    mState = "Stoped" =>
        /\ Live = {} /\ sRunningTask = elsewhere
        /\ Range(mFinishedHost) = Launched

\* When no Stop is under way and one has been called, at most one host thread
\* runs on without its Exit flag: the one started between the last test of
\* mStopAll and the registration of its TCB, which Stop's copy cannot contain.
StopMissesAtMostOne ==
    (mStopAll /\ \A c \in Caller : caller[c] = "idle") =>
        \A g, h \in Live : ~exit[g] /\ ~exit[h] => g = h

\* A host whose thread has left ExecuteOneHost has a report, unless its Exit
\* flag was set first; a host stopped during its scripts does get one.
ReportedUnlessStopped ==
    \A h \in Host :
        thread[h] \in {"count", "publish", "release", "done"} /\ h \notin reported => exit[h]

\* A task that ends without Stop has finished every host it discovered, or it
\* never started one: "Stoped" after a failed InitScripts, and "PortScan" for
\* ever after a failed init_host_scan_task.  Only a Stop leaves "ScheduledStop".
EndState ==
    main = "done" =>
        \/ mStopAll /\ mState \in {"Stoped", "ScheduledStop", "PortScan"}
        \/ mState = "Stoped" /\ Range(mFinishedHost) = Range(mHostArray)
        \/ mState = "PortScan" /\ Launched = {} /\ mHostArray = <<>>

\* etc/nvtengine.conf calls number_of_concurrent_tasks the number of hosts
\* scanned concurrently.
ConcurrencyLimit(limit) == Cardinality(Live) <= limit

\* A started task ends, with all its host threads, stopped or not.
TaskEnds == main # "none" ~> (main = "done" /\ Live = {})

\* The task implements the abstract scan task (refinement of ScanTask by
\* Execute, Stop and the host threads).
Abstract == INSTANCE ScanTask WITH
    open      <- main \notin {"none", "done"},
    closed    <- main = "done",
    cancelled <- mStopAll,
    granted   <- IF main = "launch" THEN {found[seek]} ELSE {},
    launched  <- Launched,
    finished  <- {h \in Host : thread[h] = "done"}

\* Every step of the task is a step of ScanTask or a stutter.
ImplementsScanTask == Abstract!Spec

-----------------------------------------------------------------------------
(* The inductive invariant behind the safety properties.                   *)

\* While a host is being started, seek points at it: it is not NULL.
Starting  == {"make", "launch", "running", "scheduled", "register"}
SeekValid == main \in Starting => seek <= Len(found)

\* Where the main thread stands determines which threads exist: those of the
\* list, plus the host at seek between its launch and its registration.
LaunchInv ==
    /\ IsInjective(found)
    /\ main \in {"none", "init", "scan", "sending", "fill", "count"} =>
          Launched = {} /\ mTCBGroup = {}
    /\ main \in {"loop"} \cup Starting =>
          mTCBGroup = {found[i] : i \in {j \in 1..Len(found) : j < seek}}
    /\ main \in {"loop", "make", "launch", "drain", "done"} => Launched = mTCBGroup
    /\ main \in {"running", "scheduled", "register"} =>
          Launched = mTCBGroup \cup {found[seek]}
    /\ main = "done" => Live = {}
    /\ mState = "Stoped" => main = "done"

\* The published list is the threads past their publication, each once.
FinishInv ==
    /\ Range(mFinishedHost) = Published
    /\ IsInjective(mFinishedHost)

\* The threads no Stop has flagged or still holds in its list.
Missed == {h \in Live : ~exit[h] /\ \A c \in Caller : caller[c] = "mark" => h \notin copy[c]}

\* Once every Stop under way has copied the list, the missed threads are at
\* most one, and none if the main thread may still start another.
StopInv ==
    (mStopAll /\ \A c \in Caller : caller[c] \notin {"stopState", "stopCopy"}) =>
        /\ \A g, h \in Missed : g = h
        /\ main \in {"make", "launch"} => Missed = {}
        /\ main \in {"running", "scheduled", "register"} => Missed \subseteq {found[seek]}

\* The hosts of the scan's list before position n.
FoundBefore(n) == {found[i] : i \in {j \in 1..Len(found) : j < n}}

\* The published hosts follow the scan's list; only a Stop writes ScheduledStop,
\* and without one every host of the list is started.  Inductive beside IndInv.
EndInv ==
    /\ \A c \in Caller : caller[c] \in {"stopState", "stopCopy"} => mStopAll
    /\ mState = "ScheduledStop" => mStopAll
    /\ main \in {"scan", "sending"} => mState \in {"PortScan", "ScheduledStop"}
    /\ main \in {"none", "init", "scan", "sending"} => mHostArray = <<>>
    /\ main = "fill" => Range(mHostArray) = FoundBefore(seek)
    /\ main = "count" => seek <= Len(found) /\ Range(mHostArray) = FoundBefore(seek + 1)
    /\ main \in {"loop", "drain"} \cup Starting => Range(mHostArray) = Range(found)
    /\ main = "drain" => mStopAll \/ Launched = Range(found)
    /\ EndState

\* The conjunction proved inductive in HostsTask_proofs (taskmgr.cc 45-278).
IndInv ==
    /\ TypeOK /\ SeekValid /\ LaunchInv /\ FinishInv /\ StopInv
    /\ CountersConserved /\ ReportedUnlessStopped

=============================================================================
