----------------------------- MODULE HostThread -----------------------------
(***************************************************************************)
(* A host thread (HostsTask::ExecuteOneHost): ServiceDetect composed with  *)
(* HostScripts.  Both read TCB::Exit, which Stop or StopHostTask of        *)
(* another thread sets at any moment; the script loop is not begun when it *)
(* is set by the end of detection.                                         *)
(***************************************************************************)
EXTENDS HostScripts, ScriptStorage

CONSTANTS TCPPorts, ThreadCount, Before, Finds     \* see ServiceDetect

\* The host whose thread this is; others, if any, keep still.
Self == CHOOSE h \in Host : TRUE

ASSUME SelfAssumption == Self \in Host

ASSUME DetectAssumption ==
    /\ ThreadCount \in Nat \ {0}
    /\ TCPPorts \in Seq(Range(TCPPorts)) /\ IsInjective(TCPPorts)
    /\ Before \in [Name -> Seq(Value)] /\ NoDuplicates(Before)
    /\ Finds \in [Range(TCPPorts) ->
                    Seq([op : {"set", "replace"}, name : Name, value : Value])]

VARIABLES
    at, storage, threads, examined, failed,     \* see ServiceDetect
    entered                                     \* ExecuteOneHost: detect, scripts, quit

Service == INSTANCE ServiceDetect WITH exit <- exit[Self]

detectVars == <<at, storage, threads, examined, failed>>
threadVars == <<vars, detectVars, entered>>

ThreadInit == Init /\ Service!Init /\ entered = "detect"

DetectService ==
    /\ entered = "detect"
    /\ Service!Detect
    /\ UNCHANGED <<vars, entered>>

\* if (tcb->Exit) return;
DetectEnd ==
    /\ entered = "detect" /\ at = "done"
    /\ entered' = IF exit[Self] THEN "quit" ELSE "scripts"
    /\ UNCHANGED <<vars, detectVars>>

ExecuteScripts ==
    /\ entered = "scripts"
    /\ HostStep(Self)
    /\ UNCHANGED <<detectVars, entered>>

Stop ==
    /\ SetExit(Self)
    /\ UNCHANGED <<detectVars, entered>>

ThreadStep == DetectService \/ DetectEnd \/ ExecuteScripts

ThreadNext == ThreadStep \/ Stop

ThreadSpec == ThreadInit /\ [][ThreadNext]_threadVars

\* The thread and those it starts run, and every execution of a script ends
\* (ScriptEnds of ScriptVM).
FairThreadSpec == ThreadSpec /\ WF_threadVars(ThreadStep)

-----------------------------------------------------------------------------
(* Properties.                                                             *)

\* A host thread that was never stopped has examined every open port once, but
\* for those of a detection thread that failed, before it runs its first script,
\* and has seen every script once when it ends (ExecuteOneHost).
NothingSkipped ==
    /\ Service!PortsExamined
    /\ pc[Self] # "next" \/ index[Self] > 0 => at = "done"
    /\ EveryScriptSeen

DetectedLikeOneThread == Service!DetectedLikeOneThread

\* Nothing of the loop is done before the end of detection.
EnteredInv ==
    /\ entered = "detect" => pc[Self] = "next" /\ index[Self] = 0
    /\ entered # "detect" => at = "done"

ThreadInv == TypeOK /\ SeenInv /\ Service!DetectInv /\ EnteredInv

\* ExecuteOneHost returns, stopped or not, whichever detection threads fail.
ThreadEnds == <>(entered = "quit" \/ pc[Self] = "end")

=============================================================================
