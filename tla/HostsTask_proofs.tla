--------------------------- MODULE HostsTask_proofs ---------------------------
(***************************************************************************)
(* Proofs about HostsTask, for every finite set of hosts and every set of  *)
(* callers.                                                                *)
(***************************************************************************)
EXTENDS HostsTask, FiniteSetTheorems, SequenceTheorems, TLAPS

\* The lists are extended one element at a time.
LEMMA AppendRange ==
    ASSUME NEW S, NEW s \in Seq(S), NEW e \in S
    PROVE  /\ Append(s, e) \in Seq(S)
           /\ Len(Append(s, e)) = Len(s) + 1
           /\ Range(Append(s, e)) = Range(s) \cup {e}
           /\ IsInjective(s) /\ e \notin Range(s) => IsInjective(Append(s, e))
<1>1. /\ Append(s, e) \in Seq(S) /\ Len(Append(s, e)) = Len(s) + 1
      /\ \A i \in 1..Len(s) : Append(s, e)[i] = s[i]
      /\ Append(s, e)[Len(s) + 1] = e
      /\ DOMAIN s = 1..Len(s) /\ DOMAIN Append(s, e) = 1..(Len(s) + 1)
  BY AppendProperties
<1>2. Len(s) \in Nat
  OBVIOUS
<1>3. Range(Append(s, e)) = Range(s) \cup {e}
  BY <1>1, <1>2 DEF Range
<1>4. IsInjective(s) /\ e \notin Range(s) => IsInjective(Append(s, e))
  BY <1>1, <1>2 DEF Range, IsInjective
<1> QED BY <1>1, <1>3, <1>4

LEMMA TypeInit ==
    ASSUME Init PROVE TypeOK /\ SeekValid
<1>1. /\ exit \in [Host -> BOOLEAN] /\ thread \in [Host -> ThreadPc]
      /\ caller \in [Caller -> CallerPc] /\ copy \in [Caller -> SUBSET Host]
  BY Zenon DEF Init, ThreadPc, CallerPc
<1>2. /\ main \in MainPc /\ mState \in TaskState /\ mStopAll \in BOOLEAN
  BY DEF Init, MainPc, TaskState
<1>3. /\ found \in Seq(Host) /\ seek \in Nat \ {0}
      /\ mHostArray \in Seq(Host) /\ mFinishedHost \in Seq(Host)
      /\ mHostCount \in Nat /\ mScheduledHostCount \in Nat /\ mFinishedHostCount \in Nat
      /\ mTCBGroup \in SUBSET Host /\ reported \in SUBSET Host
  BY DEF Init
<1>4. elsewhere \in Elsewhere /\ sRunningTask \in Int
  BY OthersAssumption DEF Init, Elsewhere
<1> QED BY <1>1, <1>2, <1>3, <1>4 DEF TypeOK, Init, SeekValid, Starting

LEMMA TypeStep ==
    ASSUME TypeOK, SeekValid, [Next]_vars PROVE TypeOK' /\ SeekValid'
<1> USE DEF SeekValid, Starting, running, Elsewhere
<1>1. CASE Start
  BY <1>1 DEF Start, TypeOK, launchVars, threadVars, callVars, MainPc, TaskState
<1>2. CASE Main
  <2> USE DEF launchVars, threadVars, callVars, MainPc, TaskState
  <2>1. CASE ScanJoin
    <3>1. PICK n \in 0..Cardinality(Host) : \E list \in [1..n -> Host] : found' = list
      BY <2>1 DEF ScanJoin
    <3>2. n \in Nat
      BY <3>1, HostFinite, FS_CardinalityType
    <3>3. found' \in Seq(Host)
      BY <3>1, <3>2
    <3> QED BY <3>3, <2>1 DEF ScanJoin, TypeOK
  <2>2. CASE FillHost
    BY <2>2 DEF FillHost, TypeOK
  <2>3. CASE LoopTest
    BY <2>3 DEF LoopTest, TypeOK
  <2>4. CASE InitScriptsFail
    BY <2>4 DEF InitScriptsFail, TypeOK
  <2>5. CASE InitScriptsOk
    BY <2>5 DEF InitScriptsOk, TypeOK
  <2>6. CASE ScanFail \/ ScanStart
    BY <2>6 DEF ScanFail, ScanStart, TypeOK
  <2>7. CASE CountHost \/ FillEnd
    BY <2>7 DEF CountHost, FillEnd, TypeOK
  <2>8. CASE StopTest \/ CountRunning \/ CountScheduled
    BY <2>8 DEF StopTest, CountRunning, CountScheduled, TypeOK
  <2>9. CASE LaunchHost
    BY <2>9 DEF LaunchHost, ThreadPc, TypeOK
  <2>10. CASE Register
    BY <2>10 DEF Register, TypeOK
  <2>11. CASE JoinHosts
    BY <2>11 DEF JoinHosts, TypeOK
  <2> QED BY <1>2, <2>1, <2>2, <2>3, <2>4, <2>5, <2>6, <2>7, <2>8, <2>9, <2>10, <2>11
          DEF Main
<1>3. ASSUME NEW h \in Host, HostThread(h) PROVE TypeOK' /\ SeekValid'
  <2> USE DEF TypeOK, mainVars, launchVars, callVars, ThreadPc
  <2>1. CASE DetectService(h)
    BY <2>1 DEF DetectService
  <2>2. CASE ExecuteScriptOnHost(h)
    BY <2>2 DEF ExecuteScriptOnHost
  <2>3. CASE OutputHostResult(h)
    BY <2>3 DEF OutputHostResult
  <2>4. CASE CountFinished(h)
    BY <2>4 DEF CountFinished
  <2>5. CASE PublishFinished(h)
    BY <2>5 DEF PublishFinished
  <2>6. CASE ReleaseRunning(h)
    BY <2>6 DEF ReleaseRunning
  <2> QED BY <1>3, <2>1, <2>2, <2>3, <2>4, <2>5, <2>6 DEF HostThread
<1>4. ASSUME NEW c \in Caller, Call(c) PROVE TypeOK' /\ SeekValid'
  <2> USE DEF TypeOK, mainVars, launchVars, threadVars, CallerPc
  <2>1. CASE StopFlag(c)
    BY <2>1 DEF StopFlag
  <2>2. CASE StopState(c)
    BY <2>2 DEF StopState, TaskState
  <2>3. CASE StopCopy(c)
    BY <2>3 DEF StopCopy
  <2>4. ASSUME NEW h \in Host, StopHostFind(c, h) PROVE TypeOK' /\ SeekValid'
    BY <2>4 DEF StopHostFind
  <2>5. ASSUME NEW h \in Host, MarkExit(c, h) PROVE TypeOK' /\ SeekValid'
    BY <2>5 DEF MarkExit
  <2>6. CASE StopReturn(c)
    BY <2>6 DEF StopReturn
  <2> QED BY <1>4, <2>1, <2>2, <2>3, <2>4, <2>5, <2>6 DEF Call
<1>5. CASE OtherTask
  BY <1>5, OthersAssumption DEF OtherTask, TypeOK, mainVars, launchVars, threadVars, callVars
<1>6. CASE UNCHANGED vars
  BY <1>6 DEF vars, TypeOK, mainVars, launchVars, threadVars, callVars
<1> QED BY <1>1, <1>2, <1>3, <1>4, <1>5, <1>6 DEF Next

-----------------------------------------------------------------------------
(* What a step of a host thread and of a caller leaves alone.              *)

LEMMA HostThreadFrame ==
    ASSUME TypeOK, NEW h \in Host, HostThread(h)
    PROVE  /\ UNCHANGED <<mainVars, launchVars, callVars, mStopAll, exit>>
           /\ thread[h] \notin {"idle", "done"}
           /\ thread'[h] # "idle"
           /\ \A g \in Host : g # h => thread'[g] = thread[g]
           /\ Launched' = Launched
           /\ Live' = IF thread[h] = "release" THEN Live \ {h} ELSE Live
<1> USE DEF TypeOK, Launched, Live, ThreadPc
<1>1. CASE DetectService(h)
  BY <1>1 DEF DetectService
<1>2. CASE ExecuteScriptOnHost(h)
  BY <1>2 DEF ExecuteScriptOnHost
<1>3. CASE OutputHostResult(h)
  BY <1>3 DEF OutputHostResult
<1>4. CASE CountFinished(h)
  BY <1>4 DEF CountFinished
<1>5. CASE PublishFinished(h)
  BY <1>5 DEF PublishFinished
<1>6. CASE ReleaseRunning(h)
  BY <1>6 DEF ReleaseRunning
<1> QED BY <1>1, <1>2, <1>3, <1>4, <1>5, <1>6 DEF HostThread

LEMMA CallFrame ==
    ASSUME TypeOK, NEW c \in Caller, Call(c)
    PROVE  /\ UNCHANGED <<main, found, seek, mHostArray, mHostCount, launchVars,
                          threadVars, running>>
           /\ mState' \in {mState, "ScheduledStop"}
           /\ \A g \in Host : exit[g] => exit'[g]
<1> USE DEF mainVars, TypeOK
<1>1. CASE StopFlag(c)
  BY <1>1 DEF StopFlag
<1>2. CASE StopState(c)
  BY <1>2 DEF StopState
<1>3. CASE StopCopy(c)
  BY <1>3 DEF StopCopy
<1>4. CASE StopReturn(c)
  BY <1>4 DEF StopReturn
<1>5. CASE \E h \in Host : StopHostFind(c, h)
  BY <1>5 DEF StopHostFind
<1>6. CASE \E h \in Host : MarkExit(c, h)
  BY <1>6 DEF MarkExit
<1> QED BY <1>1, <1>2, <1>3, <1>4, <1>5, <1>6 DEF Call

-----------------------------------------------------------------------------
(* The threads and the list.                                               *)

LEMMA LaunchStep ==
    ASSUME TypeOK, SeekValid, LaunchInv, [Next]_vars
    PROVE  LaunchInv'
<1> USE DEF LaunchInv, Starting
<1>1. CASE Start
  BY <1>1 DEF Start, launchVars, threadVars, Launched, Live
<1>2. CASE Main
  <2> USE DEF launchVars, threadVars, Launched, Live, TypeOK
  <2>1. CASE ScanJoin
    BY <2>1 DEF ScanJoin
  <2>2. CASE InitScriptsFail \/ InitScriptsOk \/ ScanFail \/ ScanStart
    BY <2>2 DEF InitScriptsFail, InitScriptsOk, ScanFail, ScanStart
  <2>3. CASE FillHost \/ CountHost
    BY <2>3 DEF FillHost, CountHost
  <2>4. CASE FillEnd
    BY <2>4 DEF FillEnd
  <2>5. CASE LoopTest
    BY <2>5 DEF LoopTest
  <2>6. CASE StopTest
    BY <2>6 DEF StopTest
  <2>7. CASE LaunchHost
    <3>1. found[seek] \in Host
      BY <2>7 DEF LaunchHost, SeekValid
    <3>2. Launched' = Launched \cup {found[seek]}
      BY <2>7, <3>1 DEF LaunchHost, ThreadPc
    <3> QED BY <2>7, <3>2 DEF LaunchHost
  <2>8. CASE CountRunning \/ CountScheduled
    BY <2>8 DEF CountRunning, CountScheduled
  <2>9. CASE Register
    BY <2>9 DEF Register, SeekValid
  <2>10. CASE JoinHosts
    BY <2>10 DEF JoinHosts
  <2> QED BY <1>2, <2>1, <2>2, <2>3, <2>4, <2>5, <2>6, <2>7, <2>8, <2>9, <2>10 DEF Main
<1>3. ASSUME NEW h \in Host, HostThread(h) PROVE LaunchInv'
  BY <1>3, HostThreadFrame DEF mainVars, launchVars, Live
<1>4. ASSUME NEW c \in Caller, Call(c) PROVE LaunchInv'
  BY <1>4, CallFrame DEF launchVars, threadVars, Launched, Live
<1>5. CASE OtherTask \/ UNCHANGED vars
  BY <1>5 DEF OtherTask, vars, mainVars, launchVars, threadVars, Launched, Live
<1> QED BY <1>1, <1>2, <1>3, <1>4, <1>5 DEF Next

-----------------------------------------------------------------------------
(* The published list, the reports and the flags.                          *)

\* The host at seek is in neither the list nor the running threads, because
\* the scanner reports an address once.
LEMMA SeekHostFresh ==
    ASSUME TypeOK, LaunchInv, seek <= Len(found), main \in {"loop", "make", "launch"}
    PROVE  found[seek] \in Host /\ found[seek] \notin Launched
<1>1. seek \in 1..Len(found) /\ DOMAIN found = 1..Len(found) /\ Len(found) \in Nat
  BY DEF TypeOK
<1>2. ASSUME NEW j \in 1..Len(found), j < seek PROVE found[j] # found[seek]
  BY <1>1, <1>2 DEF LaunchInv, IsInjective
<1> QED BY <1>1, <1>2 DEF LaunchInv, TypeOK, Starting

\* Only PublishFinished touches the published list; the main thread starts a
\* host that has never run.
LEMMA FinishStep ==
    ASSUME TypeOK, SeekValid, LaunchInv, FinishInv, ReportedUnlessStopped, [Next]_vars
    PROVE  FinishInv' /\ ReportedUnlessStopped'
<1> USE DEF FinishInv, ReportedUnlessStopped, Published, TypeOK
<1>1. CASE Start
  BY <1>1 DEF Start, threadVars
<1>2. CASE Main
  <2>1. CASE LaunchHost
    <3>1. found[seek] \in Host /\ found[seek] \notin Launched
      BY <2>1, SeekHostFresh DEF LaunchHost, SeekValid, Starting
    <3> QED BY <2>1, <3>1 DEF LaunchHost, Launched
  <2>2. CASE LoopTest
    <3>1. ASSUME seek <= Len(found), ~mStopAll
          PROVE  found[seek] \in Host /\ found[seek] \notin Launched
      BY <2>2, <3>1, SeekHostFresh DEF LoopTest
    <3> QED BY <2>2, <3>1 DEF LoopTest, threadVars, Launched
  <2>3. CASE ScanJoin
    BY <2>3 DEF ScanJoin, threadVars
  <2>4. ASSUME UNCHANGED <<threadVars, exit>> PROVE FinishInv' /\ ReportedUnlessStopped'
    BY <2>4 DEF threadVars
  <2> QED BY <1>2, <2>1, <2>2, <2>3, <2>4 DEF Main, InitScriptsFail, InitScriptsOk,
             ScanFail, ScanStart, FillHost, CountHost, FillEnd, StopTest, CountRunning,
             CountScheduled, Register, JoinHosts
<1>3. ASSUME NEW h \in Host, HostThread(h) PROVE FinishInv' /\ ReportedUnlessStopped'
  <2> USE DEF ThreadPc
  <2>1. CASE PublishFinished(h)
    <3>1. h \notin Range(mFinishedHost)
      BY <2>1 DEF PublishFinished
    <3>2. Range(mFinishedHost') = Range(mFinishedHost) \cup {h} /\ IsInjective(mFinishedHost')
      BY <2>1, <3>1, AppendRange DEF PublishFinished
    <3> QED BY <2>1, <3>2 DEF PublishFinished
  <2>2. CASE DetectService(h)
    BY <2>2 DEF DetectService
  <2>3. CASE ExecuteScriptOnHost(h)
    BY <2>3 DEF ExecuteScriptOnHost
  <2>4. CASE OutputHostResult(h)
    BY <2>4 DEF OutputHostResult
  <2>5. CASE CountFinished(h)
    BY <2>5 DEF CountFinished
  <2>6. CASE ReleaseRunning(h)
    BY <2>6 DEF ReleaseRunning
  <2> QED BY <1>3, <2>1, <2>2, <2>3, <2>4, <2>5, <2>6 DEF HostThread
<1>4. ASSUME NEW c \in Caller, Call(c) PROVE FinishInv' /\ ReportedUnlessStopped'
  BY <1>4, CallFrame DEF threadVars
<1>5. CASE OtherTask \/ UNCHANGED vars
  BY <1>5 DEF OtherTask, vars, threadVars
<1> QED BY <1>1, <1>2, <1>3, <1>4, <1>5 DEF Next

\* A Stop that has copied the list holds or has flagged every registered host.
LEMMA StopStep ==
    ASSUME TypeOK, SeekValid, LaunchInv, StopInv, [Next]_vars
    PROVE  StopInv'
<1> USE DEF StopInv, Starting
<1>1. CASE Start
  BY <1>1 DEF Start, threadVars, callVars, Missed, Live
<1>2. CASE Main
  <2> USE DEF threadVars, callVars, Missed, Live, TypeOK
  <2>1. CASE ScanJoin \/ ScanFail \/ ScanStart \/ InitScriptsFail \/ InitScriptsOk
    BY <2>1 DEF ScanJoin, ScanFail, ScanStart, InitScriptsFail, InitScriptsOk
  <2>2. CASE FillHost \/ CountHost \/ FillEnd
    BY <2>2 DEF FillHost, CountHost, FillEnd
  <2>3. CASE LoopTest
    BY <2>3 DEF LoopTest
  <2>4. CASE StopTest
    BY <2>4 DEF StopTest
  <2>5. CASE LaunchHost
    BY <2>5 DEF LaunchHost
  <2>6. CASE CountRunning \/ CountScheduled \/ Register
    BY <2>6 DEF CountRunning, CountScheduled, Register
  <2>7. CASE JoinHosts
    BY <2>7 DEF JoinHosts
  <2> QED BY <1>2, <2>1, <2>2, <2>3, <2>4, <2>5, <2>6, <2>7 DEF Main
<1>3. ASSUME NEW h \in Host, HostThread(h) PROVE StopInv'
  <2>1. Missed' \subseteq Missed
    BY <1>3, HostThreadFrame DEF Missed, Live, callVars
  <2> QED BY <1>3, <2>1, HostThreadFrame DEF mainVars, callVars
<1>4. ASSUME NEW c \in Caller, Call(c) PROVE StopInv'
  <2> USE DEF TypeOK, mainVars, threadVars, CallerPc, Missed, Live
  <2>1. CASE StopFlag(c)
    BY <2>1 DEF StopFlag
  <2>2. CASE StopState(c)
    BY <2>2 DEF StopState
  <2>3. CASE StopCopy(c)
    <3>1. Missed' \subseteq Launched \ mTCBGroup
      BY <2>3 DEF StopCopy, Launched
    <3> QED BY <2>3, <3>1 DEF StopCopy, LaunchInv, Launched, MainPc
  <2>4. CASE StopReturn(c)
    BY <2>4 DEF StopReturn
  <2>5. ASSUME NEW h \in Host, StopHostFind(c, h) PROVE StopInv'
    BY <2>5 DEF StopHostFind
  <2>6. ASSUME NEW h \in Host, MarkExit(c, h) PROVE StopInv'
    BY <2>6 DEF MarkExit
  <2> QED BY <1>4, <2>1, <2>2, <2>3, <2>4, <2>5, <2>6 DEF Call
<1>5. CASE OtherTask \/ UNCHANGED vars
  BY <1>5 DEF OtherTask, vars, mainVars, threadVars, callVars, Missed, Live
<1> QED BY <1>1, <1>2, <1>3, <1>4, <1>5 DEF Next

-----------------------------------------------------------------------------
(* The counters.                                                           *)

\* One host more or less in a set of hosts.
LEMMA HostCount ==
    ASSUME NEW S \in SUBSET Host
    PROVE  Cardinality(S) \in Nat
BY HostFinite, FS_Subset, FS_CardinalityType

LEMMA OneHost ==
    ASSUME NEW S \in SUBSET Host, NEW h \in Host
    PROVE  /\ h \notin S => Cardinality(S \cup {h}) = Cardinality(S) + 1
           /\ h \in S => Cardinality(S \ {h}) = Cardinality(S) - 1
<1>1. IsFiniteSet(S)
  BY HostFinite, FS_Subset
<1> QED BY <1>1, FS_CardinalityType, FS_AddElement, FS_RemoveElement

\* Each counter moves in the step that moves its set, or one step before or after.
LEMMA CounterStep ==
    ASSUME TypeOK, SeekValid, LaunchInv, CountersConserved, [Next]_vars
    PROVE  CountersConserved'
<1>0. sRunningTask \in Int /\ elsewhere \in Int
  BY OthersAssumption DEF TypeOK, Elsewhere
<1>1. ASSUME UNCHANGED <<thread, sRunningTask, elsewhere, mFinishedHostCount, mFinishedHost>>,
             (main = "running") <=> (main' = "running"),
             Len(mHostArray') = mHostCount' + (IF main' = "count" THEN 1 ELSE 0),
             mScheduledHostCount' =
                Cardinality(mTCBGroup') + (IF main' = "register" THEN 1 ELSE 0)
      PROVE  CountersConserved'
  BY <1>1 DEF CountersConserved, Live, Counted, Published
<1>2. CASE Start
  BY <1>1, <1>2 DEF Start, launchVars, threadVars, running, CountersConserved
<1>3. CASE Main
  <2> USE DEF CountersConserved, launchVars, threadVars, running
  <2>1. CASE FillHost
    <3>1. found[seek] \in Host
      BY <2>1 DEF FillHost, TypeOK
    <3>2. Len(mHostArray') = Len(mHostArray) + 1
      BY <2>1, <3>1, AppendRange DEF FillHost, TypeOK
    <3>3. mHostCount' = mHostCount /\ main' = "count" /\ main = "fill"
          /\ Len(mHostArray) = mHostCount /\ UNCHANGED <<launchVars, threadVars, running>>
      BY <2>1 DEF FillHost, TypeOK
    <3> HIDE DEF CountersConserved
    <3> QED BY <1>1, <3>2, <3>3 DEF CountersConserved
  <2>2. CASE CountHost
    BY <1>1, <2>2 DEF CountHost, TypeOK
  <2>3. CASE LaunchHost
    <3>1. found[seek] \in Host /\ found[seek] \notin Launched
      BY <2>3, SeekHostFresh DEF LaunchHost, SeekValid, Starting
    <3>2. /\ Live' = Live \cup {found[seek]} /\ Counted' = Counted /\ Published' = Published
      BY <2>3, <3>1 DEF LaunchHost, TypeOK, Live, Launched, Counted, Published
    <3>3. found[seek] \notin Live /\ Live \in SUBSET Host
      BY <3>1 DEF Live, Launched
    <3>4. Cardinality(Live') = Cardinality(Live) + 1 /\ Cardinality(Live) \in Nat
      BY <3>1, <3>2, <3>3, OneHost, HostCount
    <3> QED BY <1>0, <2>3, <3>2, <3>4 DEF LaunchHost
  <2>4. CASE CountRunning
    <3>1. Live' = Live /\ Counted' = Counted /\ Published' = Published
      BY <2>4 DEF CountRunning, Live, Counted, Published
    <3>2. Cardinality(Live) \in Nat
      BY HostCount DEF Live
    <3> QED BY <1>0, <2>4, <3>1, <3>2 DEF CountRunning
  <2>5. CASE CountScheduled
    <3>1. Cardinality(mTCBGroup) \in Nat
      BY HostCount DEF TypeOK
    <3> QED BY <1>1, <2>5, <3>1 DEF CountScheduled
  <2>6. CASE Register
    <3>1. found[seek] \in Host /\ found[seek] \notin mTCBGroup
      <4>1. seek \in 1..Len(found) /\ DOMAIN found = 1..Len(found) /\ Len(found) \in Nat
        BY <2>6 DEF Register, TypeOK, SeekValid, Starting
      <4>2. ASSUME NEW j \in 1..Len(found), j < seek PROVE found[j] # found[seek]
        BY <4>1, <4>2 DEF LaunchInv, IsInjective
      <4> QED BY <2>6, <4>1, <4>2 DEF Register, LaunchInv, TypeOK, Starting
    <3>2. Cardinality(mTCBGroup') = Cardinality(mTCBGroup) + 1
      BY <2>6, <3>1, OneHost DEF Register, TypeOK
    <3>3. Cardinality(mTCBGroup) \in Nat
      BY HostCount DEF TypeOK
    <3> QED BY <1>1, <2>6, <3>2, <3>3 DEF Register
  <2>7. CASE InitScriptsFail \/ InitScriptsOk \/ ScanFail \/ ScanStart \/ ScanJoin
    BY <1>1, <2>7 DEF InitScriptsFail, InitScriptsOk, ScanFail, ScanStart, ScanJoin
  <2>8. CASE FillEnd \/ LoopTest \/ StopTest \/ JoinHosts
    BY <1>1, <2>8 DEF FillEnd, LoopTest, StopTest, JoinHosts
  <2> QED BY <1>3, <2>1, <2>2, <2>3, <2>4, <2>5, <2>6, <2>7, <2>8 DEF Main
<1>4. ASSUME NEW h \in Host, HostThread(h) PROVE CountersConserved'
  <2>1. /\ Len(mHostArray') = mHostCount' + (IF main' = "count" THEN 1 ELSE 0)
        /\ mScheduledHostCount' =
              Cardinality(mTCBGroup') + (IF main' = "register" THEN 1 ELSE 0)
        /\ main' = main
    BY <1>4, HostThreadFrame DEF CountersConserved, mainVars, launchVars
  <2> USE DEF TypeOK, ThreadPc
  <2>2. CASE DetectService(h) \/ ExecuteScriptOnHost(h) \/ OutputHostResult(h)
    <3>1. Live' = Live /\ Counted' = Counted /\ Published' = Published
      BY <2>2 DEF Live, Counted, Published, DetectService, ExecuteScriptOnHost,
                  OutputHostResult
    <3>2. UNCHANGED <<running, mFinishedHostCount, mFinishedHost>>
      BY <2>2 DEF DetectService, ExecuteScriptOnHost, OutputHostResult
    <3> QED BY <2>1, <3>1, <3>2 DEF CountersConserved, running
  <2>3. CASE CountFinished(h)
    <3>1. Live' = Live /\ Counted' = Counted \cup {h} /\ h \notin Counted
          /\ Published' = Published
      BY <2>3 DEF CountFinished, Live, Counted, Published
    <3>2. Cardinality(Counted') = Cardinality(Counted) + 1
      BY <3>1, OneHost DEF Counted
    <3> QED BY <2>1, <2>3, <3>1, <3>2 DEF CountersConserved, CountFinished, running
  <2>4. CASE PublishFinished(h)
    <3>1. Live' = Live /\ Counted' = Counted
          /\ Published' = Published \cup {h} /\ h \notin Published
      BY <2>4 DEF PublishFinished, Live, Counted, Published
    <3>2. Cardinality(Published') = Cardinality(Published) + 1
      BY <3>1, OneHost DEF Published
    <3>3. Len(mFinishedHost') = Len(mFinishedHost) + 1
      BY <2>4, AppendRange DEF PublishFinished
    <3> QED BY <2>1, <2>4, <3>1, <3>2, <3>3 DEF CountersConserved, PublishFinished, running
  <2>5. CASE ReleaseRunning(h)
    <3>1. Live' = Live \ {h} /\ h \in Live /\ Counted' = Counted /\ Published' = Published
      BY <2>5 DEF ReleaseRunning, Live, Counted, Published
    <3>2. Live \in SUBSET Host
      BY DEF Live
    <3>3. Cardinality(Live') = Cardinality(Live) - 1 /\ Cardinality(Live) \in Nat
      BY <3>1, <3>2, OneHost, HostCount
    <3> QED BY <1>0, <2>1, <2>5, <3>1, <3>3 DEF CountersConserved, ReleaseRunning
  <2> QED BY <1>4, <2>2, <2>3, <2>4, <2>5 DEF HostThread
<1>5. ASSUME NEW c \in Caller, Call(c) PROVE CountersConserved'
  BY <1>1, <1>5, CallFrame DEF launchVars, threadVars, running, CountersConserved
<1>6. CASE OtherTask
  <2>1. /\ UNCHANGED <<main, mHostArray, mHostCount, mScheduledHostCount, mTCBGroup>>
        /\ Live' = Live /\ Counted' = Counted /\ Published' = Published
        /\ UNCHANGED <<mFinishedHostCount, mFinishedHost>>
    BY <1>6 DEF OtherTask, mainVars, launchVars, threadVars, Live, Counted, Published
  <2>2. PICK k \in Int : sRunningTask' = sRunningTask + k /\ elsewhere' = elsewhere + k
    BY <1>6 DEF OtherTask
  <2>3. Cardinality(Live) \in Nat /\ Cardinality(Live') = Cardinality(Live)
    BY <2>1, HostCount DEF Live
  <2>4. sRunningTask = Cardinality(Live) - (IF main = "running" THEN 1 ELSE 0) + elsewhere
    BY DEF CountersConserved
  <2>5. sRunningTask' = Cardinality(Live') - (IF main' = "running" THEN 1 ELSE 0) + elsewhere'
    <3>1. PICK c \in Int : c = Cardinality(Live) - (IF main = "running" THEN 1 ELSE 0)
      BY <2>3
    <3>2. sRunningTask = c + elsewhere
      BY <2>4, <3>1
    <3>3. sRunningTask' = c + elsewhere'
      BY <1>0, <2>2, <3>2
    <3> QED BY <2>1, <2>3, <3>1, <3>3
  <2>6. /\ Len(mHostArray') = mHostCount' + (IF main' = "count" THEN 1 ELSE 0)
        /\ mScheduledHostCount' = Cardinality(mTCBGroup') + (IF main' = "register" THEN 1 ELSE 0)
    BY <2>1 DEF CountersConserved
  <2>7. mFinishedHostCount' = Cardinality(Counted') /\ Len(mFinishedHost') = Cardinality(Published')
    BY <2>1 DEF CountersConserved
  <2> QED BY <2>5, <2>6, <2>7 DEF CountersConserved
<1>7. CASE UNCHANGED vars
  BY <1>1, <1>7 DEF vars, mainVars, launchVars, threadVars, running, CountersConserved
<1> QED BY <1>2, <1>3, <1>4, <1>5, <1>6, <1>7 DEF Next

-----------------------------------------------------------------------------
(* The theorems.                                                           *)

\* The conjunction of the invariants above is inductive.
THEOREM IndInvariant == Spec => []IndInv
<1>1. Init => IndInv
  <2> SUFFICES ASSUME Init PROVE IndInv
    OBVIOUS
  <2>1. TypeOK /\ SeekValid
    BY TypeInit
  <2>2. Launched = {} /\ Live = {} /\ Missed = {}
    BY DEF Init, Launched, Live, Missed
  <2>3. IsInjective(found) /\ IsInjective(mFinishedHost) /\ Range(mFinishedHost) = {}
    BY DEF Init, IsInjective, Range
  <2>4. LaunchInv /\ StopInv
    BY <2>2, <2>3 DEF Init, LaunchInv, StopInv, Starting
  <2>5. Counted = {} /\ Published = {}
    BY DEF Init, Counted, Published
  <2>6. FinishInv /\ ReportedUnlessStopped
    BY <2>3, <2>5 DEF Init, FinishInv, ReportedUnlessStopped
  <2>7. CountersConserved
    <3>1. Cardinality({}) = 0
      BY FS_EmptySet
    <3>2. Len(mHostArray) = 0 /\ Len(mFinishedHost) = 0
      BY DEF Init
    <3>3. elsewhere \in Int
      BY OthersAssumption DEF Init, Elsewhere
    <3> QED BY <2>2, <2>5, <3>1, <3>2, <3>3 DEF Init, CountersConserved
  <2> QED BY <2>1, <2>4, <2>6, <2>7 DEF IndInv
<1>2. IndInv /\ [Next]_vars => IndInv'
  BY TypeStep, LaunchStep, FinishStep, StopStep, CounterStep DEF IndInv
<1> QED BY <1>1, <1>2, PTL DEF Spec

\* Type correctness: every operation of the task keeps its fields in their types.
THEOREM TypeCorrect == Spec => []TypeOK
<1>1. IndInv => TypeOK
  BY DEF IndInv
<1> QED BY <1>1, IndInvariant, PTL

\* The counters of GetStatus agree with the threads, whatever the interleaving.
THEOREM CountersCorrect == Spec => []CountersConserved
<1>1. IndInv => CountersConserved
  BY DEF IndInv
<1> QED BY <1>1, IndInvariant, PTL

\* "Stoped" is reported only when no thread of the task is left.
THEOREM StopedQuiet == Spec => []StopedIsQuiet
<1>1. IndInv => StopedIsQuiet
  <2> SUFFICES ASSUME IndInv, mState = "Stoped" 
               PROVE  /\ Live = {} /\ sRunningTask = elsewhere
                      /\ Range(mFinishedHost) = Launched
    BY DEF StopedIsQuiet
  <2>1. main = "done" /\ Live = {}
    BY DEF IndInv, LaunchInv
  <2>2. sRunningTask = elsewhere
    <3>1. elsewhere \in Int
      BY OthersAssumption DEF IndInv, TypeOK, Elsewhere
    <3> QED BY <2>1, <3>1, FS_EmptySet DEF IndInv, CountersConserved
  <2>3. Launched = Published
    BY <2>1 DEF Launched, Live, Published
  <2> QED BY <2>1, <2>2, <2>3 DEF IndInv, FinishInv
<1> QED BY <1>1, IndInvariant, PTL

\* Stop leaves at most one host thread running without its Exit flag, for any
\* number of hosts and of concurrent Stop and StopHostTask calls.
THEOREM StopMissesOne == Spec => []StopMissesAtMostOne
<1>1. IndInv => StopMissesAtMostOne
  BY DEF IndInv, StopInv, Missed, StopMissesAtMostOne
<1> QED BY <1>1, IndInvariant, PTL

\* A host that left ExecuteOneHost without a report was stopped.
THEOREM ReportsComplete == Spec => []ReportedUnlessStopped
<1>1. IndInv => ReportedUnlessStopped
  BY DEF IndInv
<1> QED BY <1>1, IndInvariant, PTL

-----------------------------------------------------------------------------
(* The task implements ScanTask.                                           *)

Finished == {h \in Host : thread[h] = "done"}
Granted  == IF main = "launch" THEN {found[seek]} ELSE {}
Open     == main \notin {"none", "done"}

\* A step that moves neither the threads' beginning and end, nor the main thread
\* into or out of "launch", "none" and "done", nor mStopAll is a stutter.
LEMMA Stutter ==
    ASSUME Open' = Open, (main = "done")' = (main = "done"), mStopAll' = mStopAll,
           Granted' = Granted, Launched' = Launched, Finished' = Finished
    PROVE  UNCHANGED Abstract!vars
BY DEF Abstract!vars, Open, Granted, Finished

\* The main thread: opening and closing, permissions and launches.
LEMMA MainStep ==
    ASSUME IndInv, Start \/ Main PROVE [Abstract!Next]_(Abstract!vars)
<1> USE DEF launchVars, threadVars, callVars
<1>0. thread \in [Host -> ThreadPc]
  BY DEF IndInv, TypeOK
<1>1. CASE Start
  <2>1. Granted = {} /\ Granted' = {} /\ Launched' = Launched /\ Finished' = Finished
    BY <1>1 DEF Start, Granted, Launched, Finished
  <2>2. Abstract!Begin
    BY <1>1, <2>1 DEF Start, Abstract!Begin, Granted, Finished
  <2> QED BY <2>2 DEF Abstract!Next
<1>2. CASE InitScriptsFail \/ ScanFail \/ JoinHosts
  <2>1. /\ main \in {"init", "scan", "drain"} /\ main' = "done"
        /\ thread' = thread /\ mStopAll' = mStopAll
    BY <1>2 DEF InitScriptsFail, ScanFail, JoinHosts
  <2>2. Launched = Finished
    <3>1. CASE InitScriptsFail \/ ScanFail
      <4>1. Launched = {}
        BY <3>1 DEF InitScriptsFail, ScanFail, IndInv, LaunchInv
      <4> QED BY <4>1 DEF Launched, Finished
    <3>2. CASE JoinHosts
      <4>1. Launched = mTCBGroup /\ \A h \in mTCBGroup : thread[h] = "done"
        BY <3>2 DEF JoinHosts, IndInv, LaunchInv
      <4> QED BY <4>1 DEF Launched, Finished
    <3> QED BY <1>2, <3>1, <3>2
  <2>3. Launched' = Launched /\ Finished' = Finished /\ Granted = {} /\ Granted' = {}
    BY <2>1 DEF Launched, Finished, Granted
  <2>4. Abstract!Close
    BY <2>1, <2>2, <2>3 DEF Abstract!Close, Granted, Finished
  <2> QED BY <2>4 DEF Abstract!Next
<1>3. CASE StopTest
  <2>1. thread' = thread /\ mStopAll' = mStopAll /\ found' = found /\ seek' = seek
    BY <1>3 DEF StopTest
  <2>2. Launched' = Launched /\ Finished' = Finished /\ Granted = {}
    BY <1>3, <2>1 DEF StopTest, Launched, Finished, Granted
  <2>3. CASE mStopAll
    BY <1>3, <2>1, <2>2, <2>3, Stutter DEF StopTest, Granted, Open
  <2>4. CASE ~mStopAll
    <3>1. main = "make" /\ main' = "launch" /\ Granted' = {found[seek]}
      BY <1>3, <2>1, <2>4 DEF StopTest, Granted
    <3>2. /\ seek \in DOMAIN found /\ found[seek] \in Host
          /\ found[seek] \notin Launched
      <4>1. /\ found \in Seq(Host) /\ seek \in Nat \ {0} /\ seek <= Len(found)
            /\ \A i, j \in DOMAIN found : found[i] = found[j] => i = j
            /\ Launched = {found[i] : i \in {j \in 1..Len(found) : j < seek}}
        BY <3>1 DEF IndInv, TypeOK, SeekValid, LaunchInv, Starting, IsInjective
      <4> QED BY <4>1
    <3>3. Abstract!Grant(found[seek])
      BY <2>1, <2>2, <2>4, <3>1, <3>2 DEF Abstract!Grant, Granted, Finished
    <3> QED BY <3>2, <3>3 DEF Abstract!Next
  <2> QED BY <2>3, <2>4
<1>4. CASE LaunchHost
  <2>1. found[seek] \in Host
    BY <1>4 DEF LaunchHost, IndInv, TypeOK, SeekValid, Starting
  <2>2. /\ main = "launch" /\ main' = "running" /\ mStopAll' = mStopAll
        /\ thread' = [thread EXCEPT ![found[seek]] = "detect"]
    BY <1>4 DEF LaunchHost
  <2>3. found[seek] \notin Launched
    <3>1. /\ found \in Seq(Host) /\ seek \in Nat \ {0} /\ seek <= Len(found)
          /\ \A i, j \in DOMAIN found : found[i] = found[j] => i = j
          /\ Launched = {found[i] : i \in {j \in 1..Len(found) : j < seek}}
      BY <2>2 DEF IndInv, TypeOK, SeekValid, LaunchInv, Starting, IsInjective
    <3> QED BY <3>1
  <2>4. /\ Launched' = Launched \cup {found[seek]} /\ Finished' = Finished
        /\ Granted = {found[seek]} /\ Granted' = {}
    BY <1>0, <2>1, <2>2, <2>3 DEF Launched, Finished, Granted
  <2>5. Abstract!Launch(found[seek])
    BY <2>2, <2>4 DEF Abstract!Launch, Granted, Finished
  <2> QED BY <2>1, <2>5 DEF Abstract!Next
<1>5. ASSUME Main, ~InitScriptsFail, ~ScanFail, ~JoinHosts, ~StopTest, ~LaunchHost
      PROVE  UNCHANGED Abstract!vars
  <2>1. /\ main \notin {"none", "done", "launch"} /\ main' \notin {"none", "done", "launch"}
        /\ thread' = thread /\ mStopAll' = mStopAll
    BY <1>5 DEF Main, InitScriptsOk, ScanStart, ScanJoin, FillHost, CountHost, FillEnd,
                LoopTest, CountRunning, CountScheduled, Register
  <2> QED BY <2>1, Stutter DEF Open, Granted, Launched, Finished
<1> QED BY <1>1, <1>2, <1>3, <1>4, <1>5

\* A host thread ends once; a caller cancels.
LEMMA OtherStep ==
    ASSUME IndInv, \/ \E h \in Host : HostThread(h)
                   \/ \E c \in Caller : Call(c)
                   \/ OtherTask
    PROVE  [Abstract!Next]_(Abstract!vars)
<1>0. thread \in [Host -> ThreadPc]
  BY DEF IndInv, TypeOK
<1>1. ASSUME NEW h \in Host, HostThread(h) PROVE [Abstract!Next]_(Abstract!vars)
  <2>1. /\ UNCHANGED <<main, found, seek, mStopAll>>
        /\ thread[h] \notin {"idle", "done"}
    BY <1>1, HostThreadFrame DEF IndInv, mainVars
  <2>2. Open' = Open /\ (main = "done")' = (main = "done") /\ Granted' = Granted
    BY <2>1 DEF Open, Granted
  <2>3. CASE ReleaseRunning(h)
    <3>1. /\ thread[h] = "release" /\ thread' = [thread EXCEPT ![h] = "done"]
      BY <2>3 DEF ReleaseRunning
    <3>2. /\ Launched' = Launched /\ Finished' = Finished \cup {h}
          /\ h \in Launched \ Finished
      BY <1>0, <3>1 DEF Launched, Finished
    <3>3. Abstract!Finish(h)
      BY <2>1, <2>2, <3>2 DEF Abstract!Finish, Open, Granted, Finished
    <3> QED BY <3>3 DEF Abstract!Next
  <2>4. CASE ~ReleaseRunning(h)
    <3>1. \E p \in ThreadPc \ {"idle", "done"} : thread' = [thread EXCEPT ![h] = p]
      BY <1>1, <2>4 DEF HostThread, DetectService, ExecuteScriptOnHost, OutputHostResult,
                        CountFinished, PublishFinished, ThreadPc
    <3>2. Launched' = Launched /\ Finished' = Finished
      BY <1>0, <2>1, <3>1 DEF Launched, Finished
    <3> QED BY <2>1, <2>2, <3>2, Stutter
  <2> QED BY <2>3, <2>4
<1>2. ASSUME NEW c \in Caller, Call(c) PROVE [Abstract!Next]_(Abstract!vars)
  <2>1. UNCHANGED <<main, found, seek, thread>>
    BY <1>2 DEF Call, StopFlag, StopState, StopCopy, StopReturn, StopHostFind, MarkExit,
                mainVars, launchVars, threadVars
  <2>2. /\ Open' = Open /\ (main = "done")' = (main = "done") /\ Granted' = Granted
        /\ Launched' = Launched /\ Finished' = Finished
    BY <2>1 DEF Open, Granted, Launched, Finished
  <2>3. CASE StopFlag(c)
    <3>1. Abstract!Cancel
      BY <2>1, <2>2, <2>3 DEF StopFlag, Abstract!Cancel, Open, Granted, Finished
    <3> QED BY <3>1 DEF Abstract!Next
  <2>4. CASE ~StopFlag(c)
    <3>1. mStopAll' = mStopAll
      BY <1>2, <2>4 DEF Call, StopState, StopCopy, StopReturn, StopHostFind, MarkExit
    <3> QED BY <2>2, <3>1, Stutter
  <2> QED BY <2>3, <2>4
<1>3. CASE OtherTask
  BY <1>3, Stutter DEF OtherTask, mainVars, threadVars, Open, Granted, Launched, Finished
<1> QED BY <1>1, <1>2, <1>3

\* Every behaviour of the task is one of ScanTask: no host is started without a
\* permission, none is permitted once the task is cancelled, and the task does
\* not close before the hosts it started have finished.
THEOREM Refines == Spec => ImplementsScanTask
<1>1. Init => Abstract!Init
  BY DEF Init, Abstract!Init, Launched
<1>2. IndInv /\ [Next]_vars => [Abstract!Next]_(Abstract!vars)
  <2> SUFFICES ASSUME IndInv, [Next]_vars PROVE [Abstract!Next]_(Abstract!vars)
    OBVIOUS
  <2>1. CASE Next
    BY <2>1, MainStep, OtherStep DEF Next
  <2>2. CASE UNCHANGED vars
    BY <2>2, Stutter DEF vars, mainVars, threadVars, Open, Granted, Launched, Finished
  <2> QED BY <2>1, <2>2
<1> QED BY <1>1, <1>2, IndInvariant, PTL DEF Spec, ImplementsScanTask, Abstract!Spec

-----------------------------------------------------------------------------
(* The end of a task.                                                      *)

LEMMA FoundAll ==
    ASSUME TypeOK, seek > Len(found) PROVE FoundBefore(seek) = Range(found)
<1>1. found \in Seq(Host) /\ seek \in Nat /\ DOMAIN found = 1..Len(found) /\ Len(found) \in Nat
  BY DEF TypeOK
<1> QED BY <1>1 DEF FoundBefore, Range

\* The main thread publishes the list host by host, then starts its hosts.
LEMMA EndMain ==
    ASSUME IndInv, EndInv, Start \/ Main PROVE EndInv'
<1> USE DEF launchVars, threadVars, callVars, Starting
<1>0. TypeOK
  BY DEF IndInv
<1>2. CASE Start \/ InitScriptsOk
  BY <1>2 DEF Start, InitScriptsOk, EndInv, EndState
<1>3. CASE InitScriptsFail
  <2>1. /\ main = "init" /\ main' = "done" /\ mState' = "Stoped"
        /\ UNCHANGED <<mHostArray, mFinishedHost, caller, mStopAll>>
    BY <1>3 DEF InitScriptsFail
  <2>2. Range(mFinishedHost) = {} /\ Range(mHostArray) = {}
    <3>1. Launched = {} /\ Range(mFinishedHost) = Published
      BY <2>1 DEF IndInv, LaunchInv, FinishInv
    <3>2. mHostArray = <<>>
      BY <2>1 DEF EndInv
    <3> QED BY <3>1, <3>2 DEF Launched, Published, Range
  <2> QED BY <2>1, <2>2 DEF EndInv, EndState
<1>4. CASE ScanFail \/ ScanStart
  <2>1. /\ main = "scan" /\ main' \in {"done", "sending"}
        /\ UNCHANGED <<mState, mHostArray, mFinishedHost, caller, mStopAll>> /\ Launched' = Launched
    BY <1>4 DEF ScanFail, ScanStart, Launched
  <2>2. Launched = {} /\ mHostArray = <<>>
    BY <2>1 DEF IndInv, LaunchInv, EndInv
  <2> QED BY <2>1, <2>2 DEF EndInv, EndState
<1>5. CASE ScanJoin
  <2>1. /\ main' = "fill" /\ mState' = "Running" /\ seek' = 1 /\ mHostArray' = <<>>
        /\ caller' = caller /\ mStopAll' = mStopAll
    BY <1>5 DEF ScanJoin, EndInv
  <2>2. FoundBefore(seek)' = {} /\ Range(mHostArray)' = {}
    BY <2>1 DEF FoundBefore, Range
  <2> QED BY <2>1, <2>2 DEF EndInv, EndState
<1>6. CASE FillHost
  <2>1. /\ main = "fill" /\ main' = "count" /\ seek <= Len(found)
        /\ UNCHANGED <<mState, found, seek, caller, mStopAll>>
        /\ mHostArray' = Append(mHostArray, found[seek])
    BY <1>6 DEF FillHost
  <2>2. /\ mHostArray \in Seq(Host) /\ found \in Seq(Host) /\ seek \in Nat \ {0}
        /\ found[seek] \in Host
    BY <1>0, <2>1 DEF TypeOK
  <2>3. Range(mHostArray)' = FoundBefore(seek) \cup {found[seek]}
    BY <2>1, <2>2, AppendRange DEF EndInv
  <2>4. FoundBefore(seek + 1) = FoundBefore(seek) \cup {found[seek]}
    BY <2>1, <2>2 DEF FoundBefore
  <2>5. FoundBefore(seek + 1)' = FoundBefore(seek + 1)
    BY <2>1 DEF FoundBefore
  <2> QED BY <2>1, <2>3, <2>4, <2>5 DEF EndInv, EndState
<1>7. CASE CountHost
  <2>1. /\ main = "count" /\ main' = "fill" /\ seek' = seek + 1
        /\ UNCHANGED <<mState, found, mHostArray, caller, mStopAll>>
    BY <1>7 DEF CountHost
  <2>2. FoundBefore(seek)' = FoundBefore(seek + 1)
    BY <2>1 DEF FoundBefore
  <2> QED BY <2>1, <2>2 DEF EndInv, EndState
<1>8. CASE FillEnd
  <2>1. /\ main = "fill" /\ main' = "loop" /\ seek > Len(found)
        /\ UNCHANGED <<mState, found, mHostArray, caller, mStopAll>>
    BY <1>8 DEF FillEnd
  <2> QED BY <1>0, <2>1, FoundAll DEF EndInv, EndState
<1>9. CASE LoopTest \/ StopTest
  <2>1. /\ main \in {"loop", "make"} /\ main' \in {"make", "launch", "drain"}
        /\ main' = "drain" => mStopAll \/ (main = "loop" /\ seek > Len(found))
        /\ UNCHANGED <<mState, found, mHostArray, caller, mStopAll>> /\ Launched' = Launched
    <3>1. seek \in Nat /\ Len(found) \in Nat
      BY <1>0 DEF TypeOK
    <3> QED BY <1>9, <3>1 DEF LoopTest, StopTest, Launched
  <2>2. main' = "drain" => mStopAll \/ Launched = Range(found)
    <3> SUFFICES ASSUME main = "loop", seek > Len(found) PROVE Launched = Range(found)
      BY <2>1
    <3>1. Launched = FoundBefore(seek)
      BY DEF IndInv, LaunchInv, FoundBefore
    <3> QED BY <1>0, <3>1, FoundAll
  <2> QED BY <2>1, <2>2 DEF EndInv, EndState
<1>10. CASE LaunchHost \/ CountRunning \/ CountScheduled \/ Register
  <2>1. /\ main \in Starting /\ main' \in {"running", "scheduled", "register", "loop"}
        /\ UNCHANGED <<mState, found, mHostArray, caller, mStopAll>>
    BY <1>10 DEF LaunchHost, CountRunning, CountScheduled, Register
  <2> QED BY <2>1 DEF EndInv, EndState
<1>11. CASE JoinHosts
  <2>1. /\ main = "drain" /\ main' = "done" /\ mState' = "Stoped"
        /\ \A h \in mTCBGroup : thread[h] = "done"
        /\ UNCHANGED <<mHostArray, mFinishedHost, caller, mStopAll>>
    BY <1>11 DEF JoinHosts
  <2>2. Range(mFinishedHost) = Launched
    BY <2>1 DEF IndInv, LaunchInv, FinishInv, Launched, Published
  <2>3. mStopAll \/ Range(mFinishedHost) = Range(mHostArray)
    BY <2>1, <2>2 DEF EndInv
  <2> QED BY <2>1, <2>3 DEF EndInv, EndState
<1> QED BY <1>2, <1>3, <1>4, <1>5, <1>6, <1>7, <1>8, <1>9, <1>10, <1>11 DEF Main

LEMMA EndOther ==
    ASSUME IndInv, EndInv, \/ \E h \in Host : HostThread(h)
                           \/ \E c \in Caller : Call(c)
                           \/ OtherTask \/ UNCHANGED vars
    PROVE  EndInv'
<1>0. TypeOK
  BY DEF IndInv
<1>1. ASSUME NEW h \in Host, HostThread(h) PROVE EndInv'
  <2>1. /\ UNCHANGED <<mainVars, callVars, mStopAll>> /\ Launched' = Launched
        /\ thread[h] \notin {"idle", "done"}
    BY <1>0, <1>1, HostThreadFrame
  <2>2. main # "done"
    BY <2>1 DEF IndInv, LaunchInv, Live
  <2> QED BY <2>1, <2>2 DEF mainVars, callVars, EndInv, EndState, FoundBefore
<1>2. ASSUME NEW c \in Caller, Call(c) PROVE EndInv'
  <2>1. UNCHANGED <<main, found, seek, mHostArray, mFinishedHost, thread>>
    BY <1>0, <1>2, CallFrame DEF threadVars
  <2>2. Launched' = Launched /\ FoundBefore(seek)' = FoundBefore(seek)
        /\ FoundBefore(seek + 1)' = FoundBefore(seek + 1)
    BY <2>1 DEF Launched, FoundBefore
  <2>3. /\ mStopAll => mStopAll'
        /\ \A d \in Caller : caller'[d] \in {"stopState", "stopCopy"} => mStopAll'
        /\ mState' = mState \/ (mState' = "ScheduledStop" /\ mStopAll')
        /\ mStopAll' = mStopAll \/ (mStopAll' /\ mState' = mState)
    BY <1>0, <1>2 DEF Call, StopFlag, StopState, StopCopy, StopReturn, StopHostFind, MarkExit,
                      mainVars, EndInv, TypeOK
  <2>4. EndState'
    BY <2>1, <2>2, <2>3 DEF EndInv, EndState
  <2> QED BY <2>1, <2>2, <2>3, <2>4 DEF EndInv
<1>3. CASE OtherTask \/ UNCHANGED vars
  BY <1>3 DEF OtherTask, vars, mainVars, launchVars, threadVars, callVars, EndInv, EndState, FoundBefore,
              Launched
<1> QED BY <1>1, <1>2, <1>3

\* A task that ends without a Stop has finished every host it discovered, or has
\* started none.
THEOREM EndsProperly == Spec => []EndState
<1>1. Init => EndInv
  BY DEF Init, EndInv, EndState, Starting
<1>2. IndInv /\ EndInv /\ [Next]_vars => EndInv'
  BY EndMain, EndOther DEF Next
<1>3. EndInv => EndState
  BY DEF EndInv
<1> QED BY <1>1, <1>2, <1>3, IndInvariant, PTL DEF Spec

=============================================================================
