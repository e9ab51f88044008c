--------------------------- MODULE RPCServer_proofs ---------------------------
(***************************************************************************)
(* Proofs about the RPC server, for any connections, identifiers and number*)
(* of tasks: the table of its tasks (RPCServer), then its HTTP sessions and*)
(* the requests of a script (HttpConnection), for any number of requests,  *)
(* any addresses and any size of the buffer.                               *)
(*                                                                         *)
(* The tables of the first part and the connections of the second share no *)
(* variable.                                                               *)
(***************************************************************************)
EXTENDS RPCServer, HttpConnection, SequenceTheorems, WellFoundedInduction, TLAPS

\* Every action keeps the types.
LEMMA TypeStep ==
    ASSUME TypeOK, [Next]_vars
    PROVE  TypeOK'
<1> USE ServerAssumption DEF TypeOK, vars, taskVars, workerVars, Unlocked, Alive, Touch, Meets,
           Task, NoTask, Holding, Cleaning, WorkerPc
<1>1. ASSUME NEW w \in Worker, Accept(w) PROVE TypeOK'
  BY <1>1 DEF Accept
<1>2. ASSUME NEW w \in Worker, Disconnect(w) PROVE TypeOK'
  BY <1>2 DEF Disconnect
<1>3. ASSUME NEW w \in Worker, CreateTask(w) PROVE TypeOK'
  BY <1>3 DEF CreateTask
<1>4. ASSUME NEW w \in Worker, AddTask(w) PROVE TypeOK'
  BY <1>4 DEF AddTask
<1>5. ASSUME NEW w \in Worker, UseTask(w) PROVE TypeOK'
  BY <1>5 DEF UseTask
<1>6. ASSUME NEW w \in Worker, StopTask(w) PROVE TypeOK'
  BY <1>6 DEF StopTask
<1>7. ASSUME NEW w \in Worker, CleanStop(w) PROVE TypeOK'
  BY <1>7 DEF CleanStop
<1>8. ASSUME NEW w \in Worker, CleanJoin(w) PROVE TypeOK'
  BY <1>8 DEF CleanJoin
<1>9. ASSUME NEW w \in Worker, CleanErase(w) PROVE TypeOK'
  BY <1>9 DEF CleanErase
<1>10. ASSUME NEW w \in Worker, CleanDelete(w) PROVE TypeOK'
  BY <1>10 DEF CleanDelete
<1>11. ASSUME NEW w \in Worker, NEW i \in TaskId, BeginLookup(w, i) PROVE TypeOK'
  BY <1>11 DEF BeginLookup
<1>12. ASSUME NEW w \in Worker, NEW i \in TaskId, NEW use \in {"stop", "use", "cleanStop"},
            Lookup(w, i, use)
     PROVE  TypeOK'
  BY <1>12 DEF Lookup
<1>13. ASSUME NEW t \in Task, TaskEnd(t) PROVE TypeOK'
  BY <1>13 DEF TaskEnd
<1>14. CASE CloseStop
  BY <1>14 DEF CloseStop
<1>15. ASSUME NEW i \in TaskId, CloseTask(i) PROVE TypeOK'
  BY <1>15 DEF CloseTask
<1>16. CASE CloseEnd
  BY <1>16 DEF CloseEnd
<1>17. CASE UNCHANGED vars
  BY <1>17
<1> HIDE DEF TypeOK, vars, taskVars, workerVars, Unlocked, Alive, Touch, Meets,
           Task, NoTask, Holding, Cleaning, WorkerPc
<1> QED
  BY <1>1, <1>2, <1>3, <1>4, <1>5, <1>6, <1>7, <1>8, <1>9, <1>10, <1>11, <1>12,
     <1>13, <1>14, <1>15, <1>16, <1>17 DEF Next, Handle, Close

\* A task is known by the id it was created for.
LEMMA KnownStep ==
    ASSUME TypeOK, TypeOK', TasksKnown, [Next]_vars
    PROVE  TasksKnown'
<1> USE ServerAssumption DEF TypeOK, vars, taskVars, workerVars, Unlocked, Alive, Touch, Meets,
           Task, NoTask, Holding, Cleaning, WorkerPc,
           TasksKnown
<1>1. ASSUME NEW w \in Worker, Accept(w) PROVE TasksKnown'
  BY <1>1 DEF Accept
<1>2. ASSUME NEW w \in Worker, Disconnect(w) PROVE TasksKnown'
  BY <1>2 DEF Disconnect
<1>3. ASSUME NEW w \in Worker, CreateTask(w) PROVE TasksKnown'
  BY <1>3 DEF CreateTask
<1>4. ASSUME NEW w \in Worker, AddTask(w) PROVE TasksKnown'
  BY <1>4 DEF AddTask
<1>5. ASSUME NEW w \in Worker, UseTask(w) PROVE TasksKnown'
  BY <1>5 DEF UseTask
<1>6. ASSUME NEW w \in Worker, StopTask(w) PROVE TasksKnown'
  BY <1>6 DEF StopTask
<1>7. ASSUME NEW w \in Worker, CleanStop(w) PROVE TasksKnown'
  BY <1>7 DEF CleanStop
<1>8. ASSUME NEW w \in Worker, CleanJoin(w) PROVE TasksKnown'
  BY <1>8 DEF CleanJoin
<1>9. ASSUME NEW w \in Worker, CleanErase(w) PROVE TasksKnown'
  BY <1>9 DEF CleanErase
<1>10. ASSUME NEW w \in Worker, CleanDelete(w) PROVE TasksKnown'
  BY <1>10 DEF CleanDelete
<1>11. ASSUME NEW w \in Worker, NEW i \in TaskId, BeginLookup(w, i) PROVE TasksKnown'
  BY <1>11 DEF BeginLookup
<1>12. ASSUME NEW w \in Worker, NEW i \in TaskId, NEW use \in {"stop", "use", "cleanStop"},
            Lookup(w, i, use)
     PROVE  TasksKnown'
  BY <1>12 DEF Lookup
<1>13. ASSUME NEW t \in Task, TaskEnd(t) PROVE TasksKnown'
  BY <1>13 DEF TaskEnd
<1>14. CASE CloseStop
  BY <1>14 DEF CloseStop
<1>15. ASSUME NEW i \in TaskId, CloseTask(i) PROVE TasksKnown'
  BY <1>15 DEF CloseTask
<1>16. CASE CloseEnd
  BY <1>16 DEF CloseEnd
<1>17. CASE UNCHANGED vars
  BY <1>17
<1> HIDE DEF TypeOK, vars, taskVars, workerVars, Unlocked, Alive, Touch, Meets,
           Task, NoTask, Holding, Cleaning, WorkerPc,
           TasksKnown
<1> QED
  BY <1>1, <1>2, <1>3, <1>4, <1>5, <1>6, <1>7, <1>8, <1>9, <1>10, <1>11, <1>12,
     <1>13, <1>14, <1>15, <1>16, <1>17 DEF Next, Handle, Close

\* A new task has a number nobody holds; no call finds it before AddTask.
LEMMA PrivateStep ==
    ASSUME TypeOK, TypeOK', NewIsPrivate, TasksKnown, [Next]_vars
    PROVE  NewIsPrivate'
<1> USE ServerAssumption DEF TypeOK, vars, taskVars, workerVars, Unlocked, Alive, Touch, Meets,
           Task, NoTask, Holding, Cleaning, WorkerPc,
           NewIsPrivate, TasksKnown
<1>1. ASSUME NEW w \in Worker, Accept(w) PROVE NewIsPrivate'
  BY <1>1 DEF Accept
<1>2. ASSUME NEW w \in Worker, Disconnect(w) PROVE NewIsPrivate'
  BY <1>2 DEF Disconnect
<1>3. ASSUME NEW w \in Worker, CreateTask(w) PROVE NewIsPrivate'
  <2>1. created' = created + 1 /\ created' \in Task
    BY <1>3 DEF CreateTask
  <2>2. ASSUME NEW v \in Worker PROVE ptr[v] # created'
    <3>1. ptr[v] \in Task \cup {NoTask} /\ (ptr[v] # NoTask => ptr[v] <= created)
      BY DEF TypeOK
    <3> QED BY <2>1, <3>1
  <2>3. created' \notin freed /\ \A i \in TaskId : mTasks[i] # created'
    <3>1. \A i \in TaskId : /\ mTasks[i] \in Task \cup {NoTask}
                           /\ mTasks[i] # NoTask => mTasks[i] <= created
      BY DEF TypeOK
    <3>2. \A t \in freed : t \in Task /\ t <= created
      BY DEF TypeOK
    <3> QED BY <2>1, <3>1, <3>2
  <2> HIDE DEF Task
  <2> QED BY <1>3, <2>1, <2>2, <2>3 DEF CreateTask
<1>4. ASSUME NEW w \in Worker, AddTask(w) PROVE NewIsPrivate'
  BY <1>4 DEF AddTask
<1>5. ASSUME NEW w \in Worker, UseTask(w) PROVE NewIsPrivate'
  BY <1>5 DEF UseTask
<1>6. ASSUME NEW w \in Worker, StopTask(w) PROVE NewIsPrivate'
  BY <1>6 DEF StopTask
<1>7. ASSUME NEW w \in Worker, CleanStop(w) PROVE NewIsPrivate'
  BY <1>7 DEF CleanStop
<1>8. ASSUME NEW w \in Worker, CleanJoin(w) PROVE NewIsPrivate'
  BY <1>8 DEF CleanJoin
<1>9. ASSUME NEW w \in Worker, CleanErase(w) PROVE NewIsPrivate'
  BY <1>9 DEF CleanErase
<1>10. ASSUME NEW w \in Worker, CleanDelete(w) PROVE NewIsPrivate'
  BY <1>10 DEF CleanDelete
<1>11. ASSUME NEW w \in Worker, NEW i \in TaskId, BeginLookup(w, i) PROVE NewIsPrivate'
  BY <1>11 DEF BeginLookup
<1>12. ASSUME NEW w \in Worker, NEW i \in TaskId, NEW use \in {"stop", "use", "cleanStop"},
            Lookup(w, i, use)
     PROVE  NewIsPrivate'
  BY <1>12 DEF Lookup
<1>13. ASSUME NEW t \in Task, TaskEnd(t) PROVE NewIsPrivate'
  BY <1>13 DEF TaskEnd
<1>14. CASE CloseStop
  BY <1>14 DEF CloseStop
<1>15. ASSUME NEW i \in TaskId, CloseTask(i) PROVE NewIsPrivate'
  BY <1>15 DEF CloseTask
<1>16. CASE CloseEnd
  BY <1>16 DEF CloseEnd
<1>17. CASE UNCHANGED vars
  BY <1>17
<1> HIDE DEF TypeOK, vars, taskVars, workerVars, Unlocked, Alive, Touch, Meets,
           Task, NoTask, Holding, Cleaning, WorkerPc,
           NewIsPrivate, TasksKnown
<1> QED
  BY <1>1, <1>2, <1>3, <1>4, <1>5, <1>6, <1>7, <1>8, <1>9, <1>10, <1>11, <1>12,
     <1>13, <1>14, <1>15, <1>16, <1>17 DEF Next, Handle, Close

\* A clean advances only past what it has done, and nobody undoes it.
LEMMA OrderStep ==
    ASSUME TypeOK, TypeOK', CleanInOrder, TasksKnown, NewIsPrivate, [Next]_vars
    PROVE  CleanInOrder'
<1> USE ServerAssumption DEF TypeOK, vars, taskVars, workerVars, Unlocked, Alive, Touch, Meets,
           Task, NoTask, Holding, Cleaning, WorkerPc,
           CleanInOrder, TasksKnown, NewIsPrivate
<1>1. ASSUME NEW w \in Worker, Accept(w) PROVE CleanInOrder'
  BY <1>1 DEF Accept
<1>2. ASSUME NEW w \in Worker, Disconnect(w) PROVE CleanInOrder'
  BY <1>2 DEF Disconnect
<1>3. ASSUME NEW w \in Worker, CreateTask(w) PROVE CleanInOrder'
  BY <1>3 DEF CreateTask
<1>4. ASSUME NEW w \in Worker, AddTask(w) PROVE CleanInOrder'
  BY <1>4 DEF AddTask
<1>5. ASSUME NEW w \in Worker, UseTask(w) PROVE CleanInOrder'
  BY <1>5 DEF UseTask
<1>6. ASSUME NEW w \in Worker, StopTask(w) PROVE CleanInOrder'
  BY <1>6 DEF StopTask
<1>7. ASSUME NEW w \in Worker, CleanStop(w) PROVE CleanInOrder'
  BY <1>7 DEF CleanStop
<1>8. ASSUME NEW w \in Worker, CleanJoin(w) PROVE CleanInOrder'
  BY <1>8 DEF CleanJoin
<1>9. ASSUME NEW w \in Worker, CleanErase(w) PROVE CleanInOrder'
  BY <1>9 DEF CleanErase
<1>10. ASSUME NEW w \in Worker, CleanDelete(w) PROVE CleanInOrder'
  BY <1>10 DEF CleanDelete
<1>11. ASSUME NEW w \in Worker, NEW i \in TaskId, BeginLookup(w, i) PROVE CleanInOrder'
  BY <1>11 DEF BeginLookup
<1>12. ASSUME NEW w \in Worker, NEW i \in TaskId, NEW use \in {"stop", "use", "cleanStop"},
            Lookup(w, i, use)
     PROVE  CleanInOrder'
  BY <1>12 DEF Lookup
<1>13. ASSUME NEW t \in Task, TaskEnd(t) PROVE CleanInOrder'
  BY <1>13 DEF TaskEnd
<1>14. CASE CloseStop
  <2>1. \A i \in TaskId : mTasks[i] # NoTask => mTasks[i] \in Range(mTasks)
    BY DEF Range
  <2>2. ASSUME NEW i \in TaskId, mTasks[i] # NoTask PROVE stopped'[mTasks[i]]
    <3>1. mTasks[i] \in Task
      BY <2>2
    <3>2. stopped'[mTasks[i]] = (stopped[mTasks[i]] \/ mTasks[i] \in Range(mTasks))
      BY <1>14, <3>1, Zenon DEF CloseStop
    <3> QED BY <2>1, <2>2, <3>2
  <2>3. UNCHANGED <<mTasks, main, pc, ptr>>
    BY <1>14 DEF CloseStop
  <2>4. \A u \in Task : stopped[u] => stopped'[u]
    BY <1>14 DEF CloseStop
  <2> QED BY <2>2, <2>3, <2>4
<1>15. ASSUME NEW i \in TaskId, CloseTask(i) PROVE CleanInOrder'
  BY <1>15 DEF CloseTask
<1>16. CASE CloseEnd
  BY <1>16 DEF CloseEnd
<1>17. CASE UNCHANGED vars
  BY <1>17
<1> HIDE DEF TypeOK, vars, taskVars, workerVars, Unlocked, Alive, Touch, Meets,
           Task, NoTask, Holding, Cleaning, WorkerPc,
           CleanInOrder, TasksKnown, NewIsPrivate
<1> QED
  BY <1>1, <1>2, <1>3, <1>4, <1>5, <1>6, <1>7, <1>8, <1>9, <1>10, <1>11, <1>12,
     <1>13, <1>14, <1>15, <1>16, <1>17 DEF Next, Handle, Close

\* A task is deleted when no entry leads to it, and is not entered again.
LEMMA LiveStep ==
    ASSUME TypeOK, TypeOK', TableLive, NewIsPrivate, CleanInOrder, [Next]_vars
    PROVE  TableLive'
<1> USE ServerAssumption DEF TypeOK, vars, taskVars, workerVars, Unlocked, Alive, Touch, Meets,
           Task, NoTask, Holding, Cleaning, WorkerPc,
           TableLive, NewIsPrivate, CleanInOrder
<1>1. ASSUME NEW w \in Worker, Accept(w) PROVE TableLive'
  BY <1>1 DEF Accept
<1>2. ASSUME NEW w \in Worker, Disconnect(w) PROVE TableLive'
  BY <1>2 DEF Disconnect
<1>3. ASSUME NEW w \in Worker, CreateTask(w) PROVE TableLive'
  BY <1>3 DEF CreateTask
<1>4. ASSUME NEW w \in Worker, AddTask(w) PROVE TableLive'
  BY <1>4 DEF AddTask
<1>5. ASSUME NEW w \in Worker, UseTask(w) PROVE TableLive'
  BY <1>5 DEF UseTask
<1>6. ASSUME NEW w \in Worker, StopTask(w) PROVE TableLive'
  BY <1>6 DEF StopTask
<1>7. ASSUME NEW w \in Worker, CleanStop(w) PROVE TableLive'
  BY <1>7 DEF CleanStop
<1>8. ASSUME NEW w \in Worker, CleanJoin(w) PROVE TableLive'
  BY <1>8 DEF CleanJoin
<1>9. ASSUME NEW w \in Worker, CleanErase(w) PROVE TableLive'
  BY <1>9 DEF CleanErase
<1>10. ASSUME NEW w \in Worker, CleanDelete(w) PROVE TableLive'
  BY <1>10 DEF CleanDelete
<1>11. ASSUME NEW w \in Worker, NEW i \in TaskId, BeginLookup(w, i) PROVE TableLive'
  BY <1>11 DEF BeginLookup
<1>12. ASSUME NEW w \in Worker, NEW i \in TaskId, NEW use \in {"stop", "use", "cleanStop"},
            Lookup(w, i, use)
     PROVE  TableLive'
  BY <1>12 DEF Lookup
<1>13. ASSUME NEW t \in Task, TaskEnd(t) PROVE TableLive'
  BY <1>13 DEF TaskEnd
<1>14. CASE CloseStop
  BY <1>14 DEF CloseStop
<1>15. ASSUME NEW i \in TaskId, CloseTask(i) PROVE TableLive'
  BY <1>15 DEF CloseTask
<1>16. CASE CloseEnd
  BY <1>16 DEF CloseEnd
<1>17. CASE UNCHANGED vars
  BY <1>17
<1> HIDE DEF TypeOK, vars, taskVars, workerVars, Unlocked, Alive, Touch, Meets,
           Task, NoTask, Holding, Cleaning, WorkerPc,
           TableLive, NewIsPrivate, CleanInOrder
<1> QED
  BY <1>1, <1>2, <1>3, <1>4, <1>5, <1>6, <1>7, <1>8, <1>9, <1>10, <1>11, <1>12,
     <1>13, <1>14, <1>15, <1>16, <1>17 DEF Next, Handle, Close

\* A task is deleted after it was stopped and has ended.
LEMMA EndStep ==
    ASSUME TypeOK, TypeOK', DeletedAfterEnd, TasksKnown, CleanInOrder, [Next]_vars
    PROVE  DeletedAfterEnd'
<1> USE ServerAssumption DEF TypeOK, vars, taskVars, workerVars, Unlocked, Alive, Touch, Meets,
           Task, NoTask, Holding, Cleaning, WorkerPc,
           DeletedAfterEnd, TasksKnown, CleanInOrder
<1>1. ASSUME NEW w \in Worker, Accept(w) PROVE DeletedAfterEnd'
  BY <1>1 DEF Accept
<1>2. ASSUME NEW w \in Worker, Disconnect(w) PROVE DeletedAfterEnd'
  BY <1>2 DEF Disconnect
<1>3. ASSUME NEW w \in Worker, CreateTask(w) PROVE DeletedAfterEnd'
  BY <1>3 DEF CreateTask
<1>4. ASSUME NEW w \in Worker, AddTask(w) PROVE DeletedAfterEnd'
  BY <1>4 DEF AddTask
<1>5. ASSUME NEW w \in Worker, UseTask(w) PROVE DeletedAfterEnd'
  BY <1>5 DEF UseTask
<1>6. ASSUME NEW w \in Worker, StopTask(w) PROVE DeletedAfterEnd'
  BY <1>6 DEF StopTask
<1>7. ASSUME NEW w \in Worker, CleanStop(w) PROVE DeletedAfterEnd'
  BY <1>7 DEF CleanStop
<1>8. ASSUME NEW w \in Worker, CleanJoin(w) PROVE DeletedAfterEnd'
  BY <1>8 DEF CleanJoin
<1>9. ASSUME NEW w \in Worker, CleanErase(w) PROVE DeletedAfterEnd'
  BY <1>9 DEF CleanErase
<1>10. ASSUME NEW w \in Worker, CleanDelete(w) PROVE DeletedAfterEnd'
  BY <1>10 DEF CleanDelete
<1>11. ASSUME NEW w \in Worker, NEW i \in TaskId, BeginLookup(w, i) PROVE DeletedAfterEnd'
  BY <1>11 DEF BeginLookup
<1>12. ASSUME NEW w \in Worker, NEW i \in TaskId, NEW use \in {"stop", "use", "cleanStop"},
            Lookup(w, i, use)
     PROVE  DeletedAfterEnd'
  BY <1>12 DEF Lookup
<1>13. ASSUME NEW t \in Task, TaskEnd(t) PROVE DeletedAfterEnd'
  BY <1>13 DEF TaskEnd
<1>14. CASE CloseStop
  BY <1>14 DEF CloseStop
<1>15. ASSUME NEW i \in TaskId, CloseTask(i) PROVE DeletedAfterEnd'
  BY <1>15 DEF CloseTask
<1>16. CASE CloseEnd
  BY <1>16 DEF CloseEnd
<1>17. CASE UNCHANGED vars
  BY <1>17
<1> HIDE DEF TypeOK, vars, taskVars, workerVars, Unlocked, Alive, Touch, Meets,
           Task, NoTask, Holding, Cleaning, WorkerPc,
           DeletedAfterEnd, TasksKnown, CleanInOrder
<1> QED
  BY <1>1, <1>2, <1>3, <1>4, <1>5, <1>6, <1>7, <1>8, <1>9, <1>10, <1>11, <1>12,
     <1>13, <1>14, <1>15, <1>16, <1>17 DEF Next, Handle, Close

\* Every step that makes two calls meet records their id.
LEMMA RaceStep ==
    ASSUME TypeOK, TypeOK', RacesRecorded, TasksKnown, NewIsPrivate, TableLive, [Next]_vars
    PROVE  RacesRecorded'
<1> USE ServerAssumption DEF TypeOK, vars, taskVars, workerVars, Unlocked, Alive, Touch, Meets,
           Task, NoTask, Holding, Cleaning, WorkerPc,
           RacesRecorded, TasksKnown, NewIsPrivate, TableLive
<1>1. ASSUME NEW w \in Worker, Accept(w) PROVE RacesRecorded'
  BY <1>1 DEF Accept
<1>2. ASSUME NEW w \in Worker, Disconnect(w) PROVE RacesRecorded'
  BY <1>2 DEF Disconnect
<1>3. ASSUME NEW w \in Worker, CreateTask(w) PROVE RacesRecorded'
  BY <1>3 DEF CreateTask
<1>4. ASSUME NEW w \in Worker, AddTask(w) PROVE RacesRecorded'
  BY <1>4 DEF AddTask
<1>5. ASSUME NEW w \in Worker, UseTask(w) PROVE RacesRecorded'
  BY <1>5 DEF UseTask
<1>6. ASSUME NEW w \in Worker, StopTask(w) PROVE RacesRecorded'
  BY <1>6 DEF StopTask
<1>7. ASSUME NEW w \in Worker, CleanStop(w) PROVE RacesRecorded'
  BY <1>7 DEF CleanStop
<1>8. ASSUME NEW w \in Worker, CleanJoin(w) PROVE RacesRecorded'
  BY <1>8 DEF CleanJoin
<1>9. ASSUME NEW w \in Worker, CleanErase(w) PROVE RacesRecorded'
  BY <1>9 DEF CleanErase
<1>10. ASSUME NEW w \in Worker, CleanDelete(w) PROVE RacesRecorded'
  BY <1>10 DEF CleanDelete
<1>11. ASSUME NEW w \in Worker, NEW i \in TaskId, BeginLookup(w, i) PROVE RacesRecorded'
  BY <1>11 DEF BeginLookup
<1>12. ASSUME NEW w \in Worker, NEW i \in TaskId, NEW use \in {"stop", "use", "cleanStop"},
            Lookup(w, i, use)
     PROVE  RacesRecorded'
  BY <1>12 DEF Lookup
<1>13. ASSUME NEW t \in Task, TaskEnd(t) PROVE RacesRecorded'
  BY <1>13 DEF TaskEnd
<1>14. CASE CloseStop
  BY <1>14 DEF CloseStop
<1>15. ASSUME NEW i \in TaskId, CloseTask(i) PROVE RacesRecorded'
  BY <1>15 DEF CloseTask
<1>16. CASE CloseEnd
  BY <1>16 DEF CloseEnd
<1>17. CASE UNCHANGED vars
  BY <1>17
<1> HIDE DEF TypeOK, vars, taskVars, workerVars, Unlocked, Alive, Touch, Meets,
           Task, NoTask, Holding, Cleaning, WorkerPc,
           RacesRecorded, TasksKnown, NewIsPrivate, TableLive
<1> QED
  BY <1>1, <1>2, <1>3, <1>4, <1>5, <1>6, <1>7, <1>8, <1>9, <1>10, <1>11, <1>12,
     <1>13, <1>14, <1>15, <1>16, <1>17 DEF Next, Handle, Close

\* Only a recorded call holds a deleted task.
LEMMA DanglingStep ==
    ASSUME TypeOK, TypeOK', DanglingOnlyIfRaced, RacesRecorded, [Next]_vars
    PROVE  DanglingOnlyIfRaced'
<1> USE ServerAssumption DEF TypeOK, vars, taskVars, workerVars, Unlocked, Alive, Touch, Meets,
           Task, NoTask, Holding, Cleaning, WorkerPc,
           DanglingOnlyIfRaced, RacesRecorded
<1>1. ASSUME NEW w \in Worker, Accept(w) PROVE DanglingOnlyIfRaced'
  BY <1>1 DEF Accept
<1>2. ASSUME NEW w \in Worker, Disconnect(w) PROVE DanglingOnlyIfRaced'
  BY <1>2 DEF Disconnect
<1>3. ASSUME NEW w \in Worker, CreateTask(w) PROVE DanglingOnlyIfRaced'
  BY <1>3 DEF CreateTask
<1>4. ASSUME NEW w \in Worker, AddTask(w) PROVE DanglingOnlyIfRaced'
  BY <1>4 DEF AddTask
<1>5. ASSUME NEW w \in Worker, UseTask(w) PROVE DanglingOnlyIfRaced'
  BY <1>5 DEF UseTask
<1>6. ASSUME NEW w \in Worker, StopTask(w) PROVE DanglingOnlyIfRaced'
  BY <1>6 DEF StopTask
<1>7. ASSUME NEW w \in Worker, CleanStop(w) PROVE DanglingOnlyIfRaced'
  BY <1>7 DEF CleanStop
<1>8. ASSUME NEW w \in Worker, CleanJoin(w) PROVE DanglingOnlyIfRaced'
  BY <1>8 DEF CleanJoin
<1>9. ASSUME NEW w \in Worker, CleanErase(w) PROVE DanglingOnlyIfRaced'
  BY <1>9 DEF CleanErase
<1>10. ASSUME NEW w \in Worker, CleanDelete(w) PROVE DanglingOnlyIfRaced'
  BY <1>10 DEF CleanDelete
<1>11. ASSUME NEW w \in Worker, NEW i \in TaskId, BeginLookup(w, i) PROVE DanglingOnlyIfRaced'
  BY <1>11 DEF BeginLookup
<1>12. ASSUME NEW w \in Worker, NEW i \in TaskId, NEW use \in {"stop", "use", "cleanStop"},
            Lookup(w, i, use)
     PROVE  DanglingOnlyIfRaced'
  BY <1>12 DEF Lookup
<1>13. ASSUME NEW t \in Task, TaskEnd(t) PROVE DanglingOnlyIfRaced'
  BY <1>13 DEF TaskEnd
<1>14. CASE CloseStop
  BY <1>14 DEF CloseStop
<1>15. ASSUME NEW i \in TaskId, CloseTask(i) PROVE DanglingOnlyIfRaced'
  BY <1>15 DEF CloseTask
<1>16. CASE CloseEnd
  BY <1>16 DEF CloseEnd
<1>17. CASE UNCHANGED vars
  BY <1>17
<1> HIDE DEF TypeOK, vars, taskVars, workerVars, Unlocked, Alive, Touch, Meets,
           Task, NoTask, Holding, Cleaning, WorkerPc,
           DanglingOnlyIfRaced, RacesRecorded
<1> QED
  BY <1>1, <1>2, <1>3, <1>4, <1>5, <1>6, <1>7, <1>8, <1>9, <1>10, <1>11, <1>12,
     <1>13, <1>14, <1>15, <1>16, <1>17 DEF Next, Handle, Close

\* An entry is overwritten or erased for another task only after a race.
LEMMA LostStep ==
    ASSUME TypeOK, TypeOK', NoTaskLost, RacesRecorded, TasksKnown, [Next]_vars
    PROVE  NoTaskLost'
<1> USE ServerAssumption DEF TypeOK, vars, taskVars, workerVars, Unlocked, Alive, Touch, Meets,
           Task, NoTask, Holding, Cleaning, WorkerPc,
           NoTaskLost, RacesRecorded, TasksKnown
<1>1. ASSUME NEW w \in Worker, Accept(w) PROVE NoTaskLost'
  BY <1>1 DEF Accept
<1>2. ASSUME NEW w \in Worker, Disconnect(w) PROVE NoTaskLost'
  BY <1>2 DEF Disconnect
<1>3. ASSUME NEW w \in Worker, CreateTask(w) PROVE NoTaskLost'
  BY <1>3 DEF CreateTask
<1>4. ASSUME NEW w \in Worker, AddTask(w) PROVE NoTaskLost'
  <2> SUFFICES ASSUME NEW t \in 1..created, t \notin freed, idOf[t] \notin raced
               PROVE  \/ mTasks'[idOf[t]] = t
                      \/ \E v \in Worker : pc'[v] \in {"add", "cleanDelete"} /\ ptr'[v] = t
    BY <1>4 DEF AddTask
  <2>1. idOf[t] \in TaskId
    OBVIOUS
  <2>2. CASE mTasks[idOf[t]] = t
    BY <1>4, <2>1, <2>2 DEF AddTask
  <2>3. CASE ptr[w] = t
    BY <1>4, <2>1, <2>3 DEF AddTask
  <2>4. ASSUME NEW v \in Worker, v # w, pc[v] \in {"add", "cleanDelete"}, ptr[v] = t
        PROVE  pc'[v] \in {"add", "cleanDelete"} /\ ptr'[v] = t
    BY <1>4, <2>4 DEF AddTask
  <2> QED BY <2>2, <2>3, <2>4
<1>5. ASSUME NEW w \in Worker, UseTask(w) PROVE NoTaskLost'
  BY <1>5 DEF UseTask
<1>6. ASSUME NEW w \in Worker, StopTask(w) PROVE NoTaskLost'
  BY <1>6 DEF StopTask
<1>7. ASSUME NEW w \in Worker, CleanStop(w) PROVE NoTaskLost'
  BY <1>7 DEF CleanStop
<1>8. ASSUME NEW w \in Worker, CleanJoin(w) PROVE NoTaskLost'
  BY <1>8 DEF CleanJoin
<1>9. ASSUME NEW w \in Worker, CleanErase(w) PROVE NoTaskLost'
  <2> SUFFICES ASSUME NEW t \in 1..created, t \notin freed, idOf[t] \notin raced
               PROVE  \/ mTasks'[idOf[t]] = t
                      \/ \E v \in Worker : pc'[v] \in {"add", "cleanDelete"} /\ ptr'[v] = t
    BY <1>9 DEF CleanErase
  <2>1. idOf[t] \in TaskId
    OBVIOUS
  <2>2. CASE mTasks[idOf[t]] = t /\ arg[w] # idOf[t]
    BY <1>9, <2>1, <2>2 DEF CleanErase
  <2>3. CASE mTasks[idOf[t]] = t /\ arg[w] = idOf[t]
    BY <1>9, <2>1, <2>3 DEF CleanErase
  <2>4. ASSUME NEW v \in Worker, pc[v] \in {"add", "cleanDelete"}, ptr[v] = t
        PROVE  pc'[v] \in {"add", "cleanDelete"} /\ ptr'[v] = t
    BY <1>9, <2>4 DEF CleanErase
  <2> QED BY <2>2, <2>3, <2>4
<1>10. ASSUME NEW w \in Worker, CleanDelete(w) PROVE NoTaskLost'
  BY <1>10 DEF CleanDelete
<1>11. ASSUME NEW w \in Worker, NEW i \in TaskId, BeginLookup(w, i) PROVE NoTaskLost'
  BY <1>11 DEF BeginLookup
<1>12. ASSUME NEW w \in Worker, NEW i \in TaskId, NEW use \in {"stop", "use", "cleanStop"},
            Lookup(w, i, use)
     PROVE  NoTaskLost'
  BY <1>12 DEF Lookup
<1>13. ASSUME NEW t \in Task, TaskEnd(t) PROVE NoTaskLost'
  BY <1>13 DEF TaskEnd
<1>14. CASE CloseStop
  BY <1>14 DEF CloseStop
<1>15. ASSUME NEW i \in TaskId, CloseTask(i) PROVE NoTaskLost'
  BY <1>15 DEF CloseTask
<1>16. CASE CloseEnd
  BY <1>16 DEF CloseEnd
<1>17. CASE UNCHANGED vars
  BY <1>17
<1> HIDE DEF TypeOK, vars, taskVars, workerVars, Unlocked, Alive, Touch, Meets,
           Task, NoTask, Holding, Cleaning, WorkerPc,
           NoTaskLost, RacesRecorded, TasksKnown
<1> QED
  BY <1>1, <1>2, <1>3, <1>4, <1>5, <1>6, <1>7, <1>8, <1>9, <1>10, <1>11, <1>12,
     <1>13, <1>14, <1>15, <1>16, <1>17 DEF Next, Handle, Close

LEMMA InitInv == Init => IndInv
<1> SUFFICES ASSUME Init PROVE IndInv
  OBVIOUS
<1> USE ServerAssumption DEF Task, NoTask
<1>1. TypeOK
  BY DEF Init, TypeOK, WorkerPc, Holding, Cleaning
<1>2. \A w \in Worker : pc[w] = "none" /\ ptr[w] = NoTask
  BY DEF Init
<1>3. TasksKnown /\ NewIsPrivate /\ CleanInOrder
  BY <1>1, <1>2 DEF Init, TypeOK, TasksKnown, NewIsPrivate, CleanInOrder, Cleaning
<1>4. RacesRecorded
  BY <1>2 DEF Init, RacesRecorded, Cleaning, Holding
<1>5. TableLive /\ DeletedAfterEnd /\ DanglingOnlyIfRaced /\ NoTaskLost
  BY DEF Init, TableLive, DeletedAfterEnd, DanglingOnlyIfRaced, NoTaskLost
<1> QED BY <1>1, <1>3, <1>4, <1>5 DEF IndInv

\* IndInv, the inductive invariant of the task table (class RPCServer).
THEOREM IndInvariant == Spec => []IndInv
<1>1. IndInv /\ [Next]_vars => IndInv'
  <2> SUFFICES ASSUME IndInv, [Next]_vars
    PROVE  IndInv'
    OBVIOUS
  <2>1. TypeOK'
    BY TypeStep DEF IndInv
  <2> QED
    BY <2>1, KnownStep, PrivateStep, OrderStep, LiveStep, EndStep, RaceStep,
       DanglingStep, LostStep DEF IndInv
<1> QED BY InitInv, <1>1, PTL DEF Spec

\* Every variable keeps its type.
THEOREM TypeCorrect == Spec => []TypeOK
<1>1. IndInv => TypeOK
  BY DEF IndInv
<1> QED BY IndInvariant, <1>1, PTL

\* While the server serves, LookupTask never returns a deleted task.
THEOREM TableStaysLive == Spec => []TableLive
<1>1. IndInv => TableLive
  BY DEF IndInv
<1> QED BY IndInvariant, <1>1, PTL

\* CleanTask and ~RPCServer delete a task only after it was stopped and ended.
THEOREM DeletedEnded == Spec => []DeletedAfterEnd
<1>1. IndInv => DeletedAfterEnd
  BY DEF IndInv
<1> QED BY IndInvariant, <1>1, PTL

\* Handlers use or delete a deleted task only if a clean met another call.
THEOREM DanglingNeedsRace == Spec => []DanglingOnlyIfRaced
<1>1. IndInv => DanglingOnlyIfRaced
  BY DEF IndInv
<1> QED BY IndInvariant, <1>1, PTL

\* A task can be found until it is deleted, unless calls on its id raced.
THEOREM TasksFound == Spec => []NoTaskLost
<1>1. IndInv => NoTaskLost
  BY DEF IndInv
<1> QED BY IndInvariant, <1>1, PTL

\* BeginTask refuses an id in use, unless calls on it raced.
THEOREM OneTask == Spec => []OneTaskPerId
<1>1. IndInv => OneTaskPerId
  <2> SUFFICES ASSUME IndInv, NEW t \in 1..created, NEW u \in 1..created,
                      idOf[t] = idOf[u], t # u, idOf[t] \notin raced,
                      t \notin freed, u \notin freed
               PROVE  \E w \in Worker : pc[w] = "cleanDelete" /\ ptr[w] \in {t, u}
    BY DEF OneTaskPerId
  <2> USE DEF IndInv
  <2>1. \A x \in {t, u} :
           \/ mTasks[idOf[t]] = x
           \/ \E w \in Worker : pc[w] \in {"add", "cleanDelete"} /\ ptr[w] = x
    BY DEF NoTaskLost
  <2>2. \A w \in Worker : pc[w] = "add" /\ ptr[w] \in {t, u} => arg[w] = idOf[t]
    BY ServerAssumption DEF TypeOK, TasksKnown, NoTask
  <2>3. \A w \in Worker : pc[w] = "add" /\ ptr[w] \in {t, u} =>
           /\ mTasks[idOf[t]] = NoTask
           /\ \A v \in Worker \ {w} : pc[v] = "add" => arg[v] # idOf[t]
    BY <2>2 DEF RacesRecorded
  <2> QED BY <2>1, <2>2, <2>3 DEF NoTask
<1> QED BY IndInvariant, <1>1, PTL

-----------------------------------------------------------------------------
(* What a function that is defined by recursion on a chunk computes, and   *)
(* the sequences of a session.                                             *)

LEMMA NatInductionSet ==
  ASSUME NEW S \in SUBSET Nat, 0 \in S, \A n \in S : n + 1 \in S
  PROVE  \A n \in Nat : n \in S
<1> DEFINE R == {ss \in Nat \X Nat : ss[1] < ss[2]}
<1>0. IsWellFoundedOn(R, Nat)
  BY NatLessThanWellFounded, Zenon DEF OpToRel
<1>1. SUFFICES ASSUME NEW T, T = Nat \ S, T # {} PROVE FALSE
  OBVIOUS
<1>2. PICK x \in T : \A y \in T : ~ (<<y, x>> \in R)
  <2> HIDE DEF R
  <2> QED BY <1>0, <1>1, WFMin
<1>3. x # 0 /\ x - 1 \in Nat
  BY <1>1
<1>4. <<x - 1, x>> \in R
  BY <1>3, <1>1
<1>5. x - 1 \in S
  BY <1>2, <1>3, <1>4, <1>1
<1> QED BY <1>5, <1>3, <1>1

\* f is what starts with base and goes on with step, N times.
Iterates(f, N, S, base, step) ==
    /\ f \in [0..N -> S]
    /\ f[0] = base
    /\ \A n \in 1..N : f[n] = step[n][f[n - 1]]

LEMMA Recursion ==
  ASSUME NEW N \in Nat, NEW S, NEW base \in S, NEW step \in [1..N -> [S -> S]]
  PROVE  \E f : Iterates(f, N, S, base, step)
<1> DEFINE Upto(m) == \E f \in [0..m -> S] :
                f[0] = base /\ \A n \in 1..m : f[n] = step[n][f[n - 1]]
           T == {m \in Nat : m <= N => Upto(m)}
<1>1. Upto(0)
  <2> DEFINE g == [i \in 0..0 |-> base]
  <2>1. g \in [0..0 -> S]
    OBVIOUS
  <2>2. g[0] = base
    OBVIOUS
  <2>3. 1..0 = {}
    OBVIOUS
  <2> HIDE DEF g
  <2> QED BY <2>1, <2>2, <2>3
<1>2. ASSUME NEW m \in Nat, m + 1 <= N, Upto(m) PROVE Upto(m + 1)
  <2>1. PICK f \in [0..m -> S] : f[0] = base /\ \A n \in 1..m : f[n] = step[n][f[n - 1]]
    BY <1>2
  <2>2. m + 1 \in 1..N
    BY <1>2
  <2> DEFINE g == [i \in 0..(m + 1) |-> IF i = m + 1 THEN step[m + 1][f[m]] ELSE f[i]]
  <2>3. step[m + 1][f[m]] \in S
    BY <2>1, <2>2
  <2>4. \A i \in 0..m : i \in 0..(m + 1) /\ i # m + 1
    BY <1>2
  <2>5. g \in [0..(m + 1) -> S]
    BY <2>1, <2>3
  <2>6. g[0] = base
    BY <2>1, <2>4
  <2>7. ASSUME NEW n \in 1..(m + 1) PROVE g[n] = step[n][g[n - 1]]
    <3>1. n - 1 \in 0..m
      BY <1>2
    <3>2. g[n - 1] = f[n - 1]
      BY <3>1, <2>4
    <3>3. CASE n = m + 1
      BY <3>2, <3>3
    <3>4. CASE n # m + 1
      <4>1. n \in 1..m
        BY <3>4, <1>2
      <4> QED BY <4>1, <3>2, <2>1
    <3> QED BY <3>3, <3>4
  <2> HIDE DEF g
  <2> QED BY <2>5, <2>6, <2>7
<1>3. 0 \in T
  BY <1>1
<1>4. \A m \in T : m + 1 \in T
  <2> SUFFICES ASSUME NEW m \in T PROVE m + 1 \in T
    OBVIOUS
  <2>1. m \in Nat /\ (m <= N => Upto(m))
    OBVIOUS
  <2> HIDE DEF Upto
  <2>2. m + 1 <= N => Upto(m + 1)
    BY <2>1, <1>2
  <2> QED BY <2>1, <2>2
<1>5. T \in SUBSET Nat
  OBVIOUS
<1>6. N \in T
  <2> HIDE DEF T
  <2> QED BY <1>3, <1>4, <1>5, NatInductionSet
<1>7. Upto(N)
  <2> HIDE DEF Upto
  <2> QED BY <1>6
<1> QED BY <1>7 DEF Iterates

LEMMA BodyPartsStep ==
  ASSUME NEW P, NEW chunk \in Seq(P)
  PROVE  \E f \in [0..Len(chunk) -> Seq(P)] :
            /\ f[0] = <<>>
            /\ \A n \in 1..Len(chunk) : 
                f[n] = IF Session!IsBody(chunk[n]) THEN Append(f[n - 1], chunk[n]) ELSE f[n - 1]
            /\ Session!BodyParts(chunk) = f[Len(chunk)]
<1> DEFINE N == Len(chunk)
           step == [n \in 1..N |-> [s \in Seq(P) |-> IF Session!IsBody(chunk[n]) THEN Append(s, chunk[n]) ELSE s]]
<1>1. N \in Nat
  OBVIOUS
<1>2. step \in [1..N -> [Seq(P) -> Seq(P)]]
  OBVIOUS
<1>3. \E f \in [0..N -> Seq(P)] : f[0] = <<>> /\ \A n \in 1..N : f[n] = step[n][f[n - 1]]
  <2> DEFINE S == Seq(P)
             base == <<>>
  <2>1. base \in S
    OBVIOUS
  <2>2. step \in [1..N -> [S -> S]]
    BY <1>2
  <2> HIDE DEF N, step, S, base
  <2>3. \E f : Iterates(f, N, S, base, step)
    BY <1>1, <2>1, <2>2, Recursion
  <2> QED BY <2>3 DEF S, base, Iterates
<1>4. PICK f \in [0..N -> Seq(P)] : f[0] = <<>> /\ \A n \in 1..N : f[n] = step[n][f[n - 1]]
  BY <1>3
<1>5. \A n \in 1..N : f[n] = IF Session!IsBody(chunk[n]) THEN Append(f[n - 1], chunk[n]) ELSE f[n - 1]
  <2> SUFFICES ASSUME NEW n \in 1..N
               PROVE  f[n] = IF Session!IsBody(chunk[n]) THEN Append(f[n - 1], chunk[n]) ELSE f[n - 1]
    OBVIOUS
  <2>0. n - 1 \in 0..N
    BY <1>1
  <2>1. f[n - 1] \in Seq(P)
    BY <2>0, <1>4
  <2> QED BY <1>4, <2>1
<1> DEFINE Eq(g) == g = [n \in 0..Len(chunk) |-> IF n = 0 THEN <<>>
            ELSE IF Session!IsBody(chunk[n]) THEN Append(g[n - 1], chunk[n]) ELSE g[n - 1]]
<1>6. Eq(f)
  <2>1. \A n \in 0..Len(chunk) : f[n] = IF n = 0 THEN <<>>
            ELSE IF Session!IsBody(chunk[n]) THEN Append(f[n - 1], chunk[n]) ELSE f[n - 1]
    <3> SUFFICES ASSUME NEW n \in 0..Len(chunk)
                 PROVE  f[n] = IF n = 0 THEN <<>>
            ELSE IF Session!IsBody(chunk[n]) THEN Append(f[n - 1], chunk[n]) ELSE f[n - 1]
      OBVIOUS
    <3>1. CASE n = 0
      BY <1>4, <3>1
    <3>2. CASE n # 0
      <4>1. n \in 1..N
        BY <1>1, <3>2
      <4> QED BY <4>1, <3>2, <1>5
    <3> QED BY <3>1, <3>2
  <2> QED BY <2>1, <1>4
<1>7. Eq(CHOOSE g : Eq(g))
  <2> HIDE DEF Eq
  <2> QED BY <1>6
<1>8. Session!BodyParts(chunk) = (CHOOSE g : Eq(g))[Len(chunk)]
  BY DEF Session!BodyParts
<1> DEFINE g == CHOOSE h : Eq(h)
<1>9. ASSUME NEW n \in Nat PROVE n <= N => g[n] = f[n]
  <2> DEFINE T == {m \in Nat : m <= N => g[m] = f[m]}
  <2>1. g[0] = f[0]
    <3> HIDE DEF g
    <3>1. Eq(g)
      BY <1>7 DEF g
    <3>2. 0 \in 0..Len(chunk)
      BY <1>1
    <3>3. g[0] = <<>>
      BY <3>1, <3>2
    <3> QED BY <3>3, <1>4
  <2>2. ASSUME NEW m \in Nat, m <= N => g[m] = f[m], m + 1 <= N PROVE g[m + 1] = f[m + 1]
    <3>1. m + 1 \in 1..N /\ (m + 1) - 1 = m /\ m + 1 \in 0..Len(chunk) /\ m + 1 # 0
      BY <2>2, <1>1
    <3>2. g[m] = f[m]
      BY <2>2, <1>1
    <3>3. g[m + 1] = IF Session!IsBody(chunk[m + 1]) THEN Append(g[m], chunk[m + 1]) ELSE g[m]
      <4> HIDE DEF g
      <4>1. Eq(g)
        BY <1>7 DEF g
      <4>2. \A i \in 0..Len(chunk) : i # 0 => g[i] = IF Session!IsBody(chunk[i]) THEN Append(g[i - 1], chunk[i]) ELSE g[i - 1]
        BY <4>1
      <4> QED BY <4>2, <3>1
    <3>4. f[m + 1] = IF Session!IsBody(chunk[m + 1]) THEN Append(f[m], chunk[m + 1]) ELSE f[m]
      BY <3>1, <1>5
    <3> QED BY <3>2, <3>3, <3>4
  <2> HIDE DEF g
  <2>3. 0 \in T /\ T \in SUBSET Nat
    BY <2>1
  <2>4. ASSUME NEW m \in T PROVE m + 1 \in T
    BY <2>2
  <2>5. n \in T
    <3> HIDE DEF T
    <3> QED BY <2>3, <2>4, NatInductionSet
  <2> QED BY <2>5
<1>10. g[N] = f[N]
  <2> HIDE DEF g
  <2>1. N \in Nat /\ N <= N
    BY <1>1
  <2> HIDE DEF N
  <2> QED BY <2>1, <1>9
<1> QED BY <1>4, <1>5, <1>8, <1>10

\* What SubSeq and \o give, place by place.
LEMMA SubSeqFacts ==
    ASSUME NEW S, NEW s \in Seq(S), NEW m \in 1..(Len(s) + 1), NEW n \in (m - 1)..Len(s)
    PROVE  /\ SubSeq(s, m, n) \in Seq(S)
           /\ Len(SubSeq(s, m, n)) = n - m + 1
           /\ \A i \in 1..(n - m + 1) : SubSeq(s, m, n)[i] = s[m + i - 1]
<1>1. \A i \in m..n : s[i] \in S
  BY ElementOfSeq
<1>2. m \in Int /\ n \in Int /\ Len(s) \in Nat
  OBVIOUS
<1>3. /\ SubSeq(s, m, n) \in Seq(S)
      /\ Len(SubSeq(s, m, n)) = IF m <= n THEN n - m + 1 ELSE 0
      /\ \A i \in 1..(n - m + 1) : SubSeq(s, m, n)[i] = s[m + i - 1]
  BY <1>1, <1>2, SubSeqProperties
<1> QED
  BY <1>2, <1>3

LEMMA PartsValue == \A kind : Session!Parts(kind) \in {2, 4}
BY DEF Session!Parts

LEMMA PiecesFacts ==
    ASSUME NEW k \in Nat, NEW kind
    PROVE  /\ Session!Pieces(k, kind) \in Seq(Session!AnyPiece)
           /\ Len(Session!Pieces(k, kind)) = Session!Parts(kind)
           /\ \A n \in 1..Session!Parts(kind) : Session!Pieces(k, kind)[n] = Session!Piece(k, n)
<1>1. Session!Parts(kind) \in Nat
  BY PartsValue
<1>2. \A n \in 1..Session!Parts(kind) : Session!Piece(k, n) \in Session!AnyPiece
  BY <1>1 DEF Session!Piece, Session!AnyPiece
<1> QED
  BY <1>1, <1>2 DEF Session!Pieces

\* The body of a request sent.
LEMMA BodyFacts ==
    ASSUME NEW k \in Nat
    PROVE  /\ Session!Body(k) \in Seq(Session!AnyPiece)
           /\ Len(Session!Body(k)) = Session!Parts(sent[k]) - 2
           /\ \A i \in 1..(Session!Parts(sent[k]) - 2) : Session!Body(k)[i] = Session!Piece(k, i + 2)
<1> DEFINE n == Session!Parts(sent[k])
           s == Session!Pieces(k, sent[k])
<1>1. n \in {2, 4}
  BY PartsValue
<1>2. s \in Seq(Session!AnyPiece) /\ Len(s) = n /\ \A i \in 1..n : s[i] = Session!Piece(k, i)
  BY PiecesFacts
<1>3. 3 \in 1..(n + 1) /\ n \in (3 - 1)..n
  BY <1>1
<1>4. /\ SubSeq(s, 3, n) \in Seq(Session!AnyPiece)
      /\ Len(SubSeq(s, 3, n)) = n - 3 + 1
      /\ \A i \in 1..(n - 3 + 1) : SubSeq(s, 3, n)[i] = s[3 + i - 1]
  <2> HIDE DEF n, s
  <2> QED BY <1>2, <1>3, SubSeqFacts
<1>5. Session!Body(k) = SubSeq(s, 3, n)
  BY DEF Session!Body
<1>6. n - 3 + 1 = n - 2 /\ \A i \in 1..(n - 2) : 3 + i - 1 = i + 2 /\ i + 2 \in 1..n
  BY <1>1
<1> HIDE DEF n, s
<1>7. Len(Session!Body(k)) = n - 2
  BY <1>4, <1>5, <1>6
<1>8. \A i \in 1..(n - 2) : Session!Body(k)[i] = Session!Piece(k, i + 2)
  BY <1>2, <1>4, <1>5, <1>6
<1> QED BY <1>4, <1>5, <1>7, <1>8 DEF n

\* on_body_cb collects nothing but pieces of bodies, in no other order.
LEMMA BodyPartsType ==
    ASSUME NEW chunk \in Seq(Session!AnyPiece)
    PROVE  /\ Session!BodyParts(chunk) \in Seq(Session!AnyPiece)
           /\ \A i \in 1..Len(Session!BodyParts(chunk)) :
                \E j \in 1..Len(chunk) : Session!BodyParts(chunk)[i] = chunk[j]
<1> DEFINE P == Session!AnyPiece
           N == Len(chunk)
<1>1. PICK f \in [0..N -> Seq(P)] :
        /\ f[0] = <<>>
        /\ \A n \in 1..N :
            f[n] = IF Session!IsBody(chunk[n]) THEN Append(f[n - 1], chunk[n]) ELSE f[n - 1]
        /\ Session!BodyParts(chunk) = f[N]
  BY BodyPartsStep
<1>2. N \in Nat
  OBVIOUS
<1> DEFINE From(n) == \A i \in 1..Len(f[n]) : \E j \in 1..N : f[n][i] = chunk[j]
           T == {n \in Nat : n <= N => From(n)}
<1>3. From(0)
  BY <1>1
<1>4. ASSUME NEW n \in Nat, n + 1 <= N, From(n) PROVE From(n + 1)
  <2>1. n + 1 \in 1..N /\ n \in 0..N /\ (n + 1) - 1 = n
    BY <1>2, <1>4
  <2>2. f[n] \in Seq(P) /\ chunk[n + 1] \in P
    BY <2>1, <1>1, ElementOfSeq
  <2>3. f[n + 1] = IF Session!IsBody(chunk[n + 1]) THEN Append(f[n], chunk[n + 1]) ELSE f[n]
    BY <1>1, <2>1
  <2>4. CASE Session!IsBody(chunk[n + 1])
    <3>1. f[n + 1] = Append(f[n], chunk[n + 1])
      BY <2>3, <2>4
    <3>2. /\ Len(f[n + 1]) = Len(f[n]) + 1
          /\ \A i \in 1..Len(f[n]) : f[n + 1][i] = f[n][i]
          /\ f[n + 1][Len(f[n]) + 1] = chunk[n + 1]
      BY <3>1, <2>2, AppendProperties
    <3> QED BY <3>2, <2>1, <2>2, <1>4
  <2>5. CASE ~Session!IsBody(chunk[n + 1])
    BY <2>3, <2>5, <1>4
  <2> QED BY <2>4, <2>5
<1> HIDE DEF From
<1>5. 0 \in T
  BY <1>3
<1>6. \A n \in T : n + 1 \in T
  BY <1>4, <1>2
<1>7. T \in SUBSET Nat
  OBVIOUS
<1>8. N \in T
  <2> HIDE DEF T
  <2> QED BY <1>2, <1>5, <1>6, <1>7, NatInductionSet
<1>9. From(N)
  BY <1>8
<1> QED
  BY <1>9, <1>1, <1>2 DEF From

LEMMA SentFacts ==
    ASSUME Session!SessionTypeOK
    PROVE  /\ Len(sent) \in Nat /\ DOMAIN sent = 1..Len(sent)
           /\ Len(wire) \in Nat /\ DOMAIN wire = 1..Len(wire)
           /\ Len(req.Body) \in Nat /\ DOMAIN req.Body = 1..Len(req.Body)
           /\ Len(executed) \in Nat /\ DOMAIN executed = 1..Len(executed)
           /\ Len(responses) \in Nat /\ DOMAIN responses = 1..Len(responses)
BY DEF Session!SessionTypeOK

\* A request more: what has been sent stays what it was.
LEMMA SendFacts ==
    ASSUME Session!SessionTypeOK, Session!Send
    PROVE  \E kind \in Session!Kind :
             LET K == Len(sent) + 1
                 n == Session!Parts(kind)
             IN  /\ sent' \in Seq(Session!Kind) /\ Len(sent') = K
                 /\ \A k \in 1..Len(sent) : sent'[k] = sent[k]
                 /\ sent'[K] = kind /\ n \in {2, 4}
                 /\ wire' \in Seq(Session!AnyPiece) /\ Len(wire') = Len(wire) + n
                 /\ \A i \in 1..Len(wire) : wire'[i] = wire[i]
                 /\ \A i \in 1..n : wire'[Len(wire) + i] = Session!Piece(K, i)
<1>1. PICK kind \in Session!Kind :
        sent' = Append(sent, kind) /\ wire' = wire \o Session!Pieces(Len(sent) + 1, kind)
  BY DEF Session!Send
<1> DEFINE K == Len(sent) + 1
           n == Session!Parts(kind)
           s == Session!Pieces(K, kind)
<1>2. sent \in Seq(Session!Kind) /\ wire \in Seq(Session!AnyPiece)
  BY DEF Session!SessionTypeOK
<1>3. K \in Nat /\ Len(wire) \in Nat /\ Len(sent) \in Nat
  BY SentFacts
<1>4. n \in {2, 4}
  BY PartsValue
<1>5. s \in Seq(Session!AnyPiece) /\ Len(s) = n /\ \A i \in 1..n : s[i] = Session!Piece(K, i)
  BY <1>3, PiecesFacts
<1>6. /\ sent' \in Seq(Session!Kind) /\ Len(sent') = K
      /\ \A k \in 1..Len(sent) : sent'[k] = sent[k]
      /\ sent'[K] = kind
  BY <1>1, <1>2, AppendProperties
<1> HIDE DEF n, s, K
<1>7. /\ wire \o s \in Seq(Session!AnyPiece)
      /\ Len(wire \o s) = Len(wire) + Len(s)
      /\ \A i \in 1..(Len(wire) + Len(s)) : (wire \o s)[i] =
                IF i <= Len(wire) THEN wire[i] ELSE s[i - Len(wire)]
  BY <1>2, <1>5, ConcatProperties
<1>8. wire' = wire \o s
  BY <1>1 DEF s, K
<1>9. \A i \in 1..Len(wire) : wire'[i] = wire[i]
  BY <1>7, <1>8, <1>3, <1>4, <1>5
<1>10. ASSUME NEW i \in 1..n PROVE wire'[Len(wire) + i] = Session!Piece(K, i)
  <2>1. Len(wire) + i \in 1..(Len(wire) + Len(s)) /\ ~(Len(wire) + i <= Len(wire))
        /\ (Len(wire) + i) - Len(wire) = i
    BY <1>3, <1>4, <1>5
  <2> QED BY <2>1, <1>7, <1>8, <1>5
<1> QED
  BY <1>4, <1>5, <1>6, <1>7, <1>8, <1>9, <1>10 DEF n, K

\* What comes in one read, and what stays on the wire.
LEMMA ReadFacts ==
    ASSUME Session!SessionTypeOK, Session!Read
    PROVE  \E n \in 1..Len(wire), chunk \in Seq(Session!AnyPiece) :
             /\ Len(chunk) = n /\ \A i \in 1..n : chunk[i] = wire[i]
             /\ wire' \in Seq(Session!AnyPiece) /\ Len(wire') = Len(wire) - n
             /\ \A i \in 1..(Len(wire) - n) : wire'[i] = wire[n + i]
             /\ IF Session!Parses(chunk)
                THEN /\ req' = Session!Parsed(chunk)
                     /\ parser' = chunk[n]
                     /\ spc' = IF req'.IsMessageCompleteCalled THEN "answer" ELSE "read"
                     /\ cut' = (cut \/ (spc' = "answer" /\ ~Session!IsLast(chunk[n])))
                     /\ merged' = (merged \/ \E j \in 1..n : chunk[j].of # req'.line)
                ELSE spc' = "closed" /\ req' = req /\ parser' = parser
                     /\ cut' = cut /\ merged' = merged
<1> USE SentFacts
<1>1. PICK n \in 1..Len(wire) :
        LET chunk == SubSeq(wire, 1, n) IN
        /\ wire' = SubSeq(wire, n + 1, Len(wire))
        /\ IF Session!Parses(chunk)
           THEN /\ req' = Session!Parsed(chunk)
                /\ parser' = Session!Last(chunk)
                /\ spc' = IF req'.IsMessageCompleteCalled THEN "answer" ELSE "read"
                /\ cut' = (cut \/ (spc' = "answer" /\ ~Session!IsLast(Session!Last(chunk))))
                /\ merged' = (merged \/ \E j \in DOMAIN chunk : chunk[j].of # req'.line)
           ELSE spc' = "closed" /\ req' = req /\ parser' = parser
                /\ cut' = cut /\ merged' = merged
  BY DEF Session!Read, Session!readVars
<1> DEFINE chunk == SubSeq(wire, 1, n)
           rest == SubSeq(wire, n + 1, Len(wire))
<1>2. wire \in Seq(Session!AnyPiece)
  BY DEF Session!SessionTypeOK
<1>3. 1 \in 1..(Len(wire) + 1) /\ n \in (1 - 1)..Len(wire)
      /\ n + 1 \in 1..(Len(wire) + 1) /\ Len(wire) \in (n + 1 - 1)..Len(wire)
  OBVIOUS
<1>4. /\ chunk \in Seq(Session!AnyPiece) /\ Len(chunk) = n - 1 + 1
      /\ \A i \in 1..(n - 1 + 1) : chunk[i] = wire[1 + i - 1]
  BY <1>2, <1>3, SubSeqFacts
<1>5. /\ rest \in Seq(Session!AnyPiece) /\ Len(rest) = Len(wire) - (n + 1) + 1
      /\ \A i \in 1..(Len(wire) - (n + 1) + 1) : rest[i] = wire[n + 1 + i - 1]
  <2> DEFINE m == n + 1
  <2>1. m \in 1..(Len(wire) + 1) /\ Len(wire) \in (m - 1)..Len(wire)
    BY <1>3
  <2> HIDE DEF m
  <2>2. LET s == SubSeq(wire, m, Len(wire)) IN
        /\ s \in Seq(Session!AnyPiece) /\ Len(s) = Len(wire) - m + 1
        /\ \A i \in 1..(Len(wire) - m + 1) : s[i] = wire[m + i - 1]
    BY <1>2, <2>1, SubSeqFacts
  <2> QED BY <2>2 DEF m
<1>6. wire' = rest
  BY <1>1
<1> HIDE DEF rest
<1>7. Len(wire) - (n + 1) + 1 = Len(wire) - n /\ n - 1 + 1 = n
      /\ \A i \in 1..(Len(wire) - n) : n + 1 + i - 1 = n + i
  OBVIOUS
<1>8. wire' \in Seq(Session!AnyPiece) /\ Len(wire') = Len(wire) - n
             /\ \A i \in 1..(Len(wire) - n) : wire'[i] = wire[n + i]
  BY <1>5, <1>6, <1>7
<1>9. IF Session!Parses(chunk)
           THEN /\ req' = Session!Parsed(chunk)
                /\ parser' = Session!Last(chunk)
                /\ spc' = IF req'.IsMessageCompleteCalled THEN "answer" ELSE "read"
                /\ cut' = (cut \/ (spc' = "answer" /\ ~Session!IsLast(Session!Last(chunk))))
                /\ merged' = (merged \/ \E j \in DOMAIN chunk : chunk[j].of # req'.line)
           ELSE spc' = "closed" /\ req' = req /\ parser' = parser
                /\ cut' = cut /\ merged' = merged
  BY <1>1
<1> HIDE DEF chunk
<1>10. Len(chunk) = n /\ \A i \in 1..n : chunk[i] = wire[i]
  BY <1>4, <1>7
<1>11. Session!Last(chunk) = chunk[n] /\ DOMAIN chunk = 1..n
  BY <1>10, <1>4 DEF Session!Last
<1>12. IF Session!Parses(chunk)
                THEN /\ req' = Session!Parsed(chunk)
                     /\ parser' = chunk[n]
                     /\ spc' = IF req'.IsMessageCompleteCalled THEN "answer" ELSE "read"
                     /\ cut' = (cut \/ (spc' = "answer" /\ ~Session!IsLast(chunk[n])))
                     /\ merged' = (merged \/ \E j \in 1..n : chunk[j].of # req'.line)
                ELSE spc' = "closed" /\ req' = req /\ parser' = parser
                     /\ cut' = cut /\ merged' = merged
  BY <1>9, <1>11
<1> QED
  BY <1>4, <1>8, <1>10, <1>12

\* What a chunk makes of the request.
LEMMA ParsedFacts ==
    ASSUME Session!SessionTypeOK, NEW chunk \in Seq(Session!AnyPiece), Len(chunk) > 0
    PROVE  LET p == Session!Parsed(chunk) IN
           /\ p \in [line : Nat, Body : Seq(Session!AnyPiece), IsMessageCompleteCalled : BOOLEAN]
           /\ p.line = IF req.line = 0 THEN chunk[1].of ELSE req.line
           /\ p.Body = req.Body \o Session!BodyParts(chunk)
           /\ p.IsMessageCompleteCalled =
                (req.IsMessageCompleteCalled \/ \E j \in 1..Len(chunk) : Session!IsLast(chunk[j]))
<1>1. Len(chunk) \in Nat /\ DOMAIN chunk = 1..Len(chunk) /\ chunk[1] \in Session!AnyPiece
  BY ElementOfSeq
<1>2. Head(chunk) = chunk[1]
  BY <1>1
<1>3. chunk[1].of \in Nat
  BY <1>1 DEF Session!AnyPiece
<1>4. req.line \in Nat /\ req.Body \in Seq(Session!AnyPiece) /\ req.IsMessageCompleteCalled \in BOOLEAN
  BY DEF Session!SessionTypeOK
<1>5. Session!BodyParts(chunk) \in Seq(Session!AnyPiece)
  BY BodyPartsType
<1>6. req.Body \o Session!BodyParts(chunk) \in Seq(Session!AnyPiece)
  BY <1>4, <1>5, ConcatProperties
<1>7. Session!Parsed(chunk) =
        [line |-> IF req.line = 0 THEN chunk[1].of ELSE req.line,
         Body |-> req.Body \o Session!BodyParts(chunk),
         IsMessageCompleteCalled |->
            req.IsMessageCompleteCalled \/ \E j \in 1..Len(chunk) : Session!IsLast(chunk[j])]
  BY <1>1, <1>2 DEF Session!Parsed
<1> QED
  BY <1>3, <1>4, <1>6, <1>7

\* The frame of the actions: what each leaves alone.
LEMMA Frames ==
    /\ Session!Close => UNCHANGED <<pipelines, sent, spc, req, parser, executed, responses, cut, merged, late>>
    /\ Session!Send => UNCHANGED <<pipelines, gone, spc, req, parser, executed, responses, cut, merged, late>>
    /\ Session!NewRequest => UNCHANGED <<pipelines, sent, gone, wire, executed, responses, cut, merged, late>>
    /\ Session!Read => UNCHANGED <<pipelines, sent, gone, executed, responses, late>>
    /\ Session!ReadEnd => UNCHANGED <<pipelines, sent, gone, wire, req, parser, executed, responses, cut, merged, late>>
    /\ Session!Timeout => UNCHANGED <<pipelines, sent, gone, wire, req, parser, executed, responses, cut, merged>>
    /\ Session!AnswerOptions => UNCHANGED <<pipelines, sent, gone, wire, req, parser, executed, cut, merged, late>>
    /\ Session!Refuse => UNCHANGED <<pipelines, sent, gone, wire, req, parser, executed, cut, merged, late>>
    /\ Session!ProcessRequest => UNCHANGED <<pipelines, sent, gone, wire, req, parser, cut, merged, late>>
BY DEF Session!Close, Session!Send, Session!NewRequest, Session!Read, Session!ReadEnd, Session!Timeout,
       Session!AnswerOptions, Session!Refuse, Session!ProcessRequest,
       Session!clientVars, Session!readVars, Session!answerVars, Session!history

\* A body that parses is that of a call sent, and not empty.
LEMMA ParsedBody ==
    ASSUME Session!SessionTypeOK, Session!ParsesToMap(req.Body)
    PROVE  \E k \in 1..Len(sent) :
             /\ sent[k] \in DOMAIN Session!Dispatch /\ req.Body = Session!Body(k)
             /\ Len(req.Body) = 2 /\ Head(req.Body) = Session!Piece(k, 3)
             /\ req.Body[1] = Session!Piece(k, 3) /\ req.Body[2] = Session!Piece(k, 4)
<1>1. PICK k \in 1..Len(sent) : sent[k] \in DOMAIN Session!Dispatch /\ req.Body = Session!Body(k)
  BY SentFacts DEF Session!ParsesToMap
<1>2. Session!Parts(sent[k]) = 4
  BY <1>1 DEF Session!Parts, Session!Dispatch
<1>3. Session!Body(k) \in Seq(Session!AnyPiece) /\ Len(Session!Body(k)) = 2
      /\ Session!Body(k)[1] = Session!Piece(k, 3) /\ Session!Body(k)[2] = Session!Piece(k, 4)
  <2> k \in Nat OBVIOUS
  <2>1. /\ Session!Body(k) \in Seq(Session!AnyPiece)
        /\ Len(Session!Body(k)) = Session!Parts(sent[k]) - 2
        /\ \A i \in 1..(Session!Parts(sent[k]) - 2) : Session!Body(k)[i] = Session!Piece(k, i + 2)
    BY BodyFacts
  <2>2. Session!Parts(sent[k]) - 2 = 2 /\ 1 \in 1..2 /\ 2 \in 1..2 /\ 1 + 2 = 3 /\ 2 + 2 = 4
    BY <1>2
  <2> QED BY <2>1, <2>2
<1>4. Head(Session!Body(k)) = Session!Body(k)[1]
  BY <1>3
<1> QED
  BY <1>1, <1>3, <1>4

LEMMA DispatchFacts ==
    /\ \A kind \in DOMAIN Session!Dispatch : Session!Dispatch[kind] \in Session!Outcome
    /\ "empty" \in Session!Outcome /\ "error" \in Session!Outcome
BY DEF Session!Outcome

\* Appending an answer.
LEMMA AnswerType ==
    ASSUME Session!SessionTypeOK, NEW of \in Nat, NEW how \in Session!Outcome, NEW next \in {"new", "closed"},
           Session!Respond(of, how, next)
    PROVE  /\ responses' \in Seq([of : Nat, how : Session!Outcome])
           /\ \/ /\ responses' = Append(responses, [of |-> of, how |-> how])
                 /\ Len(responses') = Len(responses) + 1
                 /\ \A n \in 1..Len(responses) : responses'[n] = responses[n]
                 /\ responses'[Len(responses) + 1] = [of |-> of, how |-> how]
                 /\ spc' = next
              \/ gone /\ spc' = "closed" /\ responses' = responses
<1>1. responses \in Seq([of : Nat, how : Session!Outcome])
  BY DEF Session!SessionTypeOK
<1>2. CASE responses' = Append(responses, [of |-> of, how |-> how]) /\ spc' = next
  <2> DEFINE r == [of |-> of, how |-> how]
  <2>1. r \in [of : Nat, how : Session!Outcome]
    OBVIOUS
  <2> HIDE DEF r
  <2>2. /\ Append(responses, r) \in Seq([of : Nat, how : Session!Outcome])
        /\ Len(Append(responses, r)) = Len(responses) + 1
        /\ \A n \in 1..Len(responses) : Append(responses, r)[n] = responses[n]
        /\ Append(responses, r)[Len(responses) + 1] = r
    BY <1>1, <2>1, AppendProperties
  <2> QED BY <1>2, <2>2 DEF r
<1>3. CASE gone /\ spc' = "closed" /\ responses' = responses
  BY <1>1, <1>3
<1> QED
  BY <1>2, <1>3 DEF Session!Respond

LEMMA SessionTypeStep ==
    ASSUME Session!SessionTypeOK, Session!WireInv, Session!Next \/ UNCHANGED sessionVars
    PROVE  Session!SessionTypeOK'
<1> USE SentFacts
<1>1. CASE Session!Send
  <2>1. sent' \in Seq(Session!Kind) /\ wire' \in Seq(Session!AnyPiece) /\ Len(sent') = Len(sent) + 1
    BY <1>1, SendFacts
  <2>2. UNCHANGED <<pipelines, gone, spc, req, parser, executed, responses, cut, merged, late>>
    BY <1>1, Frames
  <2>3. req'.line \in 0..Len(sent')
    BY <2>1, <2>2 DEF Session!SessionTypeOK
  <2> QED BY <2>1, <2>2, <2>3 DEF Session!SessionTypeOK
<1>2. CASE Session!Close
  <2>1. PICK n \in 0..Len(wire) : gone' = TRUE /\ wire' = SubSeq(wire, 1, n)
    BY <1>2 DEF Session!Close
  <2>2. wire \in Seq(Session!AnyPiece)
    BY DEF Session!SessionTypeOK
  <2>3. 1 \in 1..(Len(wire) + 1) /\ n \in (1 - 1)..Len(wire)
    OBVIOUS
  <2>4. wire' \in Seq(Session!AnyPiece)
    BY <2>1, <2>2, <2>3, SubSeqFacts
  <2>5. UNCHANGED <<pipelines, sent, spc, req, parser, executed, responses, cut, merged, late>>
    BY <1>2, Frames
  <2> QED BY <2>1, <2>4, <2>5 DEF Session!SessionTypeOK
<1>3. CASE Session!NewRequest
  <2>1. PICK flag \in BOOLEAN : req' = Session!NewHttpRequest(flag)
    BY <1>3 DEF Session!NewRequest
  <2>2. parser' = Session!Between /\ spc' = "read"
    BY <1>3 DEF Session!NewRequest
  <2>3. req' \in [line : Nat, Body : Seq(Session!AnyPiece), IsMessageCompleteCalled : BOOLEAN]
        /\ req'.line = 0
    BY <2>1 DEF Session!NewHttpRequest
  <2>4. parser' \in Session!AnyPiece
    BY <2>2 DEF Session!Between, Session!Piece, Session!AnyPiece
  <2>5. UNCHANGED <<pipelines, sent, gone, wire, executed, responses, cut, merged, late>>
    BY <1>3, Frames
  <2> QED BY <2>2, <2>3, <2>4, <2>5 DEF Session!SessionTypeOK
<1>4. CASE Session!Read
  <2>1. PICK n \in 1..Len(wire), chunk \in Seq(Session!AnyPiece) :
             /\ Len(chunk) = n /\ \A i \in 1..n : chunk[i] = wire[i]
             /\ wire' \in Seq(Session!AnyPiece)
             /\ IF Session!Parses(chunk)
                THEN /\ req' = Session!Parsed(chunk)
                     /\ parser' = chunk[n]
                     /\ spc' = IF req'.IsMessageCompleteCalled THEN "answer" ELSE "read"
                     /\ cut' = (cut \/ (spc' = "answer" /\ ~Session!IsLast(chunk[n])))
                     /\ merged' = (merged \/ \E j \in 1..n : chunk[j].of # req'.line)
                ELSE spc' = "closed" /\ req' = req /\ parser' = parser
                     /\ cut' = cut /\ merged' = merged
    BY <1>4, ReadFacts
  <2>2. UNCHANGED <<pipelines, sent, gone, executed, responses, late>>
    BY <1>4, Frames
  <2>3. CASE ~Session!Parses(chunk)
    BY <2>1, <2>2, <2>3 DEF Session!SessionTypeOK
  <2>4. CASE Session!Parses(chunk)
    <3>1. req' \in [line : Nat, Body : Seq(Session!AnyPiece), IsMessageCompleteCalled : BOOLEAN]
          /\ req'.line = IF req.line = 0 THEN chunk[1].of ELSE req.line
      BY <2>1, <2>4, ParsedFacts
    <3>2. chunk[1].of \in 1..Len(sent)
      BY <2>1 DEF Session!WireInv, Session!OfStream
    <3>3. req'.line \in 1..Len(sent')
      BY <3>1, <3>2, <2>2 DEF Session!SessionTypeOK
    <3>4. parser' \in Session!AnyPiece
      BY <2>1, <2>4, ElementOfSeq
    <3>5. cut' \in BOOLEAN /\ merged' \in BOOLEAN
      BY <2>1, <2>4 DEF Session!SessionTypeOK
    <3>6. spc' \in {"answer", "read"}
      BY <2>1, <2>4
    <3>7. wire' \in Seq(Session!AnyPiece)
      BY <2>1
    <3> QED BY <3>1, <3>3, <3>4, <3>5, <3>6, <3>7, <2>2 DEF Session!SessionTypeOK
  <2> QED BY <2>3, <2>4
<1>5. CASE Session!ReadEnd
  BY <1>5, Frames DEF Session!ReadEnd, Session!SessionTypeOK
<1>6. CASE Session!Timeout
  <2>1. late' \in BOOLEAN
    BY <1>6 DEF Session!Timeout, Session!SessionTypeOK
  <2> QED BY <1>6, <2>1, Frames DEF Session!Timeout, Session!SessionTypeOK
<1>7. CASE Session!AnswerOptions
  <2>1. Session!Respond(req.line, "empty", "new") /\ req.line \in Nat
    BY <1>7 DEF Session!AnswerOptions, Session!SessionTypeOK
  <2>2. responses' \in Seq([of : Nat, how : Session!Outcome]) /\ spc' \in {"new", "closed"}
    BY <2>1, AnswerType, DispatchFacts
  <2> QED BY <1>7, <2>2, Frames DEF Session!SessionTypeOK
<1>8. CASE Session!Refuse
  <2>1. Session!Respond(req.line, "error", "closed") /\ req.line \in Nat
    BY <1>8 DEF Session!Refuse, Session!SessionTypeOK
  <2>2. responses' \in Seq([of : Nat, how : Session!Outcome]) /\ spc' \in {"new", "closed"}
    BY <2>1, AnswerType, DispatchFacts
  <2> QED BY <1>8, <2>2, Frames DEF Session!SessionTypeOK
<1>9. CASE Session!ProcessRequest
  <2>1. PICK k \in 1..Len(sent) :
             /\ sent[k] \in DOMAIN Session!Dispatch /\ Head(req.Body) = Session!Piece(k, 3)
    BY <1>9, ParsedBody DEF Session!ProcessRequest
  <2>2. Head(req.Body).of = k
    BY <2>1 DEF Session!Piece
  <2>3. Session!Respond(k, Session!Dispatch[sent[k]], "new")
    BY <1>9, <2>2 DEF Session!ProcessRequest
  <2>4. Session!Dispatch[sent[k]] \in Session!Outcome /\ k \in Nat
    BY <2>1, DispatchFacts
  <2>5. responses' \in Seq([of : Nat, how : Session!Outcome]) /\ spc' \in {"new", "closed"}
    BY <2>3, <2>4, AnswerType
  <2>6. executed' = IF sent[k] = "call" THEN Append(executed, req.Body) ELSE executed
    BY <1>9, <2>2 DEF Session!ProcessRequest
  <2>7. executed' \in Seq(Seq(Session!AnyPiece))
    BY <2>6 DEF Session!SessionTypeOK
  <2> QED BY <1>9, <2>5, <2>7, Frames DEF Session!SessionTypeOK
<1>10. CASE UNCHANGED sessionVars
  BY <1>10 DEF sessionVars, Session!SessionTypeOK
<1> QED
  BY <1>1, <1>2, <1>3, <1>4, <1>5, <1>6, <1>7, <1>8, <1>9, <1>10 DEF Session!Next, Session!Server

\* What stays of the wire when its beginning is read or its end is lost.
Stays(m, L) ==
    /\ m + L <= Len(wire)
    /\ gone' \/ (~gone /\ L = Len(wire) - m)
    /\ wire' \in Seq(Session!AnyPiece) /\ Len(wire') = L
    /\ \A i \in 1..L : wire'[i] = wire[m + i]
    /\ sent' = sent

LEMMA WirePart ==
    ASSUME Session!SessionTypeOK, Session!WireInv,
           NEW m \in 0..Len(wire), NEW L \in 0..Len(wire), Stays(m, L)
    PROVE  Session!WireInv'
<1>0. Len(wire) \in Nat /\ m \in Nat /\ L \in Nat /\ m + L <= Len(wire) /\ DOMAIN wire = 1..Len(wire)
      /\ Len(sent) \in Nat
  BY SentFacts DEF Stays
<1>1. DOMAIN wire' = 1..L
  BY DEF Stays
<1>a. ASSUME NEW i \in 1..L PROVE wire'[i] = wire[m + i]
  BY DEF Stays
<1>b. sent' = sent /\ Len(wire') = L
  BY DEF Stays
<1>c. gone' \/ (~gone /\ m + L = Len(wire))
  <2>1. gone' \/ (~gone /\ L = Len(wire) - m)
    BY Zenon DEF Stays
  <2>2. L = Len(wire) - m => m + L = Len(wire)
    BY <1>0
  <2> QED BY <2>1, <2>2, Zenon
<1>2. ASSUME NEW i \in 1..L PROVE m + i \in 1..Len(wire)
  BY <1>0
<1>3. ASSUME NEW i \in 1..L PROVE Session!OfStream(wire[i])'
  <2>1. Session!OfStream(wire[m + i])
    BY <1>2, <1>0 DEF Session!WireInv
  <2> QED BY <2>1, <1>a, <1>b DEF Session!OfStream
<1>4. \A i, j \in 1..L : i < j => Session!Earlier(wire'[i], wire'[j])
  <2> SUFFICES ASSUME NEW i \in 1..L, NEW j \in 1..L, i < j
               PROVE  Session!Earlier(wire'[i], wire'[j])
    OBVIOUS
  <2>1. m + i < m + j /\ m + i \in 1..Len(wire) /\ m + j \in 1..Len(wire)
    BY <1>2, <1>0
  <2>2. Session!Earlier(wire[m + i], wire[m + j])
    BY <2>1, <1>0 DEF Session!WireInv
  <2> QED BY <2>2, <1>a
<1>5. ASSUME NEW i \in 1..(L - 1) PROVE wire'[i + 1] = Session!After(wire[i])'
  <2>1. i \in 1..L /\ i + 1 \in 1..L /\ m + i \in 1..(Len(wire) - 1) /\ m + (i + 1) = (m + i) + 1
    BY <1>0
  <2>2. wire'[i] = wire[m + i] /\ wire'[i + 1] = wire[m + (i + 1)]
    BY <2>1, <1>a
  <2>3. wire[(m + i) + 1] = Session!After(wire[m + i])
    BY <2>1 DEF Session!WireInv
  <2> QED BY <2>1, <2>2, <2>3, <1>b DEF Session!After, Session!IsLast
<1>6. ASSUME ~gone', wire' # <<>>
      PROVE  Session!After(wire[Len(wire)])' = Session!Piece(Len(sent') + 1, 1)
  <2>1. L # 0
    BY <1>6, <1>1, <1>b DEF Stays
  <2>a. m + L = Len(wire) /\ ~gone
    BY <1>6, <1>c, Zenon
  <2>b. L \in 1..L
    BY <2>1, <1>0
  <2>2. L \in 1..L /\ m + L = Len(wire) /\ ~gone
    BY <2>a, <2>b, Zenon
  <2>3. wire'[L] = wire[Len(wire)]
    BY <2>2, <1>a
  <2>4. wire # <<>>
    BY <2>1, <2>2, <1>0
  <2>5. Session!After(wire[Len(wire)]) = Session!Piece(Len(sent) + 1, 1)
    BY <2>2, <2>4 DEF Session!WireInv
  <2> QED BY <2>3, <2>5, <1>b DEF Session!After, Session!IsLast
<1> QED BY <1>1, <1>3, <1>4, <1>5, <1>6, <1>b DEF Session!WireInv

\* The wire.
LEMMA WireStep ==
    ASSUME Session!SessionTypeOK, Session!SessionTypeOK', Session!WireInv,
           Session!Next \/ UNCHANGED sessionVars
    PROVE  Session!WireInv'
<1> USE SentFacts
<1>1. CASE Session!Send
  <2>a. PICK kind \in Session!Kind :
             LET K == Len(sent) + 1
                 n == Session!Parts(kind)
             IN  /\ sent' \in Seq(Session!Kind) /\ Len(sent') = K
                 /\ \A k \in 1..Len(sent) : sent'[k] = sent[k]
                 /\ sent'[K] = kind /\ n \in {2, 4}
                 /\ wire' \in Seq(Session!AnyPiece) /\ Len(wire') = Len(wire) + n
                 /\ \A i \in 1..Len(wire) : wire'[i] = wire[i]
                 /\ \A i \in 1..n : wire'[Len(wire) + i] = Session!Piece(K, i)
    BY <1>1, SendFacts
  <2>b. PICK K \in Nat : K = Len(sent) + 1
    OBVIOUS
  <2>c. PICK n \in {2, 4} : n = Session!Parts(kind)
    BY <2>a
  <2>d. PICK L \in Nat : L = Len(wire)
    OBVIOUS
  <2>e. \A i \in 1..L : wire'[i] = wire[i]
    BY <2>a, <2>d
  <2>f. \A i \in 1..n : wire'[L + i] = Session!Piece(K, i)
    BY <2>a, <2>b, <2>c, <2>d
  <2>g. \A k \in 1..Len(sent) : sent'[k] = sent[k]
    BY <2>a
  <2>h. sent'[K] = kind
    BY <2>a, <2>b
  <2>i. wire' \in Seq(Session!AnyPiece) /\ Len(wire') = L + n
    BY <2>a, <2>c, <2>d
  <2>j. sent' \in Seq(Session!Kind) /\ Len(sent') = K
    BY <2>a, <2>b
  <2>1. DOMAIN wire' = 1..(L + n) /\ DOMAIN sent' = 1..K
    BY <2>i, <2>j
  <2>2. ~gone /\ gone' = gone
    BY <1>1 DEF Session!Send
  <2>3. ASSUME NEW i \in 1..L
        PROVE  /\ wire[i].of \in 1..Len(sent) /\ wire[i].part \in 1..Session!Parts(sent[wire[i].of])
               /\ sent'[wire[i].of] = sent[wire[i].of] /\ wire[i].of \in 1..K /\ wire[i].of < K
    <3>1. Session!OfStream(wire[i])
      BY <2>d DEF Session!WireInv
    <3>2. wire[i].of \in 1..Len(sent) /\ wire[i].part \in 1..Session!Parts(sent[wire[i].of])
      BY <3>1 DEF Session!OfStream
    <3>3. wire[i].of \in 1..K /\ wire[i].of < K
      BY <3>2, <2>b
    <3> QED BY <3>2, <3>3, <2>g
  <2>4. ASSUME NEW i \in 1..n PROVE wire'[L + i].of = K /\ wire'[L + i].part = i
    <3>1. wire'[L + i] = Session!Piece(K, i)
      BY <2>f
    <3> QED BY <3>1 DEF Session!Piece
  <2>5. ASSUME NEW i \in 1..(L + n) PROVE i \in 1..L \/ \E j \in 1..n : i = L + j
    <3>1. CASE i <= L
      BY <3>1
    <3>2. CASE i > L
      <4>1. i - L \in 1..n /\ i = L + (i - L)
        BY <3>2
      <4> QED BY <4>1
    <3> QED BY <3>1, <3>2
  <2>6. ASSUME NEW i \in 1..(L + n) PROVE Session!OfStream(wire[i])'
    <3>1. CASE i \in 1..L
      BY <3>1, <2>e, <2>1, <2>3 DEF Session!OfStream
    <3>2. CASE \E j \in 1..n : i = L + j
      <4>1. PICK j \in 1..n : i = L + j
        BY <3>2
      <4>2. wire'[i].of = K /\ wire'[i].part = j /\ K \in 1..K
        BY <4>1, <2>4, <2>b
      <4> QED BY <4>2, <2>1, <2>c, <2>h DEF Session!OfStream
    <3> QED BY <3>1, <3>2, <2>5
  <2>7. ASSUME NEW i \in 1..(L + n), NEW j \in 1..(L + n), i < j
        PROVE  Session!Earlier(wire'[i], wire'[j])
    <3>1. CASE i \in 1..L /\ j \in 1..L
      <4>1. Session!Earlier(wire[i], wire[j])
        BY <3>1, <2>7, <2>d DEF Session!WireInv
      <4> QED BY <4>1, <3>1, <2>e
    <3>2. CASE i \in 1..L /\ \E q \in 1..n : j = L + q
      <4>1. wire'[i].of < K
        BY <3>2, <2>3, <2>e
      <4>2. wire'[j].of = K
        BY <3>2, <2>4
      <4> QED BY <4>1, <4>2 DEF Session!Earlier
    <3>3. CASE \E p, q \in 1..n : i = L + p /\ j = L + q
      <4>1. PICK p, q \in 1..n : i = L + p /\ j = L + q
        BY <3>3
      <4>2. p < q
        BY <4>1, <2>7
      <4>3. wire'[i].of = K /\ wire'[i].part = p /\ wire'[j].of = K /\ wire'[j].part = q
        BY <4>1, <2>4
      <4> QED BY <4>2, <4>3 DEF Session!Earlier
    <3>4. ~((\E p \in 1..n : i = L + p) /\ j \in 1..L)
      BY <2>7
    <3> QED BY <3>1, <3>2, <3>3, <3>4, <2>5
  <2>8. ASSUME NEW i \in 1..(L + n - 1) PROVE wire'[i + 1] = Session!After(wire[i])'
    <3>0. i \in 1..(L + n) /\ i + 1 \in 1..(L + n)
      OBVIOUS
    <3>a. ASSUME i \in 1..L PROVE Session!After(wire[i])' = Session!After(wire[i])
      BY <3>a, <2>e, <2>3 DEF Session!After, Session!IsLast
    <3>1. CASE i + 1 \in 1..L
      <4>1. i \in 1..L /\ i \in 1..(Len(wire) - 1)
        BY <3>1, <2>d, <3>0
      <4>2. wire[i + 1] = Session!After(wire[i])
        BY <4>1 DEF Session!WireInv
      <4>3. wire'[i + 1] = wire[i + 1]
        BY <3>1, <2>e
      <4> QED BY <4>1, <4>2, <4>3, <3>a
    <3>2. CASE i = L
      <4>1. L \in 1..L /\ L = Len(wire) /\ wire # <<>> /\ 1 \in 1..n
        BY <3>2, <2>d
      <4>2. wire'[L + 1] = Session!Piece(K, 1)
        BY <4>1, <2>f
      <4>3. Session!After(wire[L]) = Session!Piece(K, 1)
        BY <4>1, <2>2, <2>b DEF Session!WireInv
      <4> QED BY <4>1, <4>2, <4>3, <3>2, <3>a
    <3>3. CASE \E j \in 1..n : i = L + j
      <4>1. PICK j \in 1..n : i = L + j
        BY <3>3
      <4>2. j + 1 \in 1..n /\ i + 1 = L + (j + 1) /\ j # n
        BY <4>1, <3>0
      <4>3. wire'[i] = Session!Piece(K, j) /\ wire'[i + 1] = Session!Piece(K, j + 1)
        BY <4>1, <4>2, <2>f
      <4>4. ~Session!IsLast(wire[i])'
        BY <4>3, <4>2, <2>h, <2>c DEF Session!IsLast, Session!Piece
      <4> QED BY <4>3, <4>4 DEF Session!After, Session!Piece
    <3> QED
      <4>1. i + 1 \in 1..L \/ i = L \/ i > L
        BY <3>0
      <4>2. i > L => i \notin 1..L
        BY <3>0
      <4> QED BY <4>1, <4>2, <3>0, <3>1, <3>2, <3>3, <2>5
  <2>9. Session!After(wire[Len(wire)])' = Session!Piece(Len(sent') + 1, 1)
    <3>0. n \in 1..n
      OBVIOUS
    <3>1. wire'[Len(wire')] = Session!Piece(K, n)
      BY <3>0, <2>f, <2>i
    <3>2. Session!IsLast(wire[Len(wire)])'
      BY <3>1, <2>h, <2>c DEF Session!IsLast, Session!Piece
    <3> QED BY <3>1, <3>2, <2>j DEF Session!After, Session!Piece
  <2>10. /\ \A i \in DOMAIN wire' : Session!OfStream(wire[i])'
         /\ \A i, j \in DOMAIN wire' : i < j => Session!Earlier(wire'[i], wire'[j])
    BY <2>1, <2>6, <2>7
  <2>11. \A i \in 1..(Len(wire') - 1) : wire'[i + 1] = Session!After(wire[i])'
    <3>1. Len(wire') - 1 = L + n - 1
      BY <2>i
    <3> QED BY <2>8, <3>1, Zenon
  <2> QED BY <2>9, <2>10, <2>11 DEF Session!WireInv
<1>3. CASE Session!Close
  <2>1. PICK n \in 0..Len(wire) : gone' = TRUE /\ wire' = SubSeq(wire, 1, n)
    BY <1>3 DEF Session!Close
  <2>2. wire \in Seq(Session!AnyPiece)
    BY DEF Session!SessionTypeOK
  <2>3. 1 \in 1..(Len(wire) + 1) /\ n \in (1 - 1)..Len(wire)
    OBVIOUS
  <2>4. /\ wire' \in Seq(Session!AnyPiece) /\ Len(wire') = n - 1 + 1
        /\ \A i \in 1..(n - 1 + 1) : wire'[i] = wire[1 + i - 1]
    BY <2>1, <2>2, <2>3, SubSeqFacts
  <2>5. n - 1 + 1 = n /\ \A i \in 1..n : 1 + i - 1 = 0 + i
    OBVIOUS
  <2>6. Len(wire') = n /\ (\A i \in 1..n : wire'[i] = wire[0 + i]) /\ 0 + n <= Len(wire)
    BY <2>4, <2>5
  <2>7. sent' = sent
    BY <1>3, Frames
  <2>8. 0 \in 0..Len(wire) /\ n \in 0..Len(wire)
    OBVIOUS
  <2>9. Stays(0, n)
    BY <2>1, <2>4, <2>6, <2>7 DEF Stays
  <2> QED BY <2>8, <2>9, WirePart
<1>4. CASE Session!Read
  <2>1. PICK n \in 1..Len(wire) :
             /\ wire' \in Seq(Session!AnyPiece) /\ Len(wire') = Len(wire) - n
             /\ \A i \in 1..(Len(wire) - n) : wire'[i] = wire[n + i]
    BY <1>4, ReadFacts
  <2> DEFINE L == Len(wire) - n
  <2>2. L \in 0..Len(wire) /\ n + L <= Len(wire) /\ n \in 0..Len(wire)
    OBVIOUS
  <2>3. Len(wire') = L /\ \A i \in 1..L : wire'[i] = wire[n + i]
    BY <2>1
  <2>4. sent' = sent /\ gone' = gone
    BY <1>4, Frames
  <2>5. L = Len(wire) - n
    OBVIOUS
  <2>6. Stays(n, L)
    <3> HIDE DEF L
    <3>1. gone' \/ ~gone
      BY <2>4 DEF Session!SessionTypeOK
    <3> QED BY <3>1, <2>1, <2>2, <2>3, <2>4, <2>5 DEF Stays
  <2> HIDE DEF L
  <2> QED BY <2>2, <2>6, WirePart
<1>5. CASE UNCHANGED <<sent, wire, gone>>
  BY <1>5 DEF Session!WireInv, Session!OfStream, Session!After, Session!IsLast
<1>6. Session!Send \/ Session!Close \/ Session!Read \/ UNCHANGED <<sent, wire, gone>>
  BY Frames DEF Session!Next, Session!Server, sessionVars
<1> QED
  BY <1>1, <1>3, <1>4, <1>5, <1>6

\* Of two pieces, the one that stands earlier is of no later request.
LEMMA EarlierAfterBody ==
    ASSUME NEW k \in Nat, NEW q \in Session!AnyPiece, Session!OfStream(q),
           Session!Parts(sent[k]) = 4, Session!Earlier(Session!Piece(k, 4), q)
    PROVE  k < q.of
<1>1. q.of \in Nat /\ q.part \in Nat
  BY DEF Session!AnyPiece
<1>2. CASE q.of = k
  <2>1. q.part \in 1..4
    BY <1>2 DEF Session!OfStream
  <2>2. 4 < q.part
    BY <1>2, <1>1 DEF Session!Earlier, Session!Piece
  <2> QED BY <2>1, <2>2
<1>3. CASE q.of # k
  BY <1>3, <1>1 DEF Session!Earlier, Session!Piece
<1> QED BY <1>2, <1>3

\* Reading collects what was on the wire.
LEMMA ReadBody ==
    ASSUME Session!SessionTypeOK, Session!Read
    PROVE  \E n \in 1..Len(wire) :
             /\ DOMAIN wire' = 1..(Len(wire) - n)
             /\ \A j \in 1..(Len(wire) - n) : wire'[j] = wire[n + j]
             /\ \A i \in DOMAIN req'.Body :
                    \/ \E j \in DOMAIN req.Body : req'.Body[i] = req.Body[j]
                    \/ \E j \in 1..n : req'.Body[i] = wire[j]
<1> USE SentFacts
<1>1. PICK n \in 1..Len(wire), chunk \in Seq(Session!AnyPiece) :
             /\ Len(chunk) = n /\ \A i \in 1..n : chunk[i] = wire[i]
             /\ wire' \in Seq(Session!AnyPiece) /\ Len(wire') = Len(wire) - n
             /\ \A i \in 1..(Len(wire) - n) : wire'[i] = wire[n + i]
             /\ (req' = Session!Parsed(chunk) \/ req' = req)
  BY ReadFacts
<1>2. DOMAIN wire' = 1..(Len(wire) - n)
  BY <1>1
<1>3. ASSUME req' = Session!Parsed(chunk), NEW i \in DOMAIN req'.Body
      PROVE  \/ \E j \in DOMAIN req.Body : req'.Body[i] = req.Body[j]
             \/ \E j \in 1..n : req'.Body[i] = wire[j]
  <2> DEFINE B == Session!BodyParts(chunk)
  <2>0. Len(chunk) > 0
    BY <1>1
  <2>1. req'.Body = req.Body \o B
    BY <2>0, <1>3, ParsedFacts
  <2>2. B \in Seq(Session!AnyPiece) /\ \A q \in 1..Len(B) : \E j \in 1..n : B[q] = chunk[j]
    BY <1>1, BodyPartsType
  <2>3. req.Body \in Seq(Session!AnyPiece)
    BY DEF Session!SessionTypeOK
  <2> HIDE DEF B
  <2>4. /\ Len(req.Body \o B) = Len(req.Body) + Len(B)
        /\ (req.Body \o B) \in Seq(Session!AnyPiece)
        /\ \A q \in 1..(Len(req.Body) + Len(B)) : (req.Body \o B)[q] =
                IF q <= Len(req.Body) THEN req.Body[q] ELSE B[q - Len(req.Body)]
    BY <2>2, <2>3, ConcatProperties
  <2>5. i \in 1..(Len(req.Body) + Len(B)) /\ Len(B) \in Nat
    BY <2>1, <2>2, <2>4, <1>3
  <2>6. CASE i <= Len(req.Body)
    <3>1. i \in DOMAIN req.Body
      BY <2>5, <2>6
    <3> QED BY <3>1, <2>5, <2>6, <2>1, <2>4
  <2>7. CASE i > Len(req.Body)
    <3>1. i - Len(req.Body) \in 1..Len(B) /\ ~(i <= Len(req.Body))
      BY <2>5, <2>7
    <3>2. req'.Body[i] = B[i - Len(req.Body)]
      BY <3>1, <2>5, <2>1, <2>4
    <3>3. PICK j \in 1..n : B[i - Len(req.Body)] = chunk[j]
      BY <3>1, <2>2
    <3> QED BY <3>2, <3>3, <1>1
  <2> QED BY <2>5, <2>6, <2>7
<1>4. ASSUME req' = req, NEW i \in DOMAIN req'.Body
      PROVE  \E j \in DOMAIN req.Body : req'.Body[i] = req.Body[j]
  BY <1>4
<1> QED BY <1>1, <1>2, <1>3, <1>4

\* What has been collected is of requests sent, and stands before what is to come.
LEMMA CollectedStep ==
    ASSUME Session!SessionTypeOK, Session!SessionTypeOK', Session!WireInv, Session!WireInv',
           Session!CollectedInv, Session!Next \/ UNCHANGED sessionVars
    PROVE  Session!CollectedInv'
<1> USE SentFacts
<1>1. CASE Session!Send
  <2>a. PICK kind \in Session!Kind :
             LET K == Len(sent) + 1
                 n == Session!Parts(kind)
             IN  /\ sent' \in Seq(Session!Kind) /\ Len(sent') = K
                 /\ \A k \in 1..Len(sent) : sent'[k] = sent[k]
                 /\ sent'[K] = kind /\ n \in {2, 4}
                 /\ wire' \in Seq(Session!AnyPiece) /\ Len(wire') = Len(wire) + n
                 /\ \A i \in 1..Len(wire) : wire'[i] = wire[i]
                 /\ \A i \in 1..n : wire'[Len(wire) + i] = Session!Piece(K, i)
    BY <1>1, SendFacts
  <2>b. PICK K \in Nat : K = Len(sent) + 1
    OBVIOUS
  <2>c. PICK n \in {2, 4} : n = Session!Parts(kind)
    BY <2>a
  <2>d. PICK L \in Nat : L = Len(wire)
    OBVIOUS
  <2>e. \A i \in 1..L : wire'[i] = wire[i]
    BY <2>a, <2>d
  <2>f. \A i \in 1..n : wire'[L + i] = Session!Piece(K, i)
    BY <2>a, <2>b, <2>c, <2>d
  <2>g. (\A k \in 1..Len(sent) : sent'[k] = sent[k]) /\ DOMAIN sent' = 1..K
    BY <2>a, <2>b
  <2>i. DOMAIN wire' = 1..(L + n)
    BY <2>a, <2>c, <2>d
  <2>j. req' = req
    BY <1>1, Frames
  <2>1. ASSUME NEW i \in DOMAIN req.Body
        PROVE  /\ Session!OfStream(req.Body[i])'
               /\ \A j \in DOMAIN wire' : Session!Earlier(req.Body[i], wire'[j])
    <3>1. req.Body[i].of \in 1..Len(sent)
          /\ req.Body[i].part \in 1..Session!Parts(sent[req.Body[i].of])
      BY DEF Session!CollectedInv, Session!OfStream
    <3>2. Session!OfStream(req.Body[i])'
      BY <3>1, <2>g, <2>b, <2>j DEF Session!OfStream
    <3>3. ASSUME NEW j \in 1..(L + n) PROVE Session!Earlier(req.Body[i], wire'[j])
      <4>1. CASE j <= L
        <5>1. j \in 1..L
          BY <4>1
        <5>2. Session!Earlier(req.Body[i], wire[j])
          BY <5>1, <2>d DEF Session!CollectedInv
        <5> QED BY <5>1, <5>2, <2>e
      <4>2. CASE j > L
        <5>1. j - L \in 1..n /\ j = L + (j - L)
          BY <4>2
        <5>2. wire'[j] = Session!Piece(K, j - L)
          BY <5>1, <2>f
        <5>3. req.Body[i].of < K
          BY <3>1, <2>b
        <5> QED BY <5>2, <5>3 DEF Session!Earlier, Session!Piece
      <4> QED BY <4>1, <4>2
    <3> QED BY <3>2, <3>3, <2>i
  <2> QED BY <2>1, <2>j DEF Session!CollectedInv
<1>2. CASE Session!Close
  <2>1. PICK n \in 0..Len(wire) : wire' = SubSeq(wire, 1, n)
    BY <1>2 DEF Session!Close
  <2>2. wire \in Seq(Session!AnyPiece)
    BY DEF Session!SessionTypeOK
  <2>3. 1 \in 1..(Len(wire) + 1) /\ n \in (1 - 1)..Len(wire)
    OBVIOUS
  <2>4. /\ wire' \in Seq(Session!AnyPiece) /\ Len(wire') = n - 1 + 1
        /\ \A i \in 1..(n - 1 + 1) : wire'[i] = wire[1 + i - 1]
    BY <2>1, <2>2, <2>3, SubSeqFacts
  <2>5. n - 1 + 1 = n /\ \A i \in 1..n : 1 + i - 1 = i
    OBVIOUS
  <2>6. DOMAIN wire' = 1..n /\ \A i \in 1..n : wire'[i] = wire[i] /\ i \in 1..Len(wire)
    BY <2>4, <2>5
  <2>7. UNCHANGED <<sent, req>>
    BY <1>2, Frames
  <2> QED BY <2>6, <2>7 DEF Session!CollectedInv, Session!OfStream
<1>3. CASE Session!NewRequest
  <2>1. req'.Body = <<>>
    BY <1>3 DEF Session!NewRequest, Session!NewHttpRequest
  <2> QED BY <2>1 DEF Session!CollectedInv
<1>4. CASE Session!Read
  <2>1. PICK n \in 1..Len(wire) :
             /\ DOMAIN wire' = 1..(Len(wire) - n)
             /\ \A j \in 1..(Len(wire) - n) : wire'[j] = wire[n + j]
             /\ \A i \in DOMAIN req'.Body :
                    \/ \E j \in DOMAIN req.Body : req'.Body[i] = req.Body[j]
                    \/ \E j \in 1..n : req'.Body[i] = wire[j]
    BY <1>4, ReadBody
  <2>2. UNCHANGED sent
    BY <1>4, Frames
  <2>4. ASSUME NEW j \in 1..(Len(wire) - n) PROVE wire'[j] = wire[n + j] /\ n + j \in 1..Len(wire)
    BY <2>1
  <2>7. ASSUME NEW i \in DOMAIN req'.Body
        PROVE  /\ Session!OfStream(req.Body[i])'
               /\ \A j \in DOMAIN wire' : Session!Earlier(req'.Body[i], wire'[j])
    <3>1. CASE \E j \in DOMAIN req.Body : req'.Body[i] = req.Body[j]
      <4>1. PICK j \in DOMAIN req.Body : req'.Body[i] = req.Body[j]
        BY <3>1
      <4>2. Session!OfStream(req.Body[j]) /\ \A q \in 1..Len(wire) : Session!Earlier(req.Body[j], wire[q])
        BY DEF Session!CollectedInv
      <4>3. Session!OfStream(req.Body[i])'
        BY <4>1, <4>2, <2>2 DEF Session!OfStream
      <4>4. \A q \in DOMAIN wire' : Session!Earlier(req'.Body[i], wire'[q])
        BY <4>1, <4>2, <2>1, <2>4
      <4> QED BY <4>3, <4>4
    <3>2. CASE \E j \in 1..n : req'.Body[i] = wire[j]
      <4>1. PICK j \in 1..n : req'.Body[i] = wire[j]
        BY <3>2
      <4>2. j \in 1..Len(wire)
        OBVIOUS
      <4>3. Session!OfStream(wire[j])
        BY <4>2 DEF Session!WireInv
      <4>4. Session!OfStream(req.Body[i])'
        BY <4>1, <4>3, <2>2 DEF Session!OfStream
      <4>5. ASSUME NEW q \in 1..(Len(wire) - n) PROVE Session!Earlier(req'.Body[i], wire'[q])
        <5>1. j < n + q /\ n + q \in 1..Len(wire)
          OBVIOUS
        <5>2. Session!Earlier(wire[j], wire[n + q])
          BY <5>1, <4>2 DEF Session!WireInv
        <5> QED BY <5>2, <4>1, <2>4
      <4> QED BY <4>4, <4>5, <2>1
    <3> QED BY <3>1, <3>2, <2>1
  <2> QED BY <2>7 DEF Session!CollectedInv
<1>5. CASE UNCHANGED <<sent, wire, req>>
  BY <1>5 DEF Session!CollectedInv, Session!OfStream
<1>6. Session!Send \/ Session!Close \/ Session!NewRequest \/ Session!Read \/ UNCHANGED <<sent, wire, req>>
  BY Frames DEF Session!Next, Session!Server, sessionVars
<1> QED
  BY <1>1, <1>2, <1>3, <1>4, <1>5, <1>6

\* What has been executed is the body of a call sent.
LEMMA ExecutedFacts ==
    ASSUME Session!SessionTypeOK, Session!ExecutedWhole, NEW n \in 1..Len(executed)
    PROVE  \E k \in 1..Len(sent) :
             sent[k] = "call" /\ executed[n] = Session!Body(k) /\ Head(executed[n]).of = k
<1>1. PICK k \in 1..Len(sent) : sent[k] = "call" /\ executed[n] = Session!Body(k)
  BY SentFacts DEF Session!ExecutedWhole
<1>2. Session!Parts(sent[k]) = 4 /\ k \in Nat
  BY <1>1 DEF Session!Parts
<1>3. /\ Session!Body(k) \in Seq(Session!AnyPiece)
      /\ Len(Session!Body(k)) = Session!Parts(sent[k]) - 2
      /\ \A i \in 1..(Session!Parts(sent[k]) - 2) : Session!Body(k)[i] = Session!Piece(k, i + 2)
  BY <1>2, BodyFacts
<1>4. Session!Parts(sent[k]) - 2 = 2 /\ 1 \in 1..2 /\ 1 + 2 = 3
  BY <1>2
<1>5. Session!Body(k)[1] = Session!Piece(k, 3) /\ Head(Session!Body(k)) = Session!Body(k)[1]
  BY <1>3, <1>4
<1> QED BY <1>1, <1>5 DEF Session!Piece

\* If executed is left alone, what it promises stays, as nothing sent is taken back.
LEMMA ExecutedKept ==
    ASSUME Session!SessionTypeOK, Session!SessionTypeOK', Session!ExecutedWhole, executed' = executed,
           Len(sent) <= Len(sent'), \A k \in 1..Len(sent) : sent'[k] = sent[k]
    PROVE  Session!ExecutedWhole'
<1> USE SentFacts
<1>1. DOMAIN sent' = 1..Len(sent') /\ Len(sent') \in Nat
  BY DEF Session!SessionTypeOK
<1>2. ASSUME NEW n \in 1..Len(executed)
      PROVE  \E k \in DOMAIN sent' : sent'[k] = "call" /\ executed'[n] = Session!Body(k)'
  <2>1. PICK k \in 1..Len(sent) : sent[k] = "call" /\ executed[n] = Session!Body(k)
    BY DEF Session!ExecutedWhole
  <2>2. k \in 1..Len(sent') /\ sent'[k] = sent[k]
    BY <1>1
  <2>3. Session!Body(k)' = Session!Body(k)
    BY <2>2 DEF Session!Body
  <2> QED BY <2>1, <2>2, <2>3, <1>1
<1>3. \A m, n \in DOMAIN executed' : m < n => Head(executed'[m]).of < Head(executed'[n]).of
  BY DEF Session!ExecutedWhole
<1>4. DOMAIN executed' = 1..Len(executed)
  OBVIOUS
<1> QED BY <1>2, <1>3, <1>4 DEF Session!ExecutedWhole

LEMMA ExecutedStep ==
    ASSUME Session!SessionTypeOK, Session!SessionTypeOK', Session!WireInv, Session!CollectedInv,
           Session!ExecutedInv, Session!ExecutedWhole, Session!Next \/ UNCHANGED sessionVars
    PROVE  Session!ExecutedWhole' /\ Session!ExecutedInv'
<1> USE SentFacts
<1>1. CASE Session!Send
  <2>a. PICK kind \in Session!Kind :
             LET K == Len(sent) + 1
                 n == Session!Parts(kind)
             IN  /\ sent' \in Seq(Session!Kind) /\ Len(sent') = K
                 /\ \A k \in 1..Len(sent) : sent'[k] = sent[k]
                 /\ sent'[K] = kind /\ n \in {2, 4}
                 /\ wire' \in Seq(Session!AnyPiece) /\ Len(wire') = Len(wire) + n
                 /\ \A i \in 1..Len(wire) : wire'[i] = wire[i]
                 /\ \A i \in 1..n : wire'[Len(wire) + i] = Session!Piece(K, i)
    BY <1>1, SendFacts
  <2>b. PICK K \in Nat : K = Len(sent) + 1
    OBVIOUS
  <2>c. PICK n \in {2, 4} : n = Session!Parts(kind)
    BY <2>a
  <2>d. PICK L \in Nat : L = Len(wire)
    OBVIOUS
  <2>e. \A i \in 1..L : wire'[i] = wire[i]
    BY <2>a, <2>d
  <2>f. \A i \in 1..n : wire'[L + i] = Session!Piece(K, i)
    BY <2>a, <2>b, <2>c, <2>d
  <2>g. (\A k \in 1..Len(sent) : sent'[k] = sent[k]) /\ Len(sent) <= Len(sent')
    BY <2>a
  <2>i. DOMAIN wire' = 1..(L + n)
    BY <2>a, <2>c, <2>d
  <2>j. UNCHANGED <<req, spc, executed>>
    BY <1>1, Frames
  <2>1. Session!ExecutedWhole'
    BY <2>g, <2>j, ExecutedKept
  <2>2. ASSUME NEW m \in DOMAIN executed, NEW j \in 1..(L + n)
        PROVE  Head(executed[m]).of < wire'[j].of
    <3>1. Head(executed[m]).of \in 1..Len(sent)
      BY ExecutedFacts
    <3>2. CASE j <= L
      <4>1. j \in 1..L /\ j \in DOMAIN wire
        BY <3>2, <2>d
      <4> QED BY <4>1, <2>e DEF Session!ExecutedInv
    <3>3. CASE j > L
      <4>1. j - L \in 1..n /\ j = L + (j - L)
        BY <3>3
      <4>2. wire'[j] = Session!Piece(K, j - L)
        BY <4>1, <2>f
      <4> QED BY <4>2, <3>1, <2>b DEF Session!Piece
    <3> QED BY <3>2, <3>3
  <2>3. Session!ExecutedInv'
    BY <2>2, <2>i, <2>j DEF Session!ExecutedInv
  <2> QED BY <2>1, <2>3
<1>2. CASE Session!Close
  <2>1. PICK n \in 0..Len(wire) : wire' = SubSeq(wire, 1, n)
    BY <1>2 DEF Session!Close
  <2>2. wire \in Seq(Session!AnyPiece)
    BY DEF Session!SessionTypeOK
  <2>3. 1 \in 1..(Len(wire) + 1) /\ n \in (1 - 1)..Len(wire)
    OBVIOUS
  <2>4. /\ wire' \in Seq(Session!AnyPiece) /\ Len(wire') = n - 1 + 1
        /\ \A i \in 1..(n - 1 + 1) : wire'[i] = wire[1 + i - 1]
    BY <2>1, <2>2, <2>3, SubSeqFacts
  <2>5. n - 1 + 1 = n /\ \A i \in 1..n : 1 + i - 1 = i
    OBVIOUS
  <2>6. DOMAIN wire' = 1..n /\ \A i \in 1..n : wire'[i] = wire[i] /\ i \in DOMAIN wire
    BY <2>4, <2>5
  <2>7. UNCHANGED <<sent, req, spc, executed>>
    BY <1>2, Frames
  <2>8. Session!ExecutedWhole'
    BY <2>7, ExecutedKept
  <2>9. Session!ExecutedInv'
    BY <2>6, <2>7 DEF Session!ExecutedInv
  <2> QED BY <2>8, <2>9
<1>3. CASE Session!NewRequest
  <2>1. req'.Body = <<>>
    BY <1>3 DEF Session!NewRequest, Session!NewHttpRequest
  <2>2. UNCHANGED <<sent, wire, executed>>
    BY <1>3, Frames
  <2>3. Session!ExecutedWhole'
    BY <2>2, ExecutedKept
  <2>4. Session!ExecutedInv'
    BY <2>1, <2>2 DEF Session!ExecutedInv
  <2> QED BY <2>3, <2>4
<1>4. CASE Session!Read
  <2>1. PICK n \in 1..Len(wire) :
             /\ DOMAIN wire' = 1..(Len(wire) - n)
             /\ \A j \in 1..(Len(wire) - n) : wire'[j] = wire[n + j]
             /\ \A i \in DOMAIN req'.Body :
                    \/ \E j \in DOMAIN req.Body : req'.Body[i] = req.Body[j]
                    \/ \E j \in 1..n : req'.Body[i] = wire[j]
    BY <1>4, ReadBody
  <2>2. UNCHANGED <<sent, executed>>
    BY <1>4, Frames
  <2>3. Session!ExecutedWhole'
    BY <2>2, ExecutedKept
  <2>4. spc = "read"
    BY <1>4 DEF Session!Read
  <2>5. ASSUME NEW m \in DOMAIN executed
        PROVE  /\ \A j \in DOMAIN wire' : Head(executed[m]).of < wire'[j].of
               /\ \A i \in DOMAIN req'.Body : Head(executed[m]).of < req'.Body[i].of
    <3>1. /\ \A j \in DOMAIN wire : Head(executed[m]).of < wire[j].of
          /\ \A i \in DOMAIN req.Body : Head(executed[m]).of < req.Body[i].of
      BY <2>4 DEF Session!ExecutedInv
    <3>2. ASSUME NEW j \in 1..(Len(wire) - n) PROVE Head(executed[m]).of < wire'[j].of
      <4>1. n + j \in DOMAIN wire
        OBVIOUS
      <4> QED BY <4>1, <3>1, <2>1
    <3>3. ASSUME NEW i \in DOMAIN req'.Body PROVE Head(executed[m]).of < req'.Body[i].of
      <4>1. \A j \in 1..n : j \in DOMAIN wire
        OBVIOUS
      <4> QED BY <4>1, <3>1, <2>1
    <3> QED BY <3>2, <3>3, <2>1
  <2>6. Session!ExecutedInv'
    BY <2>5, <2>2 DEF Session!ExecutedInv
  <2> QED BY <2>3, <2>6
<1>5. CASE Session!ProcessRequest
  <2>1. PICK k \in 1..Len(sent) :
             /\ sent[k] \in DOMAIN Session!Dispatch /\ req.Body = Session!Body(k)
             /\ Len(req.Body) = 2 /\ Head(req.Body) = Session!Piece(k, 3)
             /\ req.Body[1] = Session!Piece(k, 3) /\ req.Body[2] = Session!Piece(k, 4)
    BY <1>5, ParsedBody DEF Session!ProcessRequest
  <2>2. Head(req.Body).of = k /\ req.Body[1].of = k
    BY <2>1 DEF Session!Piece
  <2>3. executed' = IF sent[k] = "call" THEN Append(executed, req.Body) ELSE executed
    BY <1>5, <2>2 DEF Session!ProcessRequest
  <2>4. UNCHANGED <<sent, wire, req>>
    BY <1>5, Frames
  <2>5. spc' \in {"new", "closed"} /\ spc = "answer"
    BY <1>5 DEF Session!ProcessRequest, Session!Respond
  <2>6. CASE sent[k] # "call"
    <3>1. executed' = executed
      BY <2>3, <2>6
    <3>2. Session!ExecutedWhole'
      BY <3>1, <2>4, ExecutedKept
    <3>3. Session!ExecutedInv'
      BY <3>1, <2>4, <2>5 DEF Session!ExecutedInv
    <3> QED BY <3>2, <3>3
  <2>7. CASE sent[k] = "call"
    <3>0. executed \in Seq(Seq(Session!AnyPiece)) /\ req.Body \in Seq(Session!AnyPiece)
      BY DEF Session!SessionTypeOK
    <3> DEFINE N == Len(executed)
               e == executed'
    <3>1. e = Append(executed, req.Body)
      BY <2>3, <2>7
    <3>2. Len(e) = N + 1 /\ DOMAIN e = 1..(N + 1) /\ e[N + 1] = req.Body
          /\ \A n \in 1..N : e[n] = executed[n]
      BY <3>0, <3>1, AppendProperties
    <3>3. ASSUME NEW j \in DOMAIN wire PROVE k < wire[j].of
      <4>1. Session!Earlier(req.Body[2], wire[j])
        BY <2>1 DEF Session!CollectedInv
      <4>2. Session!OfStream(wire[j])
        BY DEF Session!WireInv
      <4>3. wire[j] \in Session!AnyPiece
        BY DEF Session!SessionTypeOK
      <4>4. Session!Parts(sent[k]) = 4 /\ k \in Nat
        BY <2>7 DEF Session!Parts
      <4> QED BY <4>1, <4>2, <4>3, <4>4, <2>1, EarlierAfterBody
    <3>4. ASSUME NEW n \in 1..N PROVE Head(executed[n]).of < k
      <4>1. 1 \in DOMAIN req.Body
        BY <2>1
      <4> QED BY <4>1, <2>2, <2>5 DEF Session!ExecutedInv
    <3>5. ASSUME NEW n \in 1..N
          PROVE  \E q \in DOMAIN sent' : sent'[q] = "call" /\ e[n] = Session!Body(q)'
      <4>1. PICK q \in 1..Len(sent) : sent[q] = "call" /\ executed[n] = Session!Body(q)
        BY ExecutedFacts
      <4>2. Session!Body(q)' = Session!Body(q)
        BY <2>4 DEF Session!Body
      <4> QED BY <4>1, <4>2, <2>4, <3>2
    <3>6. \E q \in DOMAIN sent' : sent'[q] = "call" /\ e[N + 1] = Session!Body(q)'
      <4>1. Session!Body(k)' = Session!Body(k)
        BY <2>4 DEF Session!Body
      <4> QED BY <4>1, <2>1, <2>4, <2>7, <3>2
    <3>7. ASSUME NEW m \in 1..(N + 1), NEW n \in 1..(N + 1), m < n
          PROVE  Head(e[m]).of < Head(e[n]).of
      <4>1. CASE n \in 1..N
        <5>1. m \in 1..N
          BY <4>1, <3>7
        <5> QED BY <5>1, <4>1, <3>2, <3>7 DEF Session!ExecutedWhole
      <4>2. CASE n = N + 1
        <5>1. m \in 1..N
          BY <4>2, <3>7
        <5>2. e[m] = executed[m] /\ e[n] = req.Body
          BY <5>1, <4>2, <3>2
        <5>3. Head(executed[m]).of < k
          BY <5>1, <3>4
        <5>4. Head(e[m]).of < k
          BY <5>2, <5>3
        <5>5. Head(e[n]).of = k
          BY <5>2, <2>2
        <5> QED BY <5>4, <5>5
      <4>3. n \in 1..N \/ n = N + 1
        OBVIOUS
      <4> HIDE DEF N, e
      <4> QED BY <4>1, <4>2, <4>3
    <3>8. \A n \in 1..(N + 1) : n \in 1..N \/ n = N + 1
      OBVIOUS
    <3>9. Session!ExecutedWhole'
      <4> HIDE DEF N
      <4> QED BY <3>2, <3>5, <3>6, <3>7, <3>8 DEF Session!ExecutedWhole
    <3>10. \A n \in DOMAIN e : \A j \in DOMAIN wire : Head(e[n]).of < wire[j].of
      <4>1. ASSUME NEW n \in 1..N, NEW j \in DOMAIN wire PROVE Head(e[n]).of < wire[j].of
        BY <3>2 DEF Session!ExecutedInv
      <4>2. ASSUME NEW j \in DOMAIN wire PROVE Head(e[N + 1]).of < wire[j].of
        BY <3>2, <3>3, <2>2
      <4> HIDE DEF N
      <4> QED BY <4>1, <4>2, <3>2, <3>8
    <3>11. Session!ExecutedInv'
      BY <3>10, <2>4, <2>5 DEF Session!ExecutedInv
    <3> QED BY <3>9, <3>11
  <2> QED BY <2>6, <2>7
<1>6. CASE UNCHANGED <<sent, wire, req, executed>> /\ (spc' \in {"new", "closed"} \/ spc' = spc)
  <2>1. Session!ExecutedWhole'
    BY <1>6, ExecutedKept
  <2>2. Session!ExecutedInv'
    BY <1>6 DEF Session!ExecutedInv
  <2> QED BY <2>1, <2>2
<1>7. \/ Session!Send \/ Session!Close \/ Session!NewRequest \/ Session!Read \/ Session!ProcessRequest
      \/ UNCHANGED <<sent, wire, req, executed>> /\ (spc' \in {"new", "closed"} \/ spc' = spc)
  <2>1. Session!ReadEnd => spc' = "closed"
    BY DEF Session!ReadEnd
  <2>2. Session!Timeout => spc' = "closed"
    BY DEF Session!Timeout
  <2>3. Session!AnswerOptions => spc' \in {"new", "closed"}
    BY DEF Session!AnswerOptions, Session!Respond
  <2>4. Session!Refuse => spc' \in {"new", "closed"}
    BY DEF Session!Refuse, Session!Respond
  <2> QED BY <2>1, <2>2, <2>3, <2>4, Frames DEF Session!Next, Session!Server, sessionVars
<1> QED
  BY <1>1, <1>2, <1>3, <1>4, <1>5, <1>6, <1>7

\* Between two answers, what has been sent, has stayed.
LEMMA StablePieces ==
    ASSUME Session!SessionTypeOK, Session!SessionTypeOK', NEW k \in 1..Len(sent),
           k <= Len(sent'), sent'[k] = sent[k]
    PROVE  /\ Session!Body(k)' = Session!Body(k)
           /\ \A part : Session!Collected(k, part)' = Session!Collected(k, part)
           /\ \A p : p.of = k => /\ Session!IsLast(p)' = Session!IsLast(p)
                                 /\ Session!After(p)' = Session!After(p)
                                 /\ Session!OfStream(p)' = Session!OfStream(p)
<1>1. k \in DOMAIN sent /\ k \in DOMAIN sent'
  BY SentFacts DEF Session!SessionTypeOK
<1> QED
  BY <1>1 DEF Session!Body, Session!Collected, Session!IsLast, Session!After, Session!OfStream

\* A run of pieces that follow one another, all of one request.
LEMMA SameRequest ==
    ASSUME NEW k \in Nat, NEW p \in Nat, NEW chunk \in Seq(Session!AnyPiece), Len(chunk) > 0,
           chunk[1] = Session!Piece(k, p), \A j \in 1..Len(chunk) : chunk[j].of = k,
           \A j \in 1..(Len(chunk) - 1) : chunk[j + 1] = Session!After(chunk[j])
    PROVE  \A j \in 1..Len(chunk) : chunk[j] = Session!Piece(k, p + j - 1)
<1> DEFINE N == Len(chunk)
           Good(j) == chunk[j + 1] = Session!Piece(k, p + j)
           T == {j \in Nat : j + 1 <= N => Good(j)}
<1>1. N \in Nat /\ N > 0
  OBVIOUS
<1>2. 0 \in T
  <2>1. p + 0 = p /\ 0 + 1 = 1
    OBVIOUS
  <2> QED BY <2>1
<1>3. ASSUME NEW j \in Nat, (j + 1) + 1 <= N, Good(j) PROVE Good(j + 1)
  <2>1. j + 1 \in 1..(N - 1) /\ (j + 1) + 1 \in 1..N /\ p + (j + 1) = (p + j) + 1
    BY <1>1, <1>3
  <2>2. chunk[(j + 1) + 1] = Session!After(chunk[j + 1])
    BY <2>1
  <2>3. chunk[(j + 1) + 1].of = k
    BY <2>1
  <2>4. chunk[j + 1] = Session!Piece(k, p + j)
    BY <1>3
  <2>5. ~Session!IsLast(chunk[j + 1])
    <3>1. SUFFICES ASSUME Session!IsLast(chunk[j + 1]) PROVE FALSE
      OBVIOUS
    <3>2. chunk[(j + 1) + 1].of = k + 1
      BY <2>2, <2>4, <3>1 DEF Session!After, Session!Piece
    <3> QED BY <2>3, <3>2
  <2>6. chunk[(j + 1) + 1] = Session!Piece(k, (p + j) + 1)
    BY <2>2, <2>4, <2>5 DEF Session!After, Session!Piece
  <2> QED BY <2>1, <2>6
<1>4. \A j \in T : j + 1 \in T
  <2> HIDE DEF Good
  <2> SUFFICES ASSUME NEW j \in T PROVE j + 1 \in T
    OBVIOUS
  <2>1. j \in Nat /\ (j + 1 <= N => Good(j))
    OBVIOUS
  <2>2. (j + 1) + 1 <= N => Good(j + 1)
    BY <2>1, <1>3, <1>1
  <2> QED BY <2>1, <2>2
<1>5. T \in SUBSET Nat
  OBVIOUS
<1>6. \A j \in Nat : j \in T
  <2> HIDE DEF T
  <2> QED BY <1>2, <1>4, <1>5, NatInductionSet
<1>7. ASSUME NEW j \in 1..N PROVE chunk[j] = Session!Piece(k, p + j - 1)
  <2>1. j - 1 \in Nat /\ (j - 1) + 1 = j /\ (j - 1) + 1 <= N /\ p + (j - 1) = p + j - 1
    BY <1>1
  <2> HIDE DEF Good
  <2>2. Good(j - 1)
    BY <2>1, <1>6
  <2> QED BY <2>1, <2>2 DEF Good
<1> QED BY <1>7

\* What on_body_cb collects of such a run.
LEMMA BodyOfRun ==
    ASSUME NEW k \in Nat, NEW p \in Nat, NEW chunk \in Seq(Session!AnyPiece),
           \A j \in 1..Len(chunk) : chunk[j] = Session!Piece(k, p + j - 1)
    PROVE  LET d == IF p < 3 THEN 3 - p ELSE 0
               n == IF Len(chunk) > d THEN Len(chunk) - d ELSE 0
           IN  /\ Len(Session!BodyParts(chunk)) = n
               /\ \A i \in 1..n : Session!BodyParts(chunk)[i] = Session!Piece(k, p + d + i - 1)
<1> DEFINE P == Session!AnyPiece
           N == Len(chunk)
           d == IF p < 3 THEN 3 - p ELSE 0
           At(n) == IF n > d THEN n - d ELSE 0
<1>1. PICK f \in [0..N -> Seq(P)] :
        /\ f[0] = <<>>
        /\ \A n \in 1..N :
            f[n] = IF Session!IsBody(chunk[n]) THEN Append(f[n - 1], chunk[n]) ELSE f[n - 1]
        /\ Session!BodyParts(chunk) = f[N]
  BY BodyPartsStep
<1>2. N \in Nat /\ d \in Nat /\ (p < 3 => d = 3 - p) /\ (p >= 3 => d = 0)
  OBVIOUS
<1> HIDE DEF d
<1> DEFINE Good(n) == /\ Len(f[n]) = At(n)
                      /\ \A i \in 1..At(n) : f[n][i] = Session!Piece(k, p + d + i - 1)
           T == {n \in Nat : n <= N => Good(n)}
<1>3. Good(0)
  <2>1. At(0) = 0 /\ Len(<<>>) = 0
    BY <1>2
  <2> QED BY <1>1, <2>1
<1>4. ASSUME NEW n \in Nat, n + 1 <= N, Good(n) PROVE Good(n + 1)
  <2>1. n + 1 \in 1..N /\ n \in 0..N /\ (n + 1) - 1 = n /\ p + (n + 1) - 1 = p + n
    <3> HIDE DEF Good
    <3> QED BY <1>2, <1>4
  <2>2. f[n] \in Seq(P) /\ chunk[n + 1] \in P
    BY <2>1, <1>1, ElementOfSeq
  <2>3. f[n + 1] = IF Session!IsBody(chunk[n + 1]) THEN Append(f[n], chunk[n + 1]) ELSE f[n]
    BY <1>1, <2>1
  <2>4. chunk[n + 1] = Session!Piece(k, p + n)
    BY <2>1
  <2>5. Session!IsBody(chunk[n + 1]) <=> p + n > 2
    BY <2>4 DEF Session!IsBody, Session!Piece
  <2>6. CASE p + n > 2
    <3>1. At(n) = n - d /\ At(n + 1) = At(n) + 1 /\ n >= d
          /\ p + d + (At(n) + 1) - 1 = p + n
      BY <2>6, <1>2
    <3>2. f[n + 1] = Append(f[n], chunk[n + 1])
      BY <2>3, <2>5, <2>6
    <3>3. /\ Len(f[n + 1]) = Len(f[n]) + 1
          /\ \A i \in 1..Len(f[n]) : f[n + 1][i] = f[n][i]
          /\ f[n + 1][Len(f[n]) + 1] = chunk[n + 1]
      BY <3>2, <2>2, AppendProperties
    <3>4. Len(f[n]) = At(n) /\ At(n) \in Nat
      BY <1>4, <3>1, <1>2
    <3>5. ASSUME NEW i \in 1..(At(n) + 1)
          PROVE  f[n + 1][i] = Session!Piece(k, p + d + i - 1)
      <4>1. CASE i = At(n) + 1
        BY <4>1, <3>1, <3>3, <3>4, <2>4
      <4>2. CASE i # At(n) + 1
        <5>1. i \in 1..At(n)
          BY <4>2, <3>4
        <5> QED BY <5>1, <3>3, <3>4, <1>4
      <4> QED BY <4>1, <4>2
    <3> HIDE DEF At
    <3> QED BY <3>1, <3>3, <3>4, <3>5
  <2>7. CASE ~(p + n > 2)
    <3>1. At(n) = 0 /\ At(n + 1) = 0
      BY <2>7, <1>2
    <3>2. f[n + 1] = f[n]
      BY <2>3, <2>5, <2>7
    <3> HIDE DEF At
    <3> QED BY <3>1, <3>2, <1>4
  <2> QED BY <2>6, <2>7
<1> HIDE DEF Good
<1>5. 0 \in T
  BY <1>3
<1>6. \A n \in T : n + 1 \in T
  BY <1>4, <1>2
<1>7. T \in SUBSET Nat
  OBVIOUS
<1>8. N \in T
  <2> HIDE DEF T
  <2> QED BY <1>2, <1>5, <1>6, <1>7, NatInductionSet
<1>9. Good(N)
  BY <1>8
<1> QED
  BY <1>9, <1>1, <1>2 DEF Good, d

LEMMA CollectedFacts ==
    ASSUME NEW k \in Nat, NEW part \in 0..Session!Parts(sent[k])
    PROVE  LET n == IF part < 3 THEN 0 ELSE part - 2 IN
           /\ Session!Collected(k, part) \in Seq(Session!AnyPiece)
           /\ Len(Session!Collected(k, part)) = n
           /\ \A i \in 1..n : Session!Collected(k, part)[i] = Session!Piece(k, i + 2)
<1> DEFINE N == Session!Parts(sent[k])
           s == Session!Pieces(k, sent[k])
<1>1. N \in {2, 4}
  BY PartsValue
<1>2. s \in Seq(Session!AnyPiece) /\ Len(s) = N /\ \A i \in 1..N : s[i] = Session!Piece(k, i)
  BY PiecesFacts
<1> HIDE DEF N, s
<1>a. part \in 0..N
  BY DEF N
<1>3. CASE part < 3
  <2>1. Session!Collected(k, part) = <<>>
    BY <1>3 DEF Session!Collected
  <2>2. <<>> \in Seq(Session!AnyPiece) /\ Len(<<>>) = 0
    OBVIOUS
  <2> QED BY <2>1, <2>2, <1>3
<1>4. CASE ~(part < 3)
  <2>1. 3 \in 1..(N + 1) /\ part \in (3 - 1)..N
    BY <1>1, <1>4, <1>a
  <2>2. /\ SubSeq(s, 3, part) \in Seq(Session!AnyPiece)
        /\ Len(SubSeq(s, 3, part)) = part - 3 + 1
        /\ \A i \in 1..(part - 3 + 1) : SubSeq(s, 3, part)[i] = s[3 + i - 1]
    BY <1>2, <2>1, SubSeqFacts
  <2>3. Session!Collected(k, part) = SubSeq(s, 3, part)
    BY <1>4 DEF Session!Collected, s
  <2>4. part - 3 + 1 = part - 2 /\ \A i \in 1..(part - 2) : 3 + i - 1 = i + 2 /\ i + 2 \in 1..N
    BY <2>1, <1>1
  <2>5. Len(Session!Collected(k, part)) = part - 2
    BY <2>2, <2>3, <2>4
  <2>6. \A i \in 1..(part - 2) : Session!Collected(k, part)[i] = Session!Piece(k, i + 2)
    BY <2>2, <2>3, <2>4, <1>2
  <2> QED BY <2>2, <2>3, <2>5, <2>6, <1>4
<1> QED BY <1>3, <1>4

\* A chunk of one request goes on where the parser stood.
LEMMA CollectMore ==
    ASSUME NEW k \in Nat, NEW p \in Nat \ {0}, NEW chunk \in Seq(Session!AnyPiece), Len(chunk) > 0,
           p + Len(chunk) - 1 <= Session!Parts(sent[k]),
           \A j \in 1..Len(chunk) : chunk[j] = Session!Piece(k, p + j - 1)
    PROVE  Session!Collected(k, p - 1) \o Session!BodyParts(chunk)
                = Session!Collected(k, p + Len(chunk) - 1)
<1> DEFINE N == Session!Parts(sent[k])
           n == Len(chunk)
           P == Session!AnyPiece
           A == Session!Collected(k, p - 1)
           B == Session!BodyParts(chunk)
           C == Session!Collected(k, p + n - 1)
           a == IF p - 1 < 3 THEN 0 ELSE (p - 1) - 2
           d == IF p < 3 THEN 3 - p ELSE 0
           b == IF n > d THEN n - d ELSE 0
           c == IF p + n - 1 < 3 THEN 0 ELSE (p + n - 1) - 2
<1>1. N \in {2, 4} /\ n \in Nat /\ n > 0
  BY PartsValue
<1>2. /\ Len(B) = b
      /\ \A i \in 1..b : B[i] = Session!Piece(k, p + d + i - 1)
  BY BodyOfRun
<1>3. B \in Seq(P)
  BY BodyPartsType
<1> HIDE DEF N
<1>4. p - 1 \in 0..N /\ p + n - 1 \in 0..N
  BY <1>1 DEF N
<1>5. /\ A \in Seq(P)
      /\ Len(A) = a
      /\ \A i \in 1..a : A[i] = Session!Piece(k, i + 2)
  <2> DEFINE part == p - 1
  <2>1. part \in 0..Session!Parts(sent[k])
    BY <1>4 DEF N
  <2> HIDE DEF part
  <2>2. LET m == IF part < 3 THEN 0 ELSE part - 2 IN
        /\ Session!Collected(k, part) \in Seq(P)
        /\ Len(Session!Collected(k, part)) = m
        /\ \A i \in 1..m : Session!Collected(k, part)[i] = Session!Piece(k, i + 2)
    BY <2>1, CollectedFacts
  <2> QED BY <2>2 DEF part
<1>6. /\ C \in Seq(P)
      /\ Len(C) = c
      /\ \A i \in 1..c : C[i] = Session!Piece(k, i + 2)
  <2> DEFINE part == p + n - 1
  <2>1. part \in 0..Session!Parts(sent[k])
    BY <1>4 DEF N
  <2> HIDE DEF part
  <2>2. LET m == IF part < 3 THEN 0 ELSE part - 2 IN
        /\ Session!Collected(k, part) \in Seq(P)
        /\ Len(Session!Collected(k, part)) = m
        /\ \A i \in 1..m : Session!Collected(k, part)[i] = Session!Piece(k, i + 2)
    BY <2>1, CollectedFacts
  <2> QED BY <2>2 DEF part
<1> HIDE DEF n, A, B, C
<1>7. c = a + b /\ a \in Nat /\ b \in Nat
  BY <1>1
<1>8. /\ A \o B \in Seq(P)
      /\ Len(A \o B) = Len(A) + Len(B)
      /\ \A i \in 1..(Len(A) + Len(B)) : (A \o B)[i] = IF i <= Len(A) THEN A[i] ELSE B[i - Len(A)]
  BY <1>3, <1>5, ConcatProperties
<1>9. ASSUME NEW i \in 1..c PROVE (A \o B)[i] = Session!Piece(k, i + 2)
  <2>0. i \in 1..(a + b)
    BY <1>7
  <2>1. CASE i <= a
    <3>1. i \in 1..a
      BY <2>0, <2>1, <1>7
    <3>2. (A \o B)[i] = A[i]
      <4> HIDE DEF a, b, c
      <4> QED BY <2>0, <2>1, <1>8, <1>5, <1>2
    <3> QED BY <3>1, <3>2, <1>5
  <2>2. CASE ~(i <= a)
    <3>1. i - a \in 1..b /\ p + d + (i - a) - 1 = i + 2
      BY <2>0, <2>2, <1>7, <1>1
    <3>2. (A \o B)[i] = B[i - a]
      <4> HIDE DEF a, b, c
      <4> QED BY <2>0, <2>2, <1>8, <1>5, <1>2
    <3>3. B[i - a] = Session!Piece(k, p + d + (i - a) - 1)
      <4> HIDE DEF a, b, c, d
      <4> QED BY <3>1, <1>2
    <3> QED BY <3>1, <3>2, <3>3
  <2> QED BY <2>1, <2>2
<1>10. A \o B = C
  <2>1. Len(A \o B) = c
    <3> HIDE DEF a, b, c
    <3> QED BY <1>7, <1>8, <1>5, <1>2
  <2> DEFINE AB == A \o B
  <2>2. AB \in Seq(P) /\ C \in Seq(P) /\ Len(AB) = Len(C)
    BY <2>1, <1>8, <1>6
  <2>3. \A i \in 1..Len(AB) : AB[i] = C[i]
    <3> HIDE DEF c
    <3> QED BY <2>1, <1>9, <1>6
  <2> HIDE DEF AB
  <2>4. AB = C
    BY <2>2, <2>3, SeqEqual
  <2> QED BY <2>4 DEF AB
<1> QED BY <1>10 DEF A, B, C, n

LEMMA CollectedAll ==
    ASSUME NEW k \in Nat
    PROVE  Session!Collected(k, Session!Parts(sent[k])) = Session!Body(k)
<1>1. Session!Parts(sent[k]) \in {2, 4}
  BY PartsValue
<1>2. CASE Session!Parts(sent[k]) = 2
  <2>1. SubSeq(Session!Pieces(k, sent[k]), 3, 2) = <<>>
    BY SubSeqEmpty
  <2> QED BY <1>2, <2>1 DEF Session!Collected, Session!Body
<1>3. CASE Session!Parts(sent[k]) = 4
  BY <1>3 DEF Session!Collected, Session!Body
<1> QED BY <1>1, <1>2, <1>3

\* What AnswersPair says of the answers, and of a connection that is closed.
AnsweredRight ==
    \A n \in 1..Len(responses) :
        /\ responses[n].of = n
        /\ responses[n].how =
                IF sent[n] \in DOMAIN Session!Dispatch THEN Session!Dispatch[sent[n]]
                ELSE IF sent[n] = "OPTIONS" THEN "empty" ELSE "error"

ClosedJustly ==
    spc = "closed" =>
        \/ Len(responses) = Len(sent)
        \/ gone \/ late
        \/ \E n \in 1..Len(responses) : responses[n].how = "error"

\* Where reading stands: PairInv, of a connection that is open.
Reading ==
    LET k == Len(responses) + 1 IN
    /\ spc = "new" => Session!GoesOn(Session!Piece(k, 1))
    /\ spc = "read" =>
        IF parser = Session!Between
        THEN req.line = 0 /\ req.Body = <<>> /\ Session!GoesOn(Session!Piece(k, 1))
        ELSE /\ parser.of = k /\ Session!OfStream(parser) /\ ~Session!IsLast(parser)
             /\ req.line = k /\ req.Body = Session!Collected(k, parser.part)
             /\ ~req.IsMessageCompleteCalled
             /\ Session!GoesOn(Session!After(parser))
    /\ spc = "answer" =>
        /\ req.line = k /\ req.Body = Session!Body(k)
        /\ Session!GoesOn(Session!Piece(k + 1, 1))

Paired == Reading /\ AnsweredRight /\ ClosedJustly /\ Len(responses) <= Len(sent)

AllPaired ==
    /\ Session!PairInv /\ Session!AnswersPair
    /\ merged \/ cut \/ Len(responses) <= Len(sent)

LEMMA ToPaired ==
    ASSUME Session!SessionTypeOK, AllPaired, ~merged, ~cut
    PROVE  Paired
BY SentFacts DEF AllPaired, Paired, Reading, AnsweredRight, ClosedJustly, Session!PairInv, Session!AnswersPair

LEMMA FromPaired ==
    ASSUME Session!SessionTypeOK, merged \/ cut \/ Paired
    PROVE  AllPaired
BY SentFacts DEF AllPaired, Paired, Reading, AnsweredRight, ClosedJustly, Session!PairInv, Session!AnswersPair

\* What goes on, goes on when the client sends more or the end of the wire is lost.
LEMMA GoesOnSend ==
    ASSUME Session!SessionTypeOK, Session!Send, NEW p, Session!GoesOn(p)
    PROVE  Session!GoesOn(p)'
<1> USE SentFacts
<1>1. PICK kind \in Session!Kind :
             LET K == Len(sent) + 1
                 n == Session!Parts(kind)
             IN  /\ n \in {2, 4}
                 /\ wire' \in Seq(Session!AnyPiece) /\ Len(wire') = Len(wire) + n
                 /\ \A i \in 1..Len(wire) : wire'[i] = wire[i]
                 /\ \A i \in 1..n : wire'[Len(wire) + i] = Session!Piece(K, i)
  BY SendFacts
<1>2. ~gone
  BY DEF Session!Send
<1>3. wire' # <<>>
  BY <1>1
<1>4. CASE wire = <<>>
  <2>1. Len(wire) = 0 /\ 1 \in 1..Session!Parts(kind) /\ 0 + 1 = 1
    BY <1>1, <1>4
  <2>2. wire'[1] = Session!Piece(Len(sent) + 1, 1)
    BY <1>1, <2>1
  <2>3. p = Session!Piece(Len(sent) + 1, 1)
    BY <1>2, <1>4 DEF Session!GoesOn
  <2> QED BY <2>2, <2>3, <1>3 DEF Session!GoesOn
<1>5. CASE wire # <<>>
  <2>1. 1 \in 1..Len(wire)
    BY <1>5
  <2>2. wire'[1] = wire[1]
    BY <1>1, <2>1
  <2> QED BY <2>2, <1>5, <1>3 DEF Session!GoesOn
<1> QED BY <1>4, <1>5

LEMMA GoesOnClose ==
    ASSUME Session!SessionTypeOK, Session!Close, NEW p, Session!GoesOn(p)
    PROVE  Session!GoesOn(p)'
<1> USE SentFacts
<1>1. PICK n \in 0..Len(wire) : wire' = SubSeq(wire, 1, n)
  BY DEF Session!Close
<1>2. gone' = TRUE
  BY DEF Session!Close
<1>3. wire \in Seq(Session!AnyPiece)
  BY DEF Session!SessionTypeOK
<1>4. 1 \in 1..(Len(wire) + 1) /\ n \in (1 - 1)..Len(wire)
  OBVIOUS
<1>5. /\ wire' \in Seq(Session!AnyPiece) /\ Len(wire') = n - 1 + 1
      /\ \A i \in 1..(n - 1 + 1) : wire'[i] = wire[1 + i - 1]
  BY <1>1, <1>3, <1>4, SubSeqFacts
<1>6. CASE n = 0
  <2>1. wire' = <<>>
    BY <1>5, <1>6
  <2> QED BY <2>1, <1>2 DEF Session!GoesOn
<1>7. CASE n # 0
  <2>1. 1 \in 1..(n - 1 + 1) /\ 1 + 1 - 1 = 1 /\ n - 1 + 1 > 0
    BY <1>7
  <2>2. wire'[1] = wire[1] /\ wire' # <<>>
    BY <1>5, <2>1
  <2>3. wire # <<>>
    BY <1>7
  <2> QED BY <2>2, <2>3 DEF Session!GoesOn
<1> QED BY <1>6, <1>7

\* Neither disturbs what has been read and answered.
LEMMA PairStays ==
    ASSUME Session!SessionTypeOK, Session!SessionTypeOK', Paired,
           spc' = spc, req' = req, parser' = parser, responses' = responses,
           Len(sent) <= Len(sent'), \A k \in 1..Len(sent) : sent'[k] = sent[k],
           \A p : Session!GoesOn(p) => Session!GoesOn(p)'
    PROVE  Reading' /\ AnsweredRight' /\ Len(responses') <= Len(sent')
<1> USE SentFacts
<1>0. Len(sent') \in Nat /\ Len(responses) \in Nat /\ Len(responses) <= Len(sent)
  BY DEF Paired, Session!SessionTypeOK
<1>1. Reading /\ AnsweredRight
  BY DEF Paired
<1>2. AnsweredRight'
  <2>1. \A n \in 1..Len(responses) : sent'[n] = sent[n]
    BY <1>0
  <2> QED BY <1>1, <2>1 DEF AnsweredRight
<1>3. PICK k \in Nat : k = Len(responses) + 1
  BY <1>0
<1>4. spc = "new" => Session!GoesOn(Session!Piece(k, 1))'
  BY <1>1, <1>3 DEF Reading
<1>5. ASSUME spc = "read", parser = Session!Between
      PROVE  req.line = 0 /\ req.Body = <<>> /\ Session!GoesOn(Session!Piece(k, 1))'
  BY <1>1, <1>3, <1>5 DEF Reading
<1>6. ASSUME spc = "read", parser # Session!Between
      PROVE  /\ parser.of = k /\ Session!OfStream(parser)' /\ ~Session!IsLast(parser)'
             /\ req.line = k /\ req.Body = Session!Collected(k, parser.part)'
             /\ ~req.IsMessageCompleteCalled
             /\ Session!GoesOn(Session!After(parser))'
  <2>1. /\ parser.of = k /\ Session!OfStream(parser) /\ ~Session!IsLast(parser)
        /\ req.line = k /\ req.Body = Session!Collected(k, parser.part)
        /\ ~req.IsMessageCompleteCalled
        /\ Session!GoesOn(Session!After(parser))
    BY <1>1, <1>3, <1>6 DEF Reading
  <2>2. k \in 1..Len(sent)
    BY <2>1 DEF Session!OfStream
  <2>3. k <= Len(sent') /\ sent'[k] = sent[k]
    BY <2>2, <1>0
  <2>4. PICK q : q = parser
    OBVIOUS
  <2>5. PICK r : r = Session!After(q)
    OBVIOUS
  <2>6. /\ Session!IsLast(q)' = Session!IsLast(q)
        /\ Session!After(q)' = Session!After(q)
        /\ Session!OfStream(q)' = Session!OfStream(q)
        /\ Session!Collected(k, q.part)' = Session!Collected(k, q.part)
    BY <2>1, <2>2, <2>3, <2>4, StablePieces
  <2>7. Session!GoesOn(r)'
    BY <2>1, <2>4, <2>5
  <2>8. Session!GoesOn(Session!After(parser))'
    BY <2>4, <2>5, <2>6, <2>7
  <2>9. Session!OfStream(parser)' /\ ~Session!IsLast(parser)'
    BY <2>1, <2>4, <2>6
  <2>10. req.Body = Session!Collected(k, parser.part)'
    BY <2>1, <2>4, <2>6
  <2> QED BY <2>1, <2>8, <2>9, <2>10
<1>7. ASSUME spc = "answer"
      PROVE  /\ req.line = k /\ req.Body = Session!Body(k)'
             /\ Session!GoesOn(Session!Piece(k + 1, 1))'
  <2>1. req.line = k /\ req.Body = Session!Body(k) /\ Session!GoesOn(Session!Piece(k + 1, 1))
    BY <1>1, <1>3, <1>7 DEF Reading
  <2>2. k \in 1..Len(sent)
    BY <2>1, <1>3, <1>7 DEF Session!SessionTypeOK
  <2>3. k <= Len(sent') /\ sent'[k] = sent[k]
    BY <2>2, <1>0
  <2>4. Session!Body(k)' = Session!Body(k)
    BY <2>2, <2>3, StablePieces
  <2> QED BY <2>1, <2>4
<1>8. Reading'
  BY <1>3, <1>4, <1>5, <1>6, <1>7 DEF Reading
<1>9. Len(responses') <= Len(sent')
  BY <1>0
<1> QED BY <1>2, <1>8, <1>9

LEMMA PairSend ==
    ASSUME Session!SessionTypeOK, Session!SessionTypeOK', Paired, Session!Send
    PROVE  Paired'
<1>0. UNCHANGED <<gone, spc, req, parser, responses>>
  BY Frames
<1>1. PICK kind \in Session!Kind :
             /\ Len(sent') = Len(sent) + 1 /\ \A k \in 1..Len(sent) : sent'[k] = sent[k]
  BY SendFacts
<1>2. Len(sent) <= Len(sent')
  BY <1>1, SentFacts
<1>3. \A p : Session!GoesOn(p) => Session!GoesOn(p)'
  BY GoesOnSend
<1>4. Reading' /\ AnsweredRight' /\ Len(responses') <= Len(sent')
  BY <1>0, <1>1, <1>2, <1>3, PairStays
<1>5. ClosedJustly'
  BY <1>0 DEF Session!Send, ClosedJustly
<1> QED BY <1>4, <1>5 DEF Paired

LEMMA PairClose ==
    ASSUME Session!SessionTypeOK, Session!SessionTypeOK', Paired, Session!Close
    PROVE  Paired'
<1>0. UNCHANGED <<sent, spc, req, parser, responses>>
  BY Frames
<1>2. Len(sent) <= Len(sent') /\ \A k \in 1..Len(sent) : sent'[k] = sent[k]
  BY <1>0, SentFacts
<1>3. \A p : Session!GoesOn(p) => Session!GoesOn(p)'
  BY GoesOnClose
<1>4. Reading' /\ AnsweredRight' /\ Len(responses') <= Len(sent')
  BY <1>0, <1>2, <1>3, PairStays
<1>5. ClosedJustly'
  BY DEF Session!Close, ClosedJustly
<1> QED BY <1>4, <1>5 DEF Paired

LEMMA PairNew ==
    ASSUME Session!SessionTypeOK, Session!SessionTypeOK', Paired, Session!NewRequest
    PROVE  Paired'
<1>0. UNCHANGED <<sent, gone, wire, responses>>
  BY Frames
<1>1. spc = "new" /\ spc' = "read" /\ parser' = Session!Between /\ req'.line = 0 /\ req'.Body = <<>>
  BY DEF Session!NewRequest, Session!NewHttpRequest
<1>2. PICK k \in Nat : k = Len(responses) + 1
  BY SentFacts
<1>3. Session!GoesOn(Session!Piece(k, 1))
  BY <1>1, <1>2 DEF Paired, Reading
<1>4. Session!GoesOn(Session!Piece(k, 1))'
  BY <1>0, <1>3 DEF Session!GoesOn
<1>5. Reading'
  BY <1>0, <1>1, <1>2, <1>4 DEF Reading
<1>6. AnsweredRight' /\ ClosedJustly' /\ Len(responses') <= Len(sent')
  BY <1>0, <1>1 DEF Paired, AnsweredRight, ClosedJustly
<1> QED BY <1>5, <1>6 DEF Paired

\* An answer that is the right one.
LEMMA PairAnswer ==
    ASSUME Session!SessionTypeOK, Session!SessionTypeOK', Paired, spc = "answer",
           sent' = sent, gone' = gone, wire' = wire, late' = late,
           NEW k, k = Len(responses) + 1, NEW how \in Session!Outcome, NEW next \in {"new", "closed"},
           how = IF sent[k] \in DOMAIN Session!Dispatch THEN Session!Dispatch[sent[k]]
                 ELSE IF sent[k] = "OPTIONS" THEN "empty" ELSE "error",
           next = "closed" => how = "error",
           Session!Respond(k, how, next)
    PROVE  Paired'
<1> USE SentFacts
<1>1. k \in Nat /\ k \in 1..Len(sent) /\ Session!GoesOn(Session!Piece(k + 1, 1))
  <2>1. Reading
    BY DEF Paired
  <2>2. req.line = k /\ Session!GoesOn(Session!Piece(k + 1, 1))
    BY <2>1 DEF Reading
  <2> QED BY <2>2 DEF Session!SessionTypeOK
<1>2. Session!GoesOn(Session!Piece(k + 1, 1))'
  BY <1>1 DEF Session!GoesOn
<1>3. \/ /\ Len(responses') = Len(responses) + 1
         /\ \A n \in 1..Len(responses) : responses'[n] = responses[n]
         /\ responses'[Len(responses) + 1] = [of |-> k, how |-> how]
         /\ spc' = next
      \/ gone /\ spc' = "closed" /\ responses' = responses
  BY <1>1, AnswerType
<1>4. AnsweredRight /\ Len(responses) <= Len(sent)
  BY DEF Paired
<1>5. CASE gone /\ spc' = "closed" /\ responses' = responses
  <2>1. AnsweredRight'
    BY <1>4, <1>5 DEF AnsweredRight
  <2>2. Reading'
    BY <1>5 DEF Reading
  <2>3. ClosedJustly'
    BY <1>5 DEF ClosedJustly
  <2>4. Len(responses') <= Len(sent')
    BY <1>4, <1>5
  <2> QED BY <2>1, <2>2, <2>3, <2>4 DEF Paired
<1>6. CASE /\ Len(responses') = Len(responses) + 1
           /\ \A n \in 1..Len(responses) : responses'[n] = responses[n]
           /\ responses'[Len(responses) + 1] = [of |-> k, how |-> how]
           /\ spc' = next
  <2>1. Len(responses') = k /\ responses'[k].of = k /\ responses'[k].how = how
    BY <1>6
  <2>2. ASSUME NEW n \in 1..k
        PROVE  /\ responses'[n].of = n
               /\ responses'[n].how =
                    IF sent[n] \in DOMAIN Session!Dispatch THEN Session!Dispatch[sent[n]]
                    ELSE IF sent[n] = "OPTIONS" THEN "empty" ELSE "error"
    <3>1. CASE n = k
      BY <2>1, <3>1
    <3>2. CASE n # k
      <4>1. n \in 1..Len(responses)
        BY <3>2
      <4> QED BY <4>1, <1>6, <1>4 DEF AnsweredRight
    <3> QED BY <3>1, <3>2
  <2>3. AnsweredRight'
    BY <2>1, <2>2 DEF AnsweredRight
  <2>4. Reading'
    BY <2>1, <1>2, <1>6 DEF Reading
  <2>5. k \in 1..k
    BY <1>1
  <2>6. ClosedJustly'
    BY <1>6, <2>1, <2>5 DEF ClosedJustly
  <2>7. Len(responses') <= Len(sent')
    BY <2>1, <1>1
  <2> QED BY <2>3, <2>4, <2>6, <2>7 DEF Paired
<1> QED BY <1>3, <1>5, <1>6

LEMMA PairOptions ==
    ASSUME Session!SessionTypeOK, Session!SessionTypeOK', Paired, Session!AnswerOptions
    PROVE  Paired'
<1>1. UNCHANGED <<sent, gone, wire, late>> /\ spc = "answer" /\ sent[req.line] = "OPTIONS"
      /\ Session!Respond(req.line, "empty", "new")
  BY Frames DEF Session!AnswerOptions
<1>2. PICK k \in Nat : k = Len(responses) + 1
  BY SentFacts
<1>3. req.line = k
  BY <1>1, <1>2 DEF Paired, Reading
<1>4. "empty" = IF sent[k] \in DOMAIN Session!Dispatch THEN Session!Dispatch[sent[k]]
                ELSE IF sent[k] = "OPTIONS" THEN "empty" ELSE "error"
  BY <1>1, <1>3 DEF Session!Dispatch
<1>5. Session!Respond(k, "empty", "new") /\ "empty" \in Session!Outcome
  BY <1>1, <1>3, DispatchFacts
<1> DEFINE how == "empty"
           next == "new"
<1>6. how \in Session!Outcome /\ next \in {"new", "closed"} /\ next # "closed"
  BY <1>5
<1>7. Session!Respond(k, how, next)
  BY <1>5
<1>8. how = IF sent[k] \in DOMAIN Session!Dispatch THEN Session!Dispatch[sent[k]]
            ELSE IF sent[k] = "OPTIONS" THEN "empty" ELSE "error"
  BY <1>4
<1> HIDE DEF how, next
<1> QED
  BY <1>1, <1>2, <1>6, <1>7, <1>8, PairAnswer

LEMMA PairRefuse ==
    ASSUME Session!SessionTypeOK, Session!SessionTypeOK', Paired, Session!Refuse
    PROVE  Paired'
<1>1. UNCHANGED <<sent, gone, wire, late>> /\ spc = "answer" /\ sent[req.line] # "OPTIONS"
      /\ Session!Respond(req.line, "error", "closed") /\ ~Session!ParsesToMap(req.Body)
  BY Frames DEF Session!Refuse
<1>2. PICK k \in Nat : k = Len(responses) + 1
  BY SentFacts
<1>3. req.line = k /\ req.Body = Session!Body(k)
  BY <1>1, <1>2 DEF Paired, Reading
<1>4. k \in DOMAIN sent
  BY <1>1, <1>2, <1>3, SentFacts DEF Session!SessionTypeOK
<1> DEFINE how == "error"
           next == "closed"
<1>5. sent[k] \notin DOMAIN Session!Dispatch
  BY <1>1, <1>3, <1>4 DEF Session!ParsesToMap
<1>6. how \in Session!Outcome /\ next \in {"new", "closed"} /\ (next = "closed" => how = "error")
  BY DispatchFacts
<1>7. Session!Respond(k, how, next)
  BY <1>1, <1>3
<1>8. how = IF sent[k] \in DOMAIN Session!Dispatch THEN Session!Dispatch[sent[k]]
            ELSE IF sent[k] = "OPTIONS" THEN "empty" ELSE "error"
  BY <1>1, <1>3, <1>5
<1> HIDE DEF how, next
<1> QED
  BY <1>1, <1>2, <1>6, <1>7, <1>8, PairAnswer

\* The request that is answered is the one whose body parses.
LEMMA PairProcess ==
    ASSUME Session!SessionTypeOK, Session!SessionTypeOK', Paired, Session!ProcessRequest
    PROVE  Paired'
<1>1. UNCHANGED <<sent, gone, wire, late>> /\ spc = "answer"
  BY Frames DEF Session!ProcessRequest
<1>2. PICK k \in Nat : k = Len(responses) + 1
  BY SentFacts
<1>3. req.line = k /\ req.Body = Session!Body(k)
  BY <1>1, <1>2 DEF Paired, Reading
<1>4. PICK q \in 1..Len(sent) :
             /\ sent[q] \in DOMAIN Session!Dispatch /\ req.Body = Session!Body(q)
             /\ Len(req.Body) = 2 /\ Head(req.Body) = Session!Piece(q, 3)
             /\ req.Body[1] = Session!Piece(q, 3)
  BY ParsedBody DEF Session!ProcessRequest
<1>5. q = k
  <2>1. /\ Len(Session!Body(k)) = Session!Parts(sent[k]) - 2
        /\ \A i \in 1..(Session!Parts(sent[k]) - 2) : Session!Body(k)[i] = Session!Piece(k, i + 2)
    BY BodyFacts
  <2>a. Len(Session!Body(k)) = Session!Parts(sent[k]) - 2 /\ Len(Session!Body(k)) = 2
    BY <2>1, <1>3, <1>4
  <2>2. Session!Parts(sent[k]) - 2 = 2 /\ 1 \in 1..2 /\ 1 + 2 = 3
    <3>1. Session!Parts(sent[k]) \in {2, 4}
      BY PartsValue
    <3>2. PICK parts \in {2, 4} : parts = Session!Parts(sent[k])
      BY <3>1
    <3>3. PICK length : length = Len(Session!Body(k))
      OBVIOUS
    <3>a. length = parts - 2 /\ length = 2
      BY <2>a, <3>2, <3>3
    <3>4. parts - 2 = 2
      BY <3>a
    <3> QED BY <3>2, <3>4
  <2>3. Session!Body(k)[1] = Session!Piece(k, 3)
    BY <2>1, <2>2
  <2> QED BY <2>3, <1>3, <1>4 DEF Session!Piece
<1>6. Head(req.Body).of = k
  BY <1>4, <1>5 DEF Session!Piece
<1> DEFINE how == Session!Dispatch[sent[k]]
<1>7. Session!Respond(k, how, "new")
  BY <1>6 DEF Session!ProcessRequest
<1>8. how \in Session!Outcome /\ sent[k] \in DOMAIN Session!Dispatch
  BY <1>4, <1>5, DispatchFacts
<1>a. PICK outcome : outcome = how
  OBVIOUS
<1>b. PICK next : next = "new"
  OBVIOUS
<1>9. outcome = IF sent[k] \in DOMAIN Session!Dispatch THEN Session!Dispatch[sent[k]]
            ELSE IF sent[k] = "OPTIONS" THEN "empty" ELSE "error"
  BY <1>8, <1>a
<1>10. outcome \in Session!Outcome /\ next \in {"new", "closed"} /\ next # "closed"
       /\ Session!Respond(k, outcome, next)
  BY <1>7, <1>8, <1>a, <1>b
<1> QED
  BY <1>1, <1>2, <1>9, <1>10, PairAnswer

\* What is read goes on where the parser stands, and parses.
LEMMA ReadGoesOn ==
    ASSUME Session!SessionTypeOK, Session!WireInv, Paired, Session!Read,
           NEW k \in Nat, k = Len(responses) + 1
    PROVE  \E p \in Nat \ {0}, n \in 1..Len(wire), chunk \in Seq(Session!AnyPiece) :
             /\ Len(chunk) = n /\ \A i \in 1..n : chunk[i] = wire[i]
             /\ chunk[1] = Session!Piece(k, p)
             /\ IF parser = Session!Between THEN p = 1 /\ req.line = 0
                ELSE p = parser.part + 1 /\ req.line = k /\ ~req.IsMessageCompleteCalled
             /\ req.Body = Session!Collected(k, p - 1)
             /\ \A j \in 1..(n - 1) : chunk[j + 1] = Session!After(chunk[j])
             /\ wire' \in Seq(Session!AnyPiece) /\ Len(wire') = Len(wire) - n
             /\ \A i \in 1..(Len(wire) - n) : wire'[i] = wire[n + i]
             /\ req' = Session!Parsed(chunk)
             /\ parser' = chunk[n]
             /\ spc' = IF req'.IsMessageCompleteCalled THEN "answer" ELSE "read"
             /\ cut' = (cut \/ (spc' = "answer" /\ ~Session!IsLast(chunk[n])))
             /\ merged' = (merged \/ \E j \in 1..n : chunk[j].of # req'.line)
<1> USE SentFacts
<1>1. PICK n \in 1..Len(wire), chunk \in Seq(Session!AnyPiece) :
             /\ Len(chunk) = n /\ \A i \in 1..n : chunk[i] = wire[i]
             /\ wire' \in Seq(Session!AnyPiece) /\ Len(wire') = Len(wire) - n
             /\ \A i \in 1..(Len(wire) - n) : wire'[i] = wire[n + i]
             /\ IF Session!Parses(chunk)
                THEN /\ req' = Session!Parsed(chunk)
                     /\ parser' = chunk[n]
                     /\ spc' = IF req'.IsMessageCompleteCalled THEN "answer" ELSE "read"
                     /\ cut' = (cut \/ (spc' = "answer" /\ ~Session!IsLast(chunk[n])))
                     /\ merged' = (merged \/ \E j \in 1..n : chunk[j].of # req'.line)
                ELSE spc' = "closed" /\ req' = req /\ parser' = parser
                     /\ cut' = cut /\ merged' = merged
  BY ReadFacts
<1>2. spc = "read" /\ wire # <<>> /\ 1 \in 1..n
  BY DEF Session!Read
<1>3. chunk[1] = wire[1] /\ DOMAIN chunk = 1..n
  BY <1>1, <1>2
<1>4. parser = Session!Between => req.line = 0 /\ req.Body = <<>> /\ Session!GoesOn(Session!Piece(k, 1))
  BY <1>2 DEF Paired, Reading
<1>5. parser # Session!Between =>
        /\ parser.of = k /\ Session!OfStream(parser) /\ ~Session!IsLast(parser)
        /\ req.line = k /\ req.Body = Session!Collected(k, parser.part)
        /\ ~req.IsMessageCompleteCalled
        /\ Session!GoesOn(Session!After(parser))
  BY <1>2 DEF Paired, Reading
<1>6. PICK p \in Nat \ {0} : IF parser = Session!Between THEN p = 1 ELSE p = parser.part + 1
  BY DEF Session!SessionTypeOK, Session!AnyPiece
<1>7. chunk[1] = Session!Piece(k, p)
  <2>1. CASE parser = Session!Between
    BY <2>1, <1>2, <1>3, <1>4, <1>6 DEF Session!GoesOn
  <2>2. CASE parser # Session!Between
    <3>1. Session!After(parser) = Session!Piece(k, p)
      BY <2>2, <1>5, <1>6 DEF Session!After
    <3> QED BY <3>1, <2>2, <1>2, <1>3, <1>5 DEF Session!GoesOn
  <2> QED BY <2>1, <2>2
<1>8. req.Body = Session!Collected(k, p - 1)
  <2>1. CASE parser = Session!Between
    <3>1. p - 1 = 0
      BY <2>1, <1>6
    <3>2. Session!Collected(k, 0) = <<>>
      BY DEF Session!Collected
    <3> QED BY <2>1, <3>1, <3>2, <1>4
  <2>2. CASE parser # Session!Between
    <3>1. p - 1 = parser.part
      BY <2>2, <1>6 DEF Session!SessionTypeOK, Session!AnyPiece
    <3> QED BY <2>2, <3>1, <1>5
  <2> QED BY <2>1, <2>2
<1>9. ASSUME NEW j \in 1..(n - 1) PROVE chunk[j + 1] = Session!After(chunk[j])
  <2>1. j \in 1..n /\ j + 1 \in 1..n /\ j \in 1..(Len(wire) - 1)
    OBVIOUS
  <2>2. wire[j + 1] = Session!After(wire[j])
    BY <2>1 DEF Session!WireInv
  <2>3. chunk[j] = wire[j] /\ chunk[j + 1] = wire[j + 1]
    BY <2>1, <1>1
  <2> QED BY <2>2, <2>3
<1>10. ASSUME NEW j \in 1..n, j # 1 PROVE chunk[j].part \in Session!Expected(chunk[j - 1])
  <2>1. j - 1 \in 1..(n - 1) /\ (j - 1) + 1 = j /\ j - 1 \in 1..Len(wire) /\ j - 1 \in 1..n
    BY <1>10
  <2>2. chunk[(j - 1) + 1] = Session!After(chunk[j - 1])
    BY <2>1, <1>9
  <2>3. chunk[j] = Session!After(chunk[j - 1])
    BY <2>1, <2>2
  <2>4. Session!OfStream(wire[j - 1]) /\ chunk[j - 1] = wire[j - 1]
    BY <2>1, <1>1 DEF Session!WireInv
  <2>5. chunk[j - 1] # Session!Between
    BY <2>4 DEF Session!OfStream, Session!Between, Session!Piece
  <2> QED BY <2>3, <2>5 DEF Session!Expected, Session!After, Session!Piece
<1>11. chunk[1].part \in Session!Expected(parser)
  BY <1>4, <1>5, <1>6, <1>7 DEF Session!Expected, Session!Piece
<1>12. Session!Parses(chunk)
  <2>1. \A j \in DOMAIN chunk :
            chunk[j].part \in Session!Expected(IF j = 1 THEN parser ELSE chunk[j - 1])
    BY <1>3, <1>10, <1>11
  <2> QED BY <2>1 DEF Session!Parses
<1>13. IF parser = Session!Between THEN p = 1 /\ req.line = 0
       ELSE p = parser.part + 1 /\ req.line = k /\ ~req.IsMessageCompleteCalled
  BY <1>4, <1>5, <1>6
<1>14. /\ req' = Session!Parsed(chunk)
       /\ parser' = chunk[n]
       /\ spc' = IF req'.IsMessageCompleteCalled THEN "answer" ELSE "read"
       /\ cut' = (cut \/ (spc' = "answer" /\ ~Session!IsLast(chunk[n])))
       /\ merged' = (merged \/ \E j \in 1..n : chunk[j].of # req'.line)
  BY <1>1, <1>12
<1> QED
  BY <1>1, <1>7, <1>8, <1>9, <1>13, <1>14

LEMMA PairRead ==
    ASSUME Session!SessionTypeOK, Session!SessionTypeOK', Session!WireInv, Paired, Session!Read,
           ~merged', ~cut'
    PROVE  Paired'
<1> USE SentFacts
<1>0. UNCHANGED <<sent, gone, responses, late>>
  BY Frames
<1>1. PICK k \in Nat : k = Len(responses) + 1
  OBVIOUS
<1>2. PICK p \in Nat \ {0}, n \in 1..Len(wire), chunk \in Seq(Session!AnyPiece) :
             /\ Len(chunk) = n /\ \A i \in 1..n : chunk[i] = wire[i]
             /\ chunk[1] = Session!Piece(k, p)
             /\ IF parser = Session!Between THEN p = 1 /\ req.line = 0
                ELSE p = parser.part + 1 /\ req.line = k /\ ~req.IsMessageCompleteCalled
             /\ req.Body = Session!Collected(k, p - 1)
             /\ \A j \in 1..(n - 1) : chunk[j + 1] = Session!After(chunk[j])
             /\ wire' \in Seq(Session!AnyPiece) /\ Len(wire') = Len(wire) - n
             /\ \A i \in 1..(Len(wire) - n) : wire'[i] = wire[n + i]
             /\ req' = Session!Parsed(chunk)
             /\ parser' = chunk[n]
             /\ spc' = IF req'.IsMessageCompleteCalled THEN "answer" ELSE "read"
             /\ cut' = (cut \/ (spc' = "answer" /\ ~Session!IsLast(chunk[n])))
             /\ merged' = (merged \/ \E j \in 1..n : chunk[j].of # req'.line)
  BY <1>1, ReadGoesOn
<1>a. Len(chunk) = n /\ n \in Nat /\ n > 0 /\ Len(chunk) > 0
  BY <1>2
<1>3. /\ req'.line = IF req.line = 0 THEN chunk[1].of ELSE req.line
      /\ req'.Body = req.Body \o Session!BodyParts(chunk)
      /\ req'.IsMessageCompleteCalled =
                (req.IsMessageCompleteCalled \/ \E j \in 1..Len(chunk) : Session!IsLast(chunk[j]))
  BY <1>2, <1>a, ParsedFacts
<1>4. req'.line = k
  <2>1. chunk[1].of = k
    BY <1>2 DEF Session!Piece
  <2> QED BY <2>1, <1>2, <1>3
<1>5. \A j \in 1..n : chunk[j].of = k
  BY <1>2, <1>4
<1>6. \A j \in 1..n : chunk[j] = Session!Piece(k, p + j - 1)
  <2>1. /\ chunk[1] = Session!Piece(k, p) /\ \A j \in 1..Len(chunk) : chunk[j].of = k
        /\ \A j \in 1..(Len(chunk) - 1) : chunk[j + 1] = Session!After(chunk[j])
    BY <1>2, <1>5
  <2>2. \A j \in 1..Len(chunk) : chunk[j] = Session!Piece(k, p + j - 1)
    BY <2>1, <1>a, SameRequest
  <2> QED BY <2>2, <1>a
<1>7. PICK q \in Nat : q = p + n - 1
  BY <1>a
<1>8. chunk[n] = Session!Piece(k, q)
  BY <1>6, <1>7, <1>a
<1>9. Session!OfStream(Session!Piece(k, q)) /\ chunk[n] = wire[n]
  <2>1. n \in 1..Len(wire) /\ n \in 1..n
    BY <1>a
  <2>2. chunk[n] = wire[n]
    BY <1>2, <2>1
  <2>3. Session!OfStream(wire[n])
    BY <2>1 DEF Session!WireInv
  <2> QED BY <2>2, <2>3, <1>8
<1>10. k \in 1..Len(sent) /\ q \in 1..Session!Parts(sent[k])
  BY <1>9 DEF Session!OfStream, Session!Piece
<1>11. req'.Body = Session!Collected(k, q)
  <2>1. p + Len(chunk) - 1 <= Session!Parts(sent[k])
    <3>1. Session!Parts(sent[k]) \in Nat
      BY PartsValue
    <3> QED BY <3>1, <1>7, <1>10, <1>a
  <2>2. \A j \in 1..Len(chunk) : chunk[j] = Session!Piece(k, p + j - 1)
    BY <1>6, <1>a
  <2>3. Session!Collected(k, p - 1) \o Session!BodyParts(chunk)
                = Session!Collected(k, p + Len(chunk) - 1)
    BY <2>1, <2>2, <1>a, CollectMore
  <2>4. req.Body = Session!Collected(k, p - 1)
    BY <1>2
  <2>5. p + Len(chunk) - 1 = q
    BY <1>7, <1>a
  <2> QED BY <2>3, <2>4, <2>5, <1>3
<1>12. Session!GoesOn(Session!After(chunk[n]))'
  <2>1. CASE n = Len(wire)
    <3>1. wire' = <<>>
      BY <1>2, <2>1
    <3>2. wire # <<>>
      BY DEF Session!Read
    <3>3. ~gone => Session!After(wire[Len(wire)]) = Session!Piece(Len(sent) + 1, 1)
      BY <3>2 DEF Session!WireInv
    <3>4. Session!After(chunk[n]) = Session!After(wire[Len(wire)])
      BY <1>9, <2>1
    <3>5. Session!After(chunk[n])' = Session!After(chunk[n])
      BY <1>0 DEF Session!After, Session!IsLast
    <3> QED BY <3>1, <3>3, <3>4, <3>5, <1>0 DEF Session!GoesOn
  <2>2. CASE n # Len(wire)
    <3>1. n \in 1..(Len(wire) - 1) /\ 1 \in 1..(Len(wire) - n) /\ Len(wire) - n > 0
      BY <2>2
    <3>2. wire'[1] = wire[n + 1] /\ wire' # <<>>
      BY <3>1, <1>2
    <3>3. wire[n + 1] = Session!After(wire[n])
      BY <3>1 DEF Session!WireInv
    <3>5. Session!After(chunk[n])' = Session!After(chunk[n])
      BY <1>0 DEF Session!After, Session!IsLast
    <3> QED BY <3>2, <3>3, <3>5, <1>9 DEF Session!GoesOn
  <2> QED BY <2>1, <2>2
<1>13. AnsweredRight' /\ Len(responses') <= Len(sent')
  BY <1>0 DEF Paired, AnsweredRight
<1>14. spc' \in {"read", "answer"}
  BY <1>2
<1>15. ClosedJustly'
  BY <1>14 DEF ClosedJustly
<1>16. CASE req'.IsMessageCompleteCalled
  <2>1. spc' = "answer"
    BY <1>2, <1>16
  <2>2. Session!IsLast(chunk[n])
    BY <1>2, <2>1
  <2>3. q = Session!Parts(sent[k])
    BY <2>2, <1>8 DEF Session!IsLast, Session!Piece
  <2>4. req'.Body = Session!Body(k)
    BY <2>3, <1>11, CollectedAll
  <2>5. Session!Body(k)' = Session!Body(k)
    BY <1>0 DEF Session!Body
  <2>6. Session!After(chunk[n])' = Session!Piece(k + 1, 1)
    BY <2>2, <1>8, <1>0 DEF Session!After, Session!IsLast, Session!Piece
  <2>7. Session!GoesOn(Session!Piece(k + 1, 1))'
    BY <2>6, <1>12
  <2>8. Reading'
    BY <2>1, <2>4, <2>5, <2>7, <1>0, <1>1, <1>4 DEF Reading
  <2> QED BY <2>8, <1>13, <1>15 DEF Paired
<1>17. CASE ~req'.IsMessageCompleteCalled
  <2>1. spc' = "read"
    BY <1>2, <1>17
  <2>2. ~Session!IsLast(chunk[n])
    <3>1. n \in 1..Len(chunk)
      BY <1>a
    <3> QED BY <3>1, <1>3, <1>17
  <2>3. parser' = chunk[n]
    BY <1>2
  <2>4. parser' # Session!Between
    <3>1. k # 0
      BY <1>10
    <3> QED BY <3>1, <2>3, <1>8 DEF Session!Between, Session!Piece
  <2>5. parser'.of = k /\ parser'.part = q
    BY <2>3, <1>8 DEF Session!Piece
  <2>6. Session!OfStream(parser)' /\ ~Session!IsLast(parser)'
    BY <2>2, <2>3, <1>0, <1>8, <1>9 DEF Session!OfStream, Session!IsLast
  <2>7. req'.Body = Session!Collected(k, parser.part)'
    BY <2>5, <1>11, <1>0 DEF Session!Collected
  <2>8. Session!GoesOn(Session!After(parser))'
    <3>1. Session!After(parser)' = Session!After(chunk[n])'
      BY <2>3
    <3> QED BY <3>1, <2>3, <1>12 DEF Session!GoesOn
  <2>9. Session!Between' = Session!Between
    BY DEF Session!Between, Session!Piece
  <2>10. Reading'
    BY <2>1, <2>4, <2>5, <2>6, <2>7, <2>8, <2>9, <1>0, <1>1, <1>4, <1>17 DEF Reading
  <2> QED BY <2>10, <1>13, <1>15 DEF Paired
<1> QED BY <1>16, <1>17

LEMMA NothingOwed ==
    \A a, b \in Nat : Session!Piece(a + 1, 1) = Session!Piece(b + 1, 1) => a = b
<1> SUFFICES ASSUME NEW a \in Nat, NEW b \in Nat, Session!Piece(a + 1, 1) = Session!Piece(b + 1, 1)
             PROVE  a = b
  OBVIOUS
<1>1. Session!Piece(a + 1, 1).of = a + 1 /\ Session!Piece(b + 1, 1).of = b + 1
  BY DEF Session!Piece
<1>2. a + 1 = b + 1
  BY <1>1
<1> QED BY <1>2

\* The connection is closed with nothing owed, or for a reason.
LEMMA PairEnd ==
    ASSUME Session!SessionTypeOK, Session!SessionTypeOK', Paired, Session!ReadEnd \/ Session!Timeout
    PROVE  Paired'
<1> USE SentFacts
<1>1. UNCHANGED <<sent, gone, responses>> /\ spc' = "closed" /\ spc = "read"
  BY Frames DEF Session!ReadEnd, Session!Timeout
<1>2. Reading'
  BY <1>1 DEF Reading
<1>3. AnsweredRight' /\ Len(responses') <= Len(sent')
  BY <1>1 DEF Paired, AnsweredRight
<1>4. CASE Session!ReadEnd
  <2>1. gone'
    BY <1>4, <1>1 DEF Session!ReadEnd
  <2> QED BY <2>1, <1>2, <1>3 DEF Paired, ClosedJustly
<1>5. CASE Session!Timeout
  <2>1. late' = (late \/ wire # <<>> \/ req.line # 0)
    BY <1>5 DEF Session!Timeout
  <2>2. CASE late'
    BY <2>2, <1>2, <1>3 DEF Paired, ClosedJustly
  <2>3. CASE ~late'
    <3>1. wire = <<>> /\ req.line = 0
      BY <2>1, <2>3
    <3>2. PICK k \in Nat : k = Len(responses) + 1
      OBVIOUS
    <3>3. parser = Session!Between /\ Session!GoesOn(Session!Piece(k, 1))
      BY <3>1, <3>2, <1>1 DEF Paired, Reading
    <3>4. gone \/ Session!Piece(k, 1) = Session!Piece(Len(sent) + 1, 1)
      BY <3>1, <3>3 DEF Session!GoesOn
    <3>5. Session!Piece(k, 1) = Session!Piece(Len(sent) + 1, 1) => Len(responses) = Len(sent)
      <4>1. Len(responses) \in Nat /\ Len(sent) \in Nat
        OBVIOUS
      <4> QED BY <4>1, <3>2, NothingOwed, Zenon
    <3>6. ClosedJustly'
      BY <3>4, <3>5, <1>1 DEF ClosedJustly
    <3> QED BY <3>6, <1>2, <1>3 DEF Paired
  <2> QED BY <2>2, <2>3
<1> QED BY <1>4, <1>5

LEMMA PairStep ==
    ASSUME Session!SessionTypeOK, Session!SessionTypeOK', Session!WireInv, AllPaired,
           Session!Next \/ UNCHANGED sessionVars
    PROVE  AllPaired'
<1>1. CASE merged' \/ cut'
  BY <1>1 DEF AllPaired, Session!PairInv, Session!AnswersPair
<1>2. CASE ~merged' /\ ~cut'
  <2>1. ~merged /\ ~cut
    <3>1. Session!Read => (merged => merged') /\ (cut => cut')
      BY ReadFacts
    <3>2. Session!Read \/ UNCHANGED <<merged, cut>>
      BY Frames DEF Session!Next, Session!Server, sessionVars
    <3> QED BY <3>1, <3>2, <1>2
  <2>2. Paired
    BY <2>1, ToPaired
  <2>3. Session!Read => Paired'
    BY <2>2, <1>2, PairRead
  <2>4. UNCHANGED sessionVars => Paired'
    BY <2>2 DEF sessionVars, Paired, Reading, AnsweredRight, ClosedJustly, Session!GoesOn, Session!Piece,
        Session!Between, Session!OfStream, Session!IsLast, Session!Collected, Session!After, Session!Body
  <2>5. Paired'
    BY <2>2, <2>3, <2>4, PairSend, PairClose, PairNew, PairEnd, PairOptions, PairRefuse, PairProcess
       DEF Session!Next, Session!Server
  <2>6. DOMAIN responses' = 1..Len(responses') /\ Len(responses') \in Nat
    BY DEF Session!SessionTypeOK
  <2>7. Session!PairInv'
    BY <2>5 DEF Paired, Reading, Session!PairInv
  <2>8. Session!AnswersPair'
    BY <2>5, <2>6 DEF Paired, AnsweredRight, ClosedJustly, Session!AnswersPair
  <2>9. (merged \/ cut \/ Len(responses) <= Len(sent))'
    BY <2>5 DEF Paired
  <2> QED BY <2>7, <2>8, <2>9 DEF AllPaired
<1> QED BY <1>1, <1>2

\* The connection starts in the invariant.
LEMMA SessionInit ==
    ASSUME Session!Init
    PROVE  Session!SessionInv
<1>0. Session!NewHttpRequest(FALSE) = [line |-> 0, Body |-> <<>>, IsMessageCompleteCalled |-> FALSE]
  BY DEF Session!NewHttpRequest
<1>1. /\ pipelines \in BOOLEAN /\ sent = <<>> /\ wire = <<>> /\ gone = FALSE
      /\ spc = "new" /\ parser = Session!Between
      /\ req = [line |-> 0, Body |-> <<>>, IsMessageCompleteCalled |-> FALSE]
      /\ executed = <<>> /\ responses = <<>> /\ cut = FALSE /\ merged = FALSE /\ late = FALSE
  BY <1>0, Zenon DEF Session!Init
<1>2. Session!SessionTypeOK
  <2>1. /\ pipelines \in BOOLEAN /\ gone \in BOOLEAN
        /\ cut \in BOOLEAN /\ merged \in BOOLEAN /\ late \in BOOLEAN
    BY <1>1
  <2>2. sent \in Seq(Session!Kind) /\ wire \in Seq(Session!AnyPiece)
        /\ executed \in Seq(Seq(Session!AnyPiece))
        /\ responses \in Seq([of : Nat, how : Session!Outcome])
    BY <1>1
  <2>3. parser \in Session!AnyPiece
    BY <1>1 DEF Session!AnyPiece, Session!Between, Session!Piece
  <2>4. req \in [line : Nat, Body : Seq(Session!AnyPiece), IsMessageCompleteCalled : BOOLEAN]
    <3>1. <<>> \in Seq(Session!AnyPiece) /\ FALSE \in BOOLEAN /\ 0 \in Nat
      OBVIOUS
    <3> QED BY <1>1, <3>1
  <2>5. req.line \in 0..Len(sent)
    BY <1>1
  <2> QED BY <1>1, <2>1, <2>2, <2>3, <2>4, <2>5 DEF Session!SessionTypeOK
<1>3. Session!WireInv
  BY <1>1 DEF Session!WireInv
<1>4. Session!CollectedInv /\ Session!ExecutedInv /\ Session!ExecutedWhole
  BY <1>1 DEF Session!CollectedInv, Session!ExecutedInv, Session!ExecutedWhole
<1>5. Session!PairInv
  BY <1>1 DEF Session!PairInv, Session!GoesOn
<1>6. Session!AnswersPair /\ Len(responses) <= Len(sent)
  BY <1>1 DEF Session!AnswersPair
<1> QED BY <1>2, <1>3, <1>4, <1>5, <1>6 DEF Session!SessionInv

LEMMA SessionStep ==
    ASSUME Session!SessionInv, Session!Next \/ UNCHANGED sessionVars
    PROVE  Session!SessionInv'
<1>1. Session!SessionTypeOK' /\ Session!SessionTypeOK /\ Session!WireInv
  BY SessionTypeStep DEF Session!SessionInv
<1>2. Session!WireInv'
  BY <1>1, WireStep
<1>3. Session!CollectedInv'
  BY <1>1, <1>2, CollectedStep DEF Session!SessionInv
<1>4. Session!ExecutedWhole' /\ Session!ExecutedInv'
  BY <1>1, ExecutedStep DEF Session!SessionInv
<1>5. AllPaired
  BY DEF Session!SessionInv, AllPaired
<1>6. AllPaired'
  BY <1>1, <1>5, PairStep
<1> QED BY <1>1, <1>2, <1>3, <1>4, <1>6 DEF Session!SessionInv, AllPaired

\* However requests are cut into pieces or meet in a chunk, what is on the wire, what
\* has been collected and what has been executed stay in the order of the stream, and
\* reading stands where the answers say (OnNewConnection, ReadHttpRequest).
THEOREM SessionInvariant == FairConnectionSpec => []Session!SessionInv
<1>1. ConnectionInit => Session!SessionInv
  BY SessionInit DEF ConnectionInit
<1>2. Session!SessionInv /\ [ConnectionNext]_connectionVars => Session!SessionInv'
  <2>1. [ConnectionNext]_connectionVars => Session!Next \/ UNCHANGED sessionVars
    BY DEF ConnectionNext, OnNewConnection, HttpRequest, connectionVars
  <2> QED BY <2>1, SessionStep
<1> QED BY <1>1, <1>2, PTL DEF FairConnectionSpec

\* Handlers are given nothing but whole calls, at most once and in order.
THEOREM RequestsWhole == FairConnectionSpec => []ExecutedWhole
<1>1. Session!SessionInv => ExecutedWhole
  BY DEF Session!SessionInv, ExecutedWhole
<1> QED BY SessionInvariant, <1>1, PTL

\* The n-th response answers the n-th request, and a connection is closed with nothing
\* owed or for a reason, unless requests met or one was cut.
THEOREM AnswersInPairs == FairConnectionSpec => []AnswersPair
<1>1. Session!SessionInv => AnswersPair
  BY DEF Session!SessionInv, AnswersPair
<1> QED BY SessionInvariant, <1>1, PTL

-----------------------------------------------------------------------------
(* The request of a script: what the server sends.                         *)

LEMMA Joined ==
    ASSUME NEW S, NEW s \in Seq(S), NEW t \in Seq(S), NEW u, u = s \o t
    PROVE  /\ u \in Seq(S) /\ Len(u) = Len(s) + Len(t)
           /\ \A i \in 1..Len(s) : u[i] = s[i]
           /\ \A i \in (Len(s) + 1)..(Len(s) + Len(t)) : u[i] = t[i - Len(s)]
BY ConcatProperties

\* What a server may send.
Symbol == {"version", "status", "cr", "lf", "field", "text", "packed", "more"}

\* The header whose lines end with a carriage return and a line feed.
IsHeader(h) ==
    /\ h[1] = "version" /\ h[2] = "status" /\ h[3] = "cr" /\ h[4] = "lf" /\ h[5] = "field"
    /\ h[6] = "cr" /\ h[7] = "lf" /\ h[8] = "cr" /\ h[9] = "lf"

LEMMA HeaderFacts ==
    /\ Request!Header \in Seq(Symbol)
    /\ Len(Request!Header) = IF peer.lines = "crlf" THEN 9 ELSE 6
    /\ peer.lines = "crlf" => IsHeader(Request!Header)
<1> DEFINE line == <<"version", "status">>
           middle == <<"cr", "lf", "field">>
           end == <<"cr", "lf", "cr", "lf">>
           bare == <<"lf", "field", "lf", "lf">>
           start == line \o middle
           H == Request!Header
<1>1. /\ line \in Seq(Symbol) /\ middle \in Seq(Symbol) /\ end \in Seq(Symbol)
      /\ bare \in Seq(Symbol)
  BY DEF Symbol
<1>2. Len(line) = 2 /\ Len(middle) = 3 /\ Len(end) = 4 /\ Len(bare) = 4
  OBVIOUS
<1>3. /\ line[1] = "version" /\ line[2] = "status"
      /\ middle[1] = "cr" /\ middle[2] = "lf" /\ middle[3] = "field"
      /\ end[1] = "cr" /\ end[2] = "lf" /\ end[3] = "cr" /\ end[4] = "lf"
  OBVIOUS
<1>4. H = IF peer.lines = "crlf" THEN start \o end ELSE line \o bare
  BY DEF Request!Header, Request!StatusLine, Request!Keyword
<1>5. start = line \o middle
  OBVIOUS
<1> HIDE DEF line, middle, end, bare, start, H
<1>6. CASE peer.lines # "crlf"
  <2>1. H \in Seq(Symbol) /\ Len(H) = Len(line) + Len(bare)
    BY <1>1, <1>4, <1>6, Joined
  <2>2. Len(H) = 6
    BY <1>2, <2>1
  <2> QED BY <2>1, <2>2, <1>6 DEF H
<1>7. CASE peer.lines = "crlf"
  <2>1. /\ start \in Seq(Symbol) /\ Len(start) = Len(line) + Len(middle)
        /\ \A i \in 1..Len(line) : start[i] = line[i]
        /\ \A i \in (Len(line) + 1)..(Len(line) + Len(middle)) : start[i] = middle[i - Len(line)]
    BY <1>1, <1>5, Joined
  <2>2. /\ Len(start) = 5 /\ start[1] = line[1] /\ start[2] = line[2]
        /\ start[3] = middle[1] /\ start[4] = middle[2] /\ start[5] = middle[3]
    BY <1>2, <2>1
  <2>3. start \in Seq(Symbol) /\ H = start \o end
    BY <2>1, <1>4, <1>7
  <2>4. /\ H \in Seq(Symbol) /\ Len(H) = Len(start) + Len(end)
        /\ \A i \in 1..Len(start) : H[i] = start[i]
        /\ \A i \in (Len(start) + 1)..(Len(start) + Len(end)) : H[i] = end[i - Len(start)]
    BY <1>1, <2>3, Joined
  <2>5. Len(start) = 5 /\ Len(end) = 4
    BY <1>2, <2>2
  <2>6. /\ Len(H) = 9 /\ H[1] = start[1] /\ H[2] = start[2] /\ H[3] = start[3]
        /\ H[4] = start[4] /\ H[5] = start[5]
        /\ H[6] = end[1] /\ H[7] = end[2] /\ H[8] = end[3] /\ H[9] = end[4]
    BY <2>4, <2>5
  <2>7. IsHeader(H)
    BY <2>2, <2>6, <1>3 DEF IsHeader
  <2> QED BY <2>4, <2>6, <2>7, <1>7 DEF H
<1> QED BY <1>6, <1>7

\* The stream, symbol by symbol.
LEMMA StreamFacts ==
    ASSUME peer \in Request!ServerKind
    PROVE  /\ Request!Header \in Seq(Symbol) /\ Request!Encoded \in Seq(Symbol)
           /\ Request!Stream \in Seq(Symbol)
           /\ Len(Request!Header) = IF peer.lines = "crlf" THEN 9 ELSE 6
           /\ Len(Request!Encoded) = IF peer.coding = "identity" THEN 5 ELSE 2
           /\ Len(Request!Stream) =
                Len(Request!Header) + Len(Request!Encoded) + IF peer.surplus THEN 1 ELSE 0
           /\ \A i \in 1..Len(Request!Header) : Request!Stream[i] = Request!Header[i]
           /\ peer.lines \in {"crlf", "lf"} /\ peer.framing \in {"length", "close"}
           /\ peer.coding \in {"identity", "deflate", "padded", "corrupt", "br"}
           /\ peer.surplus \in BOOLEAN
<1>1. /\ peer.lines \in {"crlf", "lf"} /\ peer.framing \in {"length", "close"}
      /\ peer.coding \in {"identity", "deflate", "padded", "corrupt", "br"}
      /\ peer.surplus \in BOOLEAN
  BY DEF Request!ServerKind
<1> DEFINE H == Request!Header
           E == Request!Encoded
           T == IF peer.surplus THEN <<"more">> ELSE <<>>
           HE == H \o E
<1>2. E \in Seq(Symbol) /\ Len(E) = IF peer.coding = "identity" THEN 5 ELSE 2
  <2> DEFINE content == <<"text">> \o <<"cr", "lf", "cr", "lf">>
             packed == <<"packed", "packed">>
  <2>1. packed \in Seq(Symbol) /\ Len(packed) = 2
    BY DEF Symbol
  <2>2. content \in Seq(Symbol) /\ Len(content) = 5
    <3> DEFINE text == <<"text">>
               ends == <<"cr", "lf", "cr", "lf">>
    <3>1. text \in Seq(Symbol) /\ ends \in Seq(Symbol) /\ Len(text) = 1 /\ Len(ends) = 4
      BY DEF Symbol
    <3>2. content = text \o ends
      OBVIOUS
    <3> HIDE DEF text, ends, content
    <3>0. text \in Seq(Symbol) /\ ends \in Seq(Symbol)
      BY <3>1
    <3>3. content \in Seq(Symbol) /\ Len(content) = Len(text) + Len(ends)
      BY <3>0, <3>2, Joined
    <3> QED BY <3>1, <3>3
  <2>3. E = IF peer.coding = "identity" THEN content ELSE packed
    BY DEF Request!Encoded, Request!Content, Request!Keyword
  <2> HIDE DEF content, packed, E
  <2> QED BY <2>1, <2>2, <2>3
<1>3. T \in Seq(Symbol) /\ Len(T) = IF peer.surplus THEN 1 ELSE 0
  <2>1. <<"more">> \in Seq(Symbol) /\ Len(<<"more">>) = 1
    BY DEF Symbol
  <2>2. <<>> \in Seq(Symbol) /\ Len(<<>>) = 0
    OBVIOUS
  <2> QED BY <2>1, <2>2
<1>4. Request!Stream = HE \o T /\ HE = H \o E
  BY DEF Request!Stream
<1>5. H \in Seq(Symbol) /\ Len(H) = IF peer.lines = "crlf" THEN 9 ELSE 6
  BY HeaderFacts
<1> HIDE DEF H, E, T, HE
<1>a. H \in Seq(Symbol) /\ E \in Seq(Symbol) /\ T \in Seq(Symbol)
  BY <1>2, <1>3, <1>5
<1>6. HE \in Seq(Symbol) /\ Len(HE) = Len(H) + Len(E) /\ \A i \in 1..Len(H) : HE[i] = H[i]
  BY <1>a, <1>4, Joined
<1>7. HE \in Seq(Symbol)
  BY <1>6
<1>8. /\ Request!Stream \in Seq(Symbol) /\ Len(Request!Stream) = Len(HE) + Len(T)
      /\ \A i \in 1..Len(HE) : Request!Stream[i] = HE[i]
  BY <1>a, <1>4, <1>7, Joined
<1>9. Len(H) \in Nat /\ Len(E) \in Nat
  BY <1>2, <1>5
<1>10. \A i \in 1..Len(H) : Request!Stream[i] = H[i]
  <2>1. \A i \in 1..Len(H) : i \in 1..Len(HE)
    BY <1>6, <1>9
  <2> QED BY <1>6, <1>8, <2>1
<1>11. Len(Request!Stream) = Len(H) + Len(E) + IF peer.surplus THEN 1 ELSE 0
  BY <1>3, <1>6, <1>8, <1>9
<1> QED BY <1>1, <1>2, <1>5, <1>8, <1>10, <1>11 DEF H, E

-----------------------------------------------------------------------------
(* The request of a script: which address it talks to, how far it has read,*)
(* and why it gives up.                                                    *)

Answer == {"open", "dead", "unreachable"}

\* An address is tried only after all before it failed at once; what is read comes
\* from one that is open; a response of known length is complete with its last symbol.
ReachInv ==
    /\ addresses \in Seq(Answer) /\ peer \in Request!ServerKind
    /\ ended \in BOOLEAN
    /\ taken \in Nat /\ arrives \in Nat /\ taken <= arrives /\ arrives <= Len(Request!Stream)
    /\ hpc \in {"dial", "write", "read", "decode", "done"}
    /\ hpc \in {"dial", "write"} => taken = 0
    /\ hpc \in {"write", "read"} => addresses # <<>> /\ Head(addresses) # "unreachable"
    /\ hpc = "read" =>
        /\ Head(addresses) = "open"
        /\ peer.framing = "length" /\ ~peer.surplus => taken < Len(Request!Stream)
    /\ hpc = "decode" \/ answered = "response" => peer.framing = "length" /\ Request!Complete(taken)
    /\ answered \in {"nothing", "nil", "response"}
    /\ answered # "nothing" => hpc = "done"

LEMMA ReachInit ==
    ASSUME ConnectionInit
    PROVE  ReachInv /\ Request!NilJustified
<1> USE ConnectionAssumption
<1>1. /\ addresses \in Addresses /\ peer \in Request!ServerKind
      /\ taken = 0 /\ arrives = Len(Request!Stream) /\ ended = FALSE
      /\ hpc = "dial" /\ answered = "nothing"
  BY Zenon DEF ConnectionInit, Request!Init
<1>2. addresses \in Seq(Answer)
  BY <1>1 DEF ConnectionAssumption, Answer
<1>3. Len(Request!Stream) \in Nat
  BY <1>1, StreamFacts
<1>4. taken \in Nat /\ arrives \in Nat /\ taken <= arrives /\ arrives <= Len(Request!Stream)
  BY <1>1, <1>3
<1>5. ended \in BOOLEAN
  BY <1>1
<1>6. ReachInv
  BY <1>1, <1>2, <1>4, <1>5 DEF ReachInv
<1> QED BY <1>1, <1>6 DEF Request!NilJustified

\* What a read takes.
LEMMA TakenFacts ==
    ASSUME ReachInv, Request!Read
    PROVE  /\ taken' \in (taken + 1)..arrives /\ taken' <= taken + BufferSize
           /\ IF search.found = 0 THEN Request!Found(SubSeq(Request!Stream, taken + 1, taken'))
                                  ELSE UNCHANGED <<search, buffer, reads, resp>>
           /\ IF Request!ParserError(taken') THEN Request!Nil(FALSE)
              ELSE /\ hpc' = IF Request!Complete(taken') THEN "decode" ELSE "read"
                   /\ UNCHANGED <<answered, trouble>>
<1> USE ConnectionAssumption DEF ConnectionAssumption
<1>1. taken < arrives /\ taken \in Nat /\ arrives \in Nat /\ BufferSize \in Nat \ {0}
  BY DEF Request!Read, ReachInv
<1> DEFINE last == Request!Min({arrives, taken + BufferSize})
<1>2. last \in Nat /\ last <= arrives /\ last <= taken + BufferSize
  <2>1. PICK m \in {arrives, taken + BufferSize} : \A y \in {arrives, taken + BufferSize} : m =< y
    <3>1. CASE arrives <= taken + BufferSize
      BY <1>1, <3>1
    <3>2. CASE ~(arrives <= taken + BufferSize)
      BY <1>1, <3>2
    <3> QED BY <3>1, <3>2
  <2>2. last \in {arrives, taken + BufferSize} /\ \A y \in {arrives, taken + BufferSize} : last =< y
    BY <2>1 DEF Request!Min
  <2> HIDE DEF last
  <2> QED BY <2>2, <1>1
<1>3. PICK n \in (taken + 1)..last :
        /\ taken' = n
        /\ IF search.found = 0 THEN Request!Found(SubSeq(Request!Stream, taken + 1, n))
                               ELSE UNCHANGED <<search, buffer, reads, resp>>
        /\ IF Request!ParserError(n) THEN Request!Nil(FALSE)
           ELSE /\ hpc' = IF Request!Complete(n) THEN "decode" ELSE "read"
                /\ UNCHANGED <<answered, trouble>>
  BY Zenon DEF Request!Read
<1> HIDE DEF last
<1>4. n \in (taken + 1)..arrives /\ n <= taken + BufferSize
  BY <1>1, <1>2
<1> QED BY <1>3, <1>4

\* A response that has come whole is complete.
LEMMA LastSymbol ==
    ASSUME peer \in Request!ServerKind, NEW n \in Nat, n >= Len(Request!Stream),
           peer.framing = "length"
    PROVE  Request!Complete(n)
<1>1. /\ Len(Request!Header) \in Nat /\ Len(Request!Encoded) \in Nat
      /\ Len(Request!Stream) >= Len(Request!Header) + Len(Request!Encoded)
  BY StreamFacts
<1>2. n >= Len(Request!Header) + Len(Request!Encoded)
  BY <1>1, StreamFacts
<1> QED BY <1>2 DEF Request!Complete

LEMMA ReachStep ==
    ASSUME ReachInv, Request!NilJustified, Request!Next \/ UNCHANGED requestVars
    PROVE  ReachInv' /\ Request!NilJustified'
<1> USE DEF Request!Nil
<1>0. /\ addresses \in Seq(Answer) /\ peer \in Request!ServerKind
      /\ Len(Request!Stream) \in Nat
      /\ taken \in Nat /\ arrives \in Nat /\ taken <= arrives /\ arrives <= Len(Request!Stream)
  BY StreamFacts DEF ReachInv
<1>1. CASE UNCHANGED requestVars
  BY <1>1 DEF requestVars, ReachInv, Request!NilJustified, Request!Stream, Request!Header,
     Request!Encoded, Request!Complete
<1>2. CASE Request!Dial
  <2>1. UNCHANGED <<peer, taken, arrives, ended>> /\ hpc = "dial" /\ answered = "nothing"
    BY <1>2 DEF Request!Dial, ReachInv
  <2>2. Request!Stream' = Request!Stream
    BY <2>1 DEF Request!Stream, Request!Header, Request!Encoded
  <2>3. CASE addresses = <<>>
    <3>1. addresses' = addresses /\ hpc' = "done" /\ answered' = "nil"
      BY <1>2, <2>3 DEF Request!Dial
    <3> QED BY <2>1, <2>2, <2>3, <3>1 DEF ReachInv, Request!NilJustified
  <2>4. CASE addresses # <<>> /\ Head(addresses) = "unreachable"
    <3>1. addresses' = Tail(addresses) /\ hpc' = hpc /\ answered' = answered
      BY <1>2, <2>4 DEF Request!Dial
    <3>2. addresses' \in Seq(Answer)
      BY <1>0, <2>4, <3>1
    <3> QED BY <2>1, <2>2, <3>1, <3>2 DEF ReachInv, Request!NilJustified
  <2>5. CASE addresses # <<>> /\ Head(addresses) # "unreachable"
    <3>1. addresses' = addresses /\ hpc' = "write" /\ answered' = answered
      BY <1>2, <2>5 DEF Request!Dial
    <3> QED BY <2>1, <2>2, <2>5, <3>1 DEF ReachInv, Request!NilJustified
  <2> QED BY <2>3, <2>4, <2>5
<1>3. CASE Request!Write
  <2>1. UNCHANGED <<addresses, peer, taken, arrives, ended>> /\ hpc = "write" /\ answered = "nothing"
        /\ addresses # <<>> /\ Head(addresses) \in {"open", "dead"}
    BY <1>3, <1>0 DEF Request!Write, ReachInv, Answer
  <2>2. Request!Stream' = Request!Stream
    BY <2>1 DEF Request!Stream, Request!Header, Request!Encoded
  <2>3. \/ Head(addresses) = "open" /\ hpc' = "read" /\ answered' = answered
        \/ /\ hpc' = "done" /\ answered' = "nil"
           /\ Head(addresses) = "open" => trouble'
    BY <1>3 DEF Request!Write
  <2>4. CASE Head(addresses) = "open" /\ hpc' = "read" /\ answered' = answered
    <3>1. peer.framing = "length" /\ ~peer.surplus => taken < Len(Request!Stream)
      <4>1. taken = 0
        BY <2>1 DEF ReachInv
      <4>2. Len(Request!Stream) > 0
        <5>1. /\ Len(Request!Stream) = Len(Request!Header) + Len(Request!Encoded)
                    + IF peer.surplus THEN 1 ELSE 0
              /\ Len(Request!Header) \in {6, 9} /\ Len(Request!Encoded) \in {2, 5}
          BY <1>0, StreamFacts
        <5> QED BY <5>1
      <4> QED BY <4>1, <4>2
    <3> QED BY <2>1, <2>2, <2>4, <3>1 DEF ReachInv, Request!NilJustified
  <2>5. CASE hpc' = "done" /\ answered' = "nil" /\ (Head(addresses) = "open" => trouble')
    BY <2>1, <2>2, <2>5 DEF ReachInv, Request!NilJustified
  <2> QED BY <2>3, <2>4, <2>5
<1>4. CASE Request!Read
  <2>1. UNCHANGED <<addresses, peer, arrives, ended>> /\ hpc = "read" /\ answered = "nothing"
        /\ addresses # <<>> /\ Head(addresses) = "open"
    BY <1>4 DEF Request!Read, ReachInv
  <2>2. Request!Stream' = Request!Stream /\ Request!Complete(taken)' = Request!Complete(taken')
    BY <2>1 DEF Request!Stream, Request!Header, Request!Encoded, Request!Complete
  <2>3. taken' \in Nat /\ taken' <= arrives
    BY <1>0, <1>4, TakenFacts
  <2>4. CASE Request!ParserError(taken')
    <3>1. hpc' = "done" /\ answered' = "nil"
      BY <1>4, <2>4, TakenFacts
    <3>2. peer.surplus
      BY <2>4 DEF Request!ParserError
    <3> QED BY <1>0, <2>1, <2>2, <2>3, <3>1, <3>2 DEF ReachInv, Request!NilJustified
  <2>5. CASE ~Request!ParserError(taken')
    <3>1. hpc' = (IF Request!Complete(taken') THEN "decode" ELSE "read") /\ answered' = answered
      BY <1>4, <2>5, TakenFacts
    <3>2. peer.framing = "length" /\ ~Request!Complete(taken') => taken' < Len(Request!Stream)
      BY <1>0, <2>3, LastSymbol
    <3>3. Request!Complete(taken') => peer.framing = "length"
      BY DEF Request!Complete
    <3> QED BY <1>0, <2>1, <2>2, <2>3, <3>1, <3>2, <3>3 DEF ReachInv, Request!NilJustified
  <2> QED BY <2>4, <2>5
<1>5. CASE Request!ReadFail
  <2>1. UNCHANGED <<addresses, peer, taken, arrives, ended>> /\ hpc = "read"
        /\ hpc' = "done" /\ answered' = "nil"
    BY <1>5 DEF Request!ReadFail
  <2>2. Request!Stream' = Request!Stream
    BY <2>1 DEF Request!Stream, Request!Header, Request!Encoded
  <2>3. peer.framing = "length" /\ ~peer.surplus => taken < Len(Request!Stream)
    BY <2>1 DEF ReachInv
  <2>4. trouble' \/ ~(taken < Len(Request!Stream))
    BY <1>5 DEF Request!ReadFail
  <2>5. trouble' \/ peer.framing = "close" \/ peer.surplus
    BY <2>3, <2>4, <1>0, StreamFacts
  <2>6. Request!NilJustified'
    BY <2>1, <2>5 DEF Request!NilJustified
  <2>7. ReachInv'
    BY <2>1, <2>2 DEF ReachInv
  <2> QED BY <2>6, <2>7
<1>6. CASE Request!Decode
  <2>1. UNCHANGED <<addresses, peer, taken, arrives, ended>> /\ hpc = "decode" /\ hpc' = "done"
        /\ \/ answered' = "nil" /\ peer.coding = "corrupt"
           \/ answered' = "response"
    BY <1>6 DEF Request!Decode
  <2>2. Request!Stream' = Request!Stream /\ Request!Complete(taken)' = Request!Complete(taken)
    BY <2>1 DEF Request!Stream, Request!Header, Request!Encoded, Request!Complete
  <2> QED BY <2>1, <2>2 DEF ReachInv, Request!NilJustified
<1>7. CASE Request!ServerClose
  <2>1. UNCHANGED <<addresses, peer, taken, hpc, answered, trouble>>
        /\ ended' = TRUE /\ arrives' \in taken..arrives
    BY <1>7 DEF Request!ServerClose
  <2>2. Request!Stream' = Request!Stream /\ Request!Complete(taken)' = Request!Complete(taken)
    BY <2>1 DEF Request!Stream, Request!Header, Request!Encoded, Request!Complete
  <2>3. arrives' \in Nat /\ taken <= arrives' /\ arrives' <= Len(Request!Stream)
    BY <1>0, <2>1
  <2>4. ended' \in BOOLEAN
    BY <2>1
  <2>5. Request!NilJustified'
    BY <2>1 DEF Request!NilJustified
  <2>6. hpc' = "read" =>
            /\ Head(addresses') = "open"
            /\ peer'.framing = "length" /\ ~peer'.surplus => taken' < Len(Request!Stream)'
    BY <2>1, <2>2 DEF ReachInv
  <2> QED BY <2>1, <2>2, <2>3, <2>4, <2>5, <2>6 DEF ReachInv
<1> QED BY <1>1, <1>2, <1>3, <1>4, <1>5, <1>6, <1>7 DEF Request!Next, Request!DoHttpRequest

-----------------------------------------------------------------------------
(* The search for the blank line, in whatever pieces the header comes.     *)

\* StreamSearch when n symbols of a header with carriage returns have gone through it.
SearchAt(n) ==
    IF n >= 9 THEN [pos |-> 4, skiped |-> 8, found |-> 8]
    ELSE [pos |-> IF n = 3 \/ n = 6 THEN 1 ELSE IF n = 4 \/ n = 7 THEN 2 ELSE IF n = 8 THEN 3 ELSE 0,
          skiped |-> n, found |-> 0]

\* A search that has found nothing can go on.
SearchState ==
    {s \in [pos : 0..4, skiped : Nat, found : Nat] :
        s.found = 0 => s.pos <= 3 /\ s.skiped >= s.pos}

LEMMA KeywordFacts ==
    /\ Request!Keyword[1] = "cr" /\ Request!Keyword[2] = "lf"
    /\ Request!Keyword[3] = "cr" /\ Request!Keyword[4] = "lf" /\ Len(Request!Keyword) = 4
BY DEF Request!Keyword

LEMMA AdvanceType ==
    ASSUME NEW s \in SearchState, NEW c
    PROVE  Request!Advance(s, c) \in SearchState
<1>1. /\ s \in [pos : 0..4, skiped : Nat, found : Nat]
      /\ s.found = 0 => s.pos <= 3 /\ s.skiped >= s.pos
  BY DEF SearchState
<1>2. CASE s.found > 0
  BY <1>2 DEF Request!Advance
<1>3. CASE ~(s.found > 0) /\ Request!Keyword[s.pos + 1] # c
  <2>1. Request!Advance(s, c) = [s EXCEPT !.pos = 0, !.skiped = @ + 1]
    BY <1>3 DEF Request!Advance
  <2>2. s.found = 0 /\ s.skiped + 1 \in Nat /\ s.skiped + 1 >= 0 /\ 0 \in 0..4
    BY <1>1, <1>3
  <2>3. PICK r : r = Request!Advance(s, c)
    OBVIOUS
  <2>4. /\ r \in [pos : 0..4, skiped : Nat, found : Nat]
        /\ r.pos = 0 /\ r.skiped = s.skiped + 1
    BY <2>1, <2>2, <2>3, <1>1
  <2>5. r.skiped >= r.pos /\ r.pos <= 3
    BY <2>2, <2>4
  <2> QED BY <2>3, <2>4, <2>5 DEF SearchState
<1>4. CASE ~(s.found > 0) /\ Request!Keyword[s.pos + 1] = c /\ s.pos + 1 = Len(Request!Keyword)
  <2>1. Request!Advance(s, c) = [s EXCEPT !.pos = @ + 1, !.found = s.skiped]
    BY <1>4 DEF Request!Advance
  <2>2. s.found = 0 /\ s.pos = 3 /\ s.skiped \in Nat /\ s.skiped >= 3 /\ s.pos + 1 \in 0..4
    BY <1>1, <1>4, KeywordFacts
  <2>3. PICK r : r = Request!Advance(s, c)
    OBVIOUS
  <2>4. r \in [pos : 0..4, skiped : Nat, found : Nat] /\ r.found = s.skiped
    BY <2>1, <2>2, <2>3, <1>1
  <2>5. r.found # 0
    BY <2>2, <2>4
  <2> QED BY <2>3, <2>4, <2>5 DEF SearchState
<1>5. CASE ~(s.found > 0) /\ Request!Keyword[s.pos + 1] = c /\ s.pos + 1 # Len(Request!Keyword)
  <2>1. Request!Advance(s, c) = [s EXCEPT !.pos = @ + 1, !.skiped = @ + 1]
    BY <1>5 DEF Request!Advance
  <2>2. s.found = 0 /\ s.pos <= 3 /\ s.pos # 3 /\ s.skiped >= s.pos
    BY <1>1, <1>5, KeywordFacts
  <2>3. s.pos + 1 \in 0..4 /\ s.pos + 1 <= 3 /\ s.skiped + 1 \in Nat /\ s.skiped + 1 >= s.pos + 1
    BY <2>2, <1>1
  <2> QED BY <2>1, <2>2, <2>3, <1>1 DEF SearchState
<1> QED BY <1>2, <1>3, <1>4, <1>5

LEMMA ProcessStep ==
    ASSUME NEW P, NEW chunk \in Seq(P), NEW s \in SearchState
    PROVE  \E f \in [0..Len(chunk) -> SearchState] :
             /\ f[0] = s
             /\ \A n \in 1..Len(chunk) : f[n] = Request!Advance(f[n - 1], chunk[n])
             /\ Request!Process(s, chunk) = f[Len(chunk)]
<1> DEFINE N == Len(chunk)
           step == [n \in 1..N |-> [r \in SearchState |-> Request!Advance(r, chunk[n])]]
<1>1. N \in Nat
  OBVIOUS
<1>2. step \in [1..N -> [SearchState -> SearchState]]
  BY AdvanceType
<1>3. \E f \in [0..N -> SearchState] : f[0] = s /\ \A n \in 1..N : f[n] = step[n][f[n - 1]]
  <2> DEFINE S == SearchState
             base == s
  <2>1. base \in S
    OBVIOUS
  <2>2. step \in [1..N -> [S -> S]]
    BY <1>2
  <2> HIDE DEF N, step, S, base
  <2>3. \E f : Iterates(f, N, S, base, step)
    BY <1>1, <2>1, <2>2, Recursion
  <2> QED BY <2>3 DEF S, base, Iterates
<1>4. PICK f \in [0..N -> SearchState] : f[0] = s /\ \A n \in 1..N : f[n] = step[n][f[n - 1]]
  BY <1>3
<1>5. ASSUME NEW n \in 1..N PROVE f[n] = Request!Advance(f[n - 1], chunk[n])
  <2>1. n - 1 \in 0..N
    BY <1>1
  <2>2. f[n - 1] \in SearchState
    BY <2>1, <1>4
  <2> QED BY <1>4, <2>2
<1> DEFINE Eq(g) == g = [n \in 0..Len(chunk) |->
                IF n = 0 THEN s ELSE Request!Advance(g[n - 1], chunk[n])]
<1>6. Eq(f)
  <2>1. \A n \in 0..Len(chunk) :
            f[n] = IF n = 0 THEN s ELSE Request!Advance(f[n - 1], chunk[n])
    <3> SUFFICES ASSUME NEW n \in 0..Len(chunk)
                 PROVE  f[n] = IF n = 0 THEN s ELSE Request!Advance(f[n - 1], chunk[n])
      OBVIOUS
    <3>1. CASE n = 0
      BY <1>4, <3>1
    <3>2. CASE n # 0
      <4>1. n \in 1..N
        BY <1>1, <3>2
      <4> QED BY <4>1, <3>2, <1>5
    <3> QED BY <3>1, <3>2
  <2> QED BY <2>1, <1>4
<1>7. Eq(CHOOSE g : Eq(g))
  <2> HIDE DEF Eq
  <2> QED BY <1>6
<1>8. Request!Process(s, chunk) = (CHOOSE g : Eq(g))[Len(chunk)]
  BY DEF Request!Process
<1> DEFINE g == CHOOSE h : Eq(h)
<1>9. ASSUME NEW n \in Nat PROVE n <= N => g[n] = f[n]
  <2> DEFINE T == {m \in Nat : m <= N => g[m] = f[m]}
  <2>1. g[0] = f[0]
    <3> HIDE DEF g
    <3>1. Eq(g)
      BY <1>7 DEF g
    <3>2. 0 \in 0..Len(chunk)
      BY <1>1
    <3>3. g[0] = s
      BY <3>1, <3>2
    <3> QED BY <3>3, <1>4
  <2>2. ASSUME NEW m \in Nat, m <= N => g[m] = f[m], m + 1 <= N PROVE g[m + 1] = f[m + 1]
    <3>1. m + 1 \in 1..N /\ (m + 1) - 1 = m /\ m + 1 \in 0..Len(chunk) /\ m + 1 # 0
      BY <2>2, <1>1
    <3>2. g[m] = f[m]
      BY <2>2, <1>1
    <3>3. g[m + 1] = Request!Advance(g[m], chunk[m + 1])
      <4> HIDE DEF g
      <4>1. Eq(g)
        BY <1>7 DEF g
      <4>2. \A i \in 0..Len(chunk) : i # 0 => g[i] = Request!Advance(g[i - 1], chunk[i])
        BY <4>1
      <4> QED BY <4>2, <3>1
    <3>4. f[m + 1] = Request!Advance(f[m], chunk[m + 1])
      BY <3>1, <1>5
    <3> QED BY <3>2, <3>3, <3>4
  <2> HIDE DEF g
  <2>3. 0 \in T /\ T \in SUBSET Nat
    BY <2>1
  <2>4. ASSUME NEW m \in T PROVE m + 1 \in T
    BY <2>2
  <2>5. n \in T
    <3> HIDE DEF T
    <3> QED BY <2>3, <2>4, NatInductionSet
  <2> QED BY <2>5
<1>10. g[N] = f[N]
  <2> HIDE DEF g
  <2>1. N \in Nat /\ N <= N
    BY <1>1
  <2> HIDE DEF N
  <2> QED BY <2>1, <1>9
<1> QED BY <1>4, <1>5, <1>8, <1>10

\* A symbol that is met where it is expected, and one that is not.
LEMMA AdvanceOne ==
    ASSUME NEW p \in 0..3, NEW k \in Nat, NEW c, NEW s, s = [pos |-> p, skiped |-> k, found |-> 0]
    PROVE  Request!Advance(s, c) =
             IF (IF p = 0 \/ p = 2 THEN "cr" ELSE "lf") # c THEN [pos |-> 0, skiped |-> k + 1, found |-> 0]
             ELSE IF p = 3 THEN [pos |-> 4, skiped |-> k, found |-> k]
             ELSE [pos |-> p + 1, skiped |-> k + 1, found |-> 0]
<1>1. s.pos = p /\ s.skiped = k /\ s.found = 0 /\ ~(0 > 0)
  OBVIOUS
<1>2. Request!Keyword[s.pos + 1] = (IF p = 0 \/ p = 2 THEN "cr" ELSE "lf")
  BY <1>1, KeywordFacts
<1>3. s.pos + 1 = Len(Request!Keyword) <=> p = 3
  BY <1>1, KeywordFacts
<1>a. s \in [pos : Int, skiped : Int, found : Int]
  OBVIOUS
<1>b. s.pos + 1 \in Int /\ s.skiped + 1 \in Int /\ s.skiped \in Int /\ 0 \in Int
  BY <1>a
<1>4. CASE Request!Keyword[s.pos + 1] # c
  <2>1. PICK t : t = Request!Advance(s, c)
    OBVIOUS
  <2>2. t = [s EXCEPT !.pos = 0, !.skiped = @ + 1]
    BY <2>1, <1>1, <1>4 DEF Request!Advance
  <2>3. t \in [pos : Int, skiped : Int, found : Int]
        /\ t.pos = 0 /\ t.skiped = s.skiped + 1 /\ t.found = s.found
    BY <2>2, <1>a, <1>b
  <2>4. t.pos = 0 /\ t.skiped = k + 1 /\ t.found = 0
    BY <2>3, <1>1, <1>4
  <2>5. t = [pos |-> 0, skiped |-> k + 1, found |-> 0]
    BY <2>3, <2>4
  <2> QED BY <2>1, <2>5, <1>2, <1>4
<1>5. CASE Request!Keyword[s.pos + 1] = c /\ p = 3
  <2>1. PICK t : t = Request!Advance(s, c)
    OBVIOUS
  <2>2. t = [s EXCEPT !.pos = @ + 1, !.found = s.skiped]
    BY <2>1, <1>1, <1>3, <1>5 DEF Request!Advance
  <2>3. t \in [pos : Int, skiped : Int, found : Int]
        /\ t.pos = s.pos + 1 /\ t.skiped = s.skiped /\ t.found = s.skiped
    BY <2>2, <1>a, <1>b
  <2>4. t.pos = 4 /\ t.skiped = k /\ t.found = k
    BY <2>3, <1>1, <1>5
  <2>5. t = [pos |-> 4, skiped |-> k, found |-> k]
    BY <2>3, <2>4
  <2> QED BY <2>1, <2>5, <1>2, <1>5
<1>6. CASE Request!Keyword[s.pos + 1] = c /\ p # 3
  <2>1. PICK t : t = Request!Advance(s, c)
    OBVIOUS
  <2>2. t = [s EXCEPT !.pos = @ + 1, !.skiped = @ + 1]
    BY <2>1, <1>1, <1>3, <1>6 DEF Request!Advance
  <2>3. t \in [pos : Int, skiped : Int, found : Int]
        /\ t.pos = s.pos + 1 /\ t.skiped = s.skiped + 1 /\ t.found = s.found
    BY <2>2, <1>a, <1>b
  <2>4. t.pos = p + 1 /\ t.skiped = k + 1 /\ t.found = 0
    BY <2>3, <1>1, <1>6
  <2>5. t = [pos |-> p + 1, skiped |-> k + 1, found |-> 0]
    BY <2>3, <2>4
  <2> QED BY <2>1, <2>5, <1>2, <1>6
<1> QED BY <1>4, <1>5, <1>6

\* One symbol of the stream moves the search on.
LEMMA AdvanceAt ==
    ASSUME peer \in Request!ServerKind, peer.lines = "crlf", NEW n \in 0..(Len(Request!Stream) - 1)
    PROVE  Request!Advance(SearchAt(n), Request!Stream[n + 1]) = SearchAt(n + 1)
<1> DEFINE H == Request!Stream
<1>1. IsHeader(H) /\ n \in Nat
  <2>1. IsHeader(Request!Header) /\ Len(Request!Header) = 9 /\ Len(Request!Stream) \in Nat
        /\ \A i \in 1..Len(Request!Header) : Request!Stream[i] = Request!Header[i]
    BY StreamFacts, HeaderFacts
  <2>2. \A i \in 1..9 : Request!Stream[i] = Request!Header[i]
    BY <2>1
  <2> QED BY <2>1, <2>2 DEF IsHeader
<1>2. H[n + 1] = Request!Stream[n + 1]
  OBVIOUS
<1> HIDE DEF H
<1>3. CASE n >= 9
  <2>1. SearchAt(n) = [pos |-> 4, skiped |-> 8, found |-> 8]
    BY <1>3 DEF SearchAt
  <2>2. n + 1 >= 9
    BY <1>1, <1>3
  <2>3. SearchAt(n + 1) = SearchAt(n)
    BY <2>1, <2>2 DEF SearchAt
  <2>4. Request!Advance(SearchAt(n), Request!Stream[n + 1]) = SearchAt(n)
    BY <2>1 DEF Request!Advance
  <2> QED BY <2>3, <2>4
<1>4. CASE n = 8
  <2>1. SearchAt(8) = [pos |-> 3, skiped |-> 8, found |-> 0]
        /\ SearchAt(9) = [pos |-> 4, skiped |-> 8, found |-> 8]
    BY DEF SearchAt
  <2>2. Request!Stream[9] = "lf"
    BY <1>1, <1>2 DEF IsHeader, H
  <2>3. Request!Advance(SearchAt(8), "lf") = SearchAt(9)
    BY <2>1, AdvanceOne
  <2> QED BY <2>2, <2>3, <1>4
<1>10. CASE n = 0
  <2>1. SearchAt(0) = [pos |-> 0, skiped |-> 0, found |-> 0]
        /\ SearchAt(1) = [pos |-> 0, skiped |-> 1, found |-> 0]
    BY DEF SearchAt
  <2>2. Request!Stream[1] = "version"
    BY <1>1, <1>2 DEF IsHeader, H
  <2>3. Request!Advance(SearchAt(0), "version") = SearchAt(1)
    BY <2>1, AdvanceOne
  <2> QED BY <2>2, <2>3, <1>10
<1>11. CASE n = 1
  <2>1. SearchAt(1) = [pos |-> 0, skiped |-> 1, found |-> 0]
        /\ SearchAt(2) = [pos |-> 0, skiped |-> 2, found |-> 0]
    BY DEF SearchAt
  <2>2. Request!Stream[2] = "status"
    BY <1>1, <1>2 DEF IsHeader, H
  <2>3. Request!Advance(SearchAt(1), "status") = SearchAt(2)
    BY <2>1, AdvanceOne
  <2> QED BY <2>2, <2>3, <1>11
<1>12. CASE n = 2
  <2>1. SearchAt(2) = [pos |-> 0, skiped |-> 2, found |-> 0]
        /\ SearchAt(3) = [pos |-> 1, skiped |-> 3, found |-> 0]
    BY DEF SearchAt
  <2>2. Request!Stream[3] = "cr"
    BY <1>1, <1>2 DEF IsHeader, H
  <2>3. Request!Advance(SearchAt(2), "cr") = SearchAt(3)
    BY <2>1, AdvanceOne
  <2> QED BY <2>2, <2>3, <1>12
<1>13. CASE n = 3
  <2>1. SearchAt(3) = [pos |-> 1, skiped |-> 3, found |-> 0]
        /\ SearchAt(4) = [pos |-> 2, skiped |-> 4, found |-> 0]
    BY DEF SearchAt
  <2>2. Request!Stream[4] = "lf"
    BY <1>1, <1>2 DEF IsHeader, H
  <2>3. Request!Advance(SearchAt(3), "lf") = SearchAt(4)
    BY <2>1, AdvanceOne
  <2> QED BY <2>2, <2>3, <1>13
<1>14. CASE n = 4
  <2>1. SearchAt(4) = [pos |-> 2, skiped |-> 4, found |-> 0]
        /\ SearchAt(5) = [pos |-> 0, skiped |-> 5, found |-> 0]
    BY DEF SearchAt
  <2>2. Request!Stream[5] = "field"
    BY <1>1, <1>2 DEF IsHeader, H
  <2>3. Request!Advance(SearchAt(4), "field") = SearchAt(5)
    BY <2>1, AdvanceOne
  <2> QED BY <2>2, <2>3, <1>14
<1>15. CASE n = 5
  <2>1. SearchAt(5) = [pos |-> 0, skiped |-> 5, found |-> 0]
        /\ SearchAt(6) = [pos |-> 1, skiped |-> 6, found |-> 0]
    BY DEF SearchAt
  <2>2. Request!Stream[6] = "cr"
    BY <1>1, <1>2 DEF IsHeader, H
  <2>3. Request!Advance(SearchAt(5), "cr") = SearchAt(6)
    BY <2>1, AdvanceOne
  <2> QED BY <2>2, <2>3, <1>15
<1>16. CASE n = 6
  <2>1. SearchAt(6) = [pos |-> 1, skiped |-> 6, found |-> 0]
        /\ SearchAt(7) = [pos |-> 2, skiped |-> 7, found |-> 0]
    BY DEF SearchAt
  <2>2. Request!Stream[7] = "lf"
    BY <1>1, <1>2 DEF IsHeader, H
  <2>3. Request!Advance(SearchAt(6), "lf") = SearchAt(7)
    BY <2>1, AdvanceOne
  <2> QED BY <2>2, <2>3, <1>16
<1>17. CASE n = 7
  <2>1. SearchAt(7) = [pos |-> 2, skiped |-> 7, found |-> 0]
        /\ SearchAt(8) = [pos |-> 3, skiped |-> 8, found |-> 0]
    BY DEF SearchAt
  <2>2. Request!Stream[8] = "cr"
    BY <1>1, <1>2 DEF IsHeader, H
  <2>3. Request!Advance(SearchAt(7), "cr") = SearchAt(8)
    BY <2>1, AdvanceOne
  <2> QED BY <2>2, <2>3, <1>17
<1>5. n >= 9 \/ n = 8 \/ n \in 0..7
  BY <1>1
<1> QED BY <1>3, <1>4, <1>5, <1>10, <1>11, <1>12, <1>13, <1>14, <1>15, <1>16, <1>17

\* And so does a chunk.
LEMMA ProcessAt ==
    ASSUME peer \in Request!ServerKind, peer.lines = "crlf",
           NEW m \in Nat, NEW n \in Nat, m <= n, n <= Len(Request!Stream)
    PROVE  Request!Process(SearchAt(m), SubSeq(Request!Stream, m + 1, n)) = SearchAt(n)
<1> DEFINE chunk == SubSeq(Request!Stream, m + 1, n)
           d == n - m
<1>1. Request!Stream \in Seq(Symbol) /\ Len(Request!Stream) \in Nat
  BY StreamFacts
<1>2. /\ chunk \in Seq(Symbol) /\ Len(chunk) = d /\ d \in Nat
      /\ \A i \in 1..d : chunk[i] = Request!Stream[m + i]
  <2>1. m + 1 \in 1..(Len(Request!Stream) + 1) /\ n \in ((m + 1) - 1)..Len(Request!Stream)
        /\ n - (m + 1) + 1 = d /\ d \in Nat
    BY <1>1
  <2> DEFINE a == m + 1
  <2>2. \A i \in 1..d : a + i - 1 = m + i
    OBVIOUS
  <2>3. /\ SubSeq(Request!Stream, a, n) \in Seq(Symbol)
        /\ Len(SubSeq(Request!Stream, a, n)) = n - a + 1
        /\ \A i \in 1..(n - a + 1) : SubSeq(Request!Stream, a, n)[i] = Request!Stream[a + i - 1]
    <3>1. a \in 1..(Len(Request!Stream) + 1) /\ n \in (a - 1)..Len(Request!Stream)
      BY <2>1
    <3> HIDE DEF a
    <3> QED BY <1>1, <3>1, SubSeqFacts
  <2> QED BY <2>1, <2>2, <2>3
<1>3. SearchAt(m) \in SearchState
  BY DEF SearchAt, SearchState
<1> HIDE DEF chunk
<1>4. PICK f \in [0..Len(chunk) -> SearchState] :
             /\ f[0] = SearchAt(m)
             /\ \A i \in 1..Len(chunk) : f[i] = Request!Advance(f[i - 1], chunk[i])
             /\ Request!Process(SearchAt(m), chunk) = f[Len(chunk)]
  BY <1>2, <1>3, ProcessStep
<1>5. ASSUME NEW i \in Nat PROVE i <= d => f[i] = SearchAt(m + i)
  <2> DEFINE T == {j \in Nat : j <= d => f[j] = SearchAt(m + j)}
  <2>1. f[0] = SearchAt(m + 0)
    BY <1>4
  <2>2. ASSUME NEW j \in Nat, j <= d => f[j] = SearchAt(m + j), j + 1 <= d
        PROVE  f[j + 1] = SearchAt(m + (j + 1))
    <3>1. j + 1 \in 1..d /\ (j + 1) - 1 = j /\ j <= d /\ m + (j + 1) = (m + j) + 1
          /\ m + j \in 0..(Len(Request!Stream) - 1)
      BY <1>1, <1>2, <2>2
    <3>2. f[j + 1] = Request!Advance(f[j], chunk[j + 1])
      BY <1>2, <1>4, <3>1
    <3>3. chunk[j + 1] = Request!Stream[(m + j) + 1]
      BY <1>2, <3>1
    <3>4. Request!Advance(SearchAt(m + j), Request!Stream[(m + j) + 1]) = SearchAt((m + j) + 1)
      <4> DEFINE k == m + j
      <4>1. k \in 0..(Len(Request!Stream) - 1)
        BY <3>1
      <4> HIDE DEF k
      <4>2. Request!Advance(SearchAt(k), Request!Stream[k + 1]) = SearchAt(k + 1)
        BY <4>1, AdvanceAt
      <4> QED BY <4>2 DEF k
    <3> QED BY <3>1, <3>2, <3>3, <3>4, <2>2
  <2>3. 0 \in T /\ T \in SUBSET Nat
    BY <2>1
  <2>4. ASSUME NEW j \in T PROVE j + 1 \in T
    BY <2>2
  <2>5. i \in T
    <3> HIDE DEF T
    <3> QED BY <2>3, <2>4, NatInductionSet
  <2> QED BY <2>5
<1>6. f[d] = SearchAt(m + d) /\ m + d = n
  <2>1. d \in Nat /\ d <= d /\ m + d = n
    BY <1>2
  <2> HIDE DEF d
  <2> QED BY <2>1, <1>5
<1> QED BY <1>2, <1>4, <1>6 DEF chunk

-----------------------------------------------------------------------------
(* What a script is given.                                                 *)

Byte == Symbol \cup {"zero", "beyond"}

\* The header as ResponseWhole has it.
HeaderWhole ==
    /\ resp.Line = Request!StatusLine
    /\ Request!IsPrefix(Request!Front(Request!Header), resp.RawHeader)
    /\ reads = 1 => resp.RawHeader = Request!Front(Request!Header)

\* Until the blank line is found, the search and raw_header stand where reading does.
ResponseInv ==
    /\ buffer \in [1..BufferSize -> Byte] /\ reads \in Nat
    /\ resp = [RawHeader |-> resp.RawHeader, Line |-> resp.Line, Body |-> resp.Body]
    /\ peer.lines = "crlf" =>
        IF search.found = 0
        THEN /\ search = SearchAt(taken)
             /\ resp.RawHeader = SubSeq(Request!Stream, 1, taken)
             /\ reads = 0 => taken = 0
        ELSE HeaderWhole
    /\ answered = "response" /\ peer.coding # "br" => resp.Body = Request!Content

\* What the first line and the first eight symbols of a header are cut from.
LEMMA RawFacts ==
    ASSUME peer.lines = "crlf", NEW raw \in Seq(Byte), Len(raw) >= 8,
           \A i \in 1..8 : raw[i] = Request!Header[i]
    PROVE  /\ Request!FirstLine(raw) = Request!StatusLine
           /\ Request!IsPrefix(Request!Front(Request!Header), raw)
           /\ Len(raw) = 8 => raw = Request!Front(Request!Header)
<1> DEFINE H == Request!Header
<1>1. H \in Seq(Symbol) /\ Len(H) = 9 /\ IsHeader(H)
  BY HeaderFacts
<1>2. /\ raw[1] = "version" /\ raw[2] = "status" /\ raw[3] = "cr" /\ raw[4] = "lf"
  <2>1. raw[1] = H[1] /\ raw[2] = H[2] /\ raw[3] = H[3] /\ raw[4] = H[4]
    OBVIOUS
  <2> HIDE DEF H
  <2> QED BY <2>1, <1>1 DEF IsHeader
<1>3. Len(raw) \in Nat
  OBVIOUS
<1>4. Request!FirstLine(raw) = Request!StatusLine
  <2> DEFINE ends == {i \in 1..(Len(raw) - 1) : raw[i] = "cr" /\ raw[i + 1] = "lf"}
  <2>1. 3 \in ends
    <3>1. 3 \in 1..(Len(raw) - 1) /\ 3 + 1 = 4
      BY <1>3
    <3> QED BY <3>1, <1>2
  <2>2. \A i \in ends : 3 <= i
    <3> SUFFICES ASSUME NEW i \in ends PROVE 3 <= i
      OBVIOUS
    <3>1. i \in Nat /\ i # 0 /\ raw[i] = "cr"
      BY <1>3
    <3>2. i # 1 /\ i # 2
      BY <3>1, <1>2
    <3> QED BY <3>1, <3>2
  <2>3. ends \subseteq Int
    BY <1>3
  <2> HIDE DEF ends
  <2>4. Request!Min(ends) = 3
    <3>1. \E x \in ends : \A y \in ends : x =< y
      BY <2>1, <2>2
    <3>2. Request!Min(ends) \in ends /\ \A y \in ends : Request!Min(ends) =< y
      BY <3>1, Zenon DEF Request!Min
    <3>3. PICK x \in ends : x = Request!Min(ends)
      BY <3>2
    <3>4. x <= 3 /\ 3 <= x /\ x \in Int
      BY <3>2, <3>3, <2>1, <2>2, <2>3
    <3> QED BY <3>3, <3>4
  <2>5. Request!FirstLine(raw) = SubSeq(raw, 1, 2)
    <3>1. Request!FirstLine(raw) = SubSeq(raw, 1, Request!Min(ends) - 1)
      BY <2>1 DEF Request!FirstLine, ends
    <3>2. 3 - 1 = 2
      OBVIOUS
    <3> QED BY <3>1, <3>2, <2>4
  <2>6. /\ SubSeq(raw, 1, 2) \in Seq(Byte) /\ Len(SubSeq(raw, 1, 2)) = 2 - 1 + 1
        /\ \A i \in 1..(2 - 1 + 1) : SubSeq(raw, 1, 2)[i] = raw[1 + i - 1]
    <3>1. 1 \in 1..(Len(raw) + 1) /\ 2 \in (1 - 1)..Len(raw)
      BY <1>3
    <3> QED BY <3>1, SubSeqFacts
  <2>7. Len(SubSeq(raw, 1, 2)) = 2 /\ SubSeq(raw, 1, 2)[1] = "version" /\ SubSeq(raw, 1, 2)[2] = "status"
    BY <2>6, <1>2
  <2>8. SubSeq(raw, 1, 2) = <<"version", "status">>
    <3> DEFINE line == SubSeq(raw, 1, 2)
    <3>1. line \in Seq(Byte) /\ Len(line) = 2 /\ line[1] = "version" /\ line[2] = "status"
      BY <2>6, <2>7
    <3> HIDE DEF line
    <3>2. line = <<line[1], line[2]>>
      BY <3>1
    <3> QED BY <3>1, <3>2 DEF line
  <2> QED BY <2>5, <2>8 DEF Request!StatusLine
<1> DEFINE front == Request!Front(H)
<1>5. front \in Seq(Symbol) /\ Len(front) = 8 /\ \A i \in 1..8 : front[i] = H[i]
  <2> HIDE DEF H
  <2>1. front = SubSeq(H, 1, 8)
    <3>1. 9 - 1 = 8
      OBVIOUS
    <3> QED BY <1>1, <3>1 DEF Request!Front
  <2>2. 1 \in 1..(Len(H) + 1) /\ 8 \in (1 - 1)..Len(H) /\ H \in Seq(Symbol)
    BY <1>1
  <2>3. /\ SubSeq(H, 1, 8) \in Seq(Symbol) /\ Len(SubSeq(H, 1, 8)) = 8 - 1 + 1
        /\ \A i \in 1..(8 - 1 + 1) : SubSeq(H, 1, 8)[i] = H[1 + i - 1]
    BY <2>2, SubSeqFacts
  <2> HIDE DEF front
  <2> QED BY <2>1, <2>3
<1>6. front \in Seq(Byte)
  BY <1>5 DEF Byte
<1> HIDE DEF front, H
<1>7. \A i \in 1..8 : raw[i] = front[i]
  BY <1>5 DEF H
<1>8. SubSeq(front, 1, Len(front)) = SubSeq(raw, 1, Len(front))
  <2> DEFINE x == SubSeq(front, 1, 8)
             y == SubSeq(raw, 1, 8)
  <2>0. 1 \in 1..(Len(front) + 1) /\ 8 \in (1 - 1)..Len(front)
        /\ 1 \in 1..(Len(raw) + 1) /\ 8 \in (1 - 1)..Len(raw)
    BY <1>3, <1>5
  <2>1. x \in Seq(Byte) /\ Len(x) = 8 - 1 + 1 /\ \A i \in 1..(8 - 1 + 1) : x[i] = front[1 + i - 1]
    BY <2>0, <1>6, SubSeqFacts
  <2>2. y \in Seq(Byte) /\ Len(y) = 8 - 1 + 1 /\ \A i \in 1..(8 - 1 + 1) : y[i] = raw[1 + i - 1]
    BY <2>0, SubSeqFacts
  <2> HIDE DEF x, y
  <2>3. Len(x) = 8 /\ Len(y) = 8 /\ \A i \in 1..8 : x[i] = y[i]
    BY <2>1, <2>2, <1>7
  <2>4. x = y
    BY <2>1, <2>2, <2>3, SeqEqual
  <2> QED BY <2>4, <1>5 DEF x, y
<1>9. Request!IsPrefix(front, raw)
  BY <1>3, <1>5, <1>8 DEF Request!IsPrefix
<1>10. Len(raw) = 8 => raw = front
  BY <1>5, <1>6, <1>7, SeqEqual
<1> QED BY <1>4, <1>9, <1>10 DEF front, H

\* A read before the blank line is found.
LEMMA FoundFacts ==
    ASSUME ReachInv, ResponseInv, Request!Read, search.found = 0
    PROVE  /\ buffer' \in [1..BufferSize -> Byte] /\ reads' = reads + 1
           /\ resp' = [RawHeader |-> resp'.RawHeader, Line |-> resp'.Line, Body |-> resp.Body]
           /\ peer.lines = "crlf" =>
                IF taken' < 9
                THEN search' = SearchAt(taken') /\ resp'.RawHeader = SubSeq(Request!Stream, 1, taken')
                ELSE search'.found = 8 /\ HeaderWhole'
<1> DEFINE n == taken'
           chunk == SubSeq(Request!Stream, taken + 1, n)
           s == Request!Process(search, chunk)
           raw == resp.RawHeader \o Request!Cut(chunk, s.found)
<1>1. /\ taken \in Nat /\ n \in Nat /\ taken < n /\ n <= Len(Request!Stream)
      /\ n <= taken + BufferSize /\ BufferSize \in Nat \ {0}
      /\ peer \in Request!ServerKind
  <2>1. taken' \in (taken + 1)..arrives /\ taken' <= taken + BufferSize
    BY TakenFacts
  <2>2. taken \in Nat /\ arrives \in Nat /\ arrives <= Len(Request!Stream) /\ peer \in Request!ServerKind
    BY DEF ReachInv
  <2>3. Len(Request!Stream) \in Nat
    BY <2>2, StreamFacts
  <2> QED BY <2>1, <2>2, <2>3, ConnectionAssumption DEF ConnectionAssumption
<1>2. Request!Found(chunk) /\ peer' = peer
  BY TakenFacts DEF Request!Read
<1>3. /\ search' = s /\ buffer' = Request!Filled(chunk) /\ reads' = reads + 1
      /\ resp' = IF s.found > 0
                 THEN [resp EXCEPT !.RawHeader = raw, !.Line = Request!FirstLine(raw)]
                 ELSE [resp EXCEPT !.RawHeader = @ \o chunk]
  BY <1>2 DEF Request!Found
<1>4. Request!Stream \in Seq(Symbol) /\ Len(Request!Stream) \in Nat
  BY <1>1, StreamFacts
<1>5. /\ chunk \in Seq(Symbol) /\ Len(chunk) = n - taken
      /\ \A i \in 1..(n - taken) : chunk[i] = Request!Stream[taken + i]
  <2> DEFINE a == taken + 1
  <2>1. a \in 1..(Len(Request!Stream) + 1) /\ n \in (a - 1)..Len(Request!Stream)
    BY <1>1, <1>4
  <2>2. n - a + 1 = n - taken /\ \A i \in 1..(n - taken) : a + i - 1 = taken + i
    <3>1. taken \in Nat /\ n \in Nat
      BY <1>1
    <3> HIDE DEF n
    <3> QED BY <3>1
  <2>3. /\ SubSeq(Request!Stream, a, n) \in Seq(Symbol)
        /\ Len(SubSeq(Request!Stream, a, n)) = n - a + 1
        /\ \A i \in 1..(n - a + 1) : SubSeq(Request!Stream, a, n)[i] = Request!Stream[a + i - 1]
    <3> HIDE DEF a, n
    <3> QED BY <1>4, <2>1, SubSeqFacts
  <2> QED BY <2>2, <2>3
<1> HIDE DEF n, chunk, s, raw
<1>6. buffer' \in [1..BufferSize -> Byte]
  <2>1. buffer \in [1..BufferSize -> Byte] /\ Symbol \subseteq Byte
    BY DEF ResponseInv, Byte
  <2>2. \A i \in 1..BufferSize : i <= Len(chunk) => chunk[i] \in Byte
    BY <1>1, <1>5, <2>1
  <2> QED BY <1>3, <2>1, <2>2 DEF Request!Filled
<1>7. resp' = [RawHeader |-> resp'.RawHeader, Line |-> resp'.Line, Body |-> resp.Body]
  <2>1. resp = [RawHeader |-> resp.RawHeader, Line |-> resp.Line, Body |-> resp.Body]
    BY DEF ResponseInv
  <2>2. PICK h, l, b : h = resp.RawHeader /\ l = resp.Line /\ b = resp.Body
    OBVIOUS
  <2>3. CASE s.found > 0
    <3>1. resp' = [[RawHeader |-> h, Line |-> l, Body |-> b]
                    EXCEPT !.RawHeader = raw, !.Line = Request!FirstLine(raw)]
      BY <1>3, <2>1, <2>2, <2>3
    <3>2. resp' = [RawHeader |-> raw, Line |-> Request!FirstLine(raw), Body |-> b]
      BY <3>1
    <3> QED BY <3>2, <2>2
  <2>4. CASE ~(s.found > 0)
    <3>1. resp' = [[RawHeader |-> h, Line |-> l, Body |-> b] EXCEPT !.RawHeader = h \o chunk]
      BY <1>3, <2>1, <2>2, <2>4
    <3>2. resp' = [RawHeader |-> h \o chunk, Line |-> l, Body |-> b]
      BY <3>1
    <3> QED BY <3>2, <2>2
  <2> QED BY <2>3, <2>4
<1>8. ASSUME peer.lines = "crlf"
      PROVE  IF taken' < 9
             THEN search' = SearchAt(taken') /\ resp'.RawHeader = SubSeq(Request!Stream, 1, taken')
             ELSE search'.found = 8 /\ HeaderWhole'
  <2>1. /\ search = SearchAt(taken) /\ resp.RawHeader = SubSeq(Request!Stream, 1, taken)
        /\ reads = 0 => taken = 0
    BY <1>8 DEF ResponseInv
  <2>2. s = SearchAt(n)
    BY <1>1, <1>8, <2>1, ProcessAt DEF s, chunk
  <2>3. /\ resp.RawHeader \in Seq(Symbol) /\ Len(resp.RawHeader) = taken
        /\ \A i \in 1..taken : resp.RawHeader[i] = Request!Stream[i]
    <3>1. 1 \in 1..(Len(Request!Stream) + 1) /\ taken \in (1 - 1)..Len(Request!Stream)
      BY <1>1, <1>4
    <3>2. /\ SubSeq(Request!Stream, 1, taken) \in Seq(Symbol)
          /\ Len(SubSeq(Request!Stream, 1, taken)) = taken - 1 + 1
          /\ \A i \in 1..(taken - 1 + 1) : SubSeq(Request!Stream, 1, taken)[i] = Request!Stream[1 + i - 1]
      BY <1>4, <3>1, SubSeqFacts
    <3> QED BY <1>1, <2>1, <3>2
  <2>4. CASE n < 9
    <3>1. s.found = 0
      BY <1>1, <2>2, <2>4 DEF SearchAt
    <3>2. resp' = [resp EXCEPT !.RawHeader = @ \o chunk]
      BY <1>3, <3>1
    <3>3. resp'.RawHeader = resp.RawHeader \o chunk
      <4>1. resp = [RawHeader |-> resp.RawHeader, Line |-> resp.Line, Body |-> resp.Body]
        BY DEF ResponseInv
      <4> QED BY <3>2, <4>1
    <3> DEFINE h == resp.RawHeader \o chunk
               t == SubSeq(Request!Stream, 1, n)
    <3>4. h = resp.RawHeader \o chunk /\ chunk \in Seq(Symbol) /\ resp.RawHeader \in Seq(Symbol)
      BY <1>5, <2>3
    <3>5. 1 \in 1..(Len(Request!Stream) + 1) /\ n \in (1 - 1)..Len(Request!Stream)
      BY <1>1, <1>4
    <3>6. t \in Seq(Symbol) /\ Len(t) = n - 1 + 1 /\ \A i \in 1..(n - 1 + 1) : t[i] = Request!Stream[1 + i - 1]
      BY <1>4, <3>5, SubSeqFacts
    <3> HIDE DEF h, t
    <3>7. /\ h \in Seq(Symbol) /\ Len(h) = Len(resp.RawHeader) + Len(chunk)
          /\ \A i \in 1..Len(resp.RawHeader) : h[i] = resp.RawHeader[i]
          /\ \A i \in (Len(resp.RawHeader) + 1)..(Len(resp.RawHeader) + Len(chunk)) :
                h[i] = chunk[i - Len(resp.RawHeader)]
      BY <3>4, Joined
    <3>8. Len(h) = n /\ Len(t) = n
      BY <1>1, <1>5, <2>3, <3>6, <3>7
    <3>9. ASSUME NEW i \in 1..n PROVE h[i] = t[i]
      <4>1. t[i] = Request!Stream[i]
        BY <1>1, <3>6
      <4>2. CASE i <= taken
        <5>1. i \in 1..taken
          BY <1>1, <4>2
        <5> QED BY <5>1, <4>1, <2>3, <3>7
      <4>3. CASE i > taken
        <5>1. PICK j \in 1..(n - taken) : j = i - taken
          BY <1>1, <4>3
        <5>2. i \in (taken + 1)..(taken + (n - taken)) /\ taken + j = i
          BY <1>1, <4>3, <5>1
        <5>3. h[i] = chunk[j]
          BY <1>5, <2>3, <3>7, <5>1, <5>2
        <5> QED BY <5>1, <5>2, <5>3, <4>1, <1>5
      <4> QED BY <4>2, <4>3, <1>1
    <3>10. h = t
      BY <3>6, <3>7, <3>8, <3>9, SeqEqual
    <3> QED BY <1>3, <2>2, <2>4, <3>3, <3>10 DEF h, t, n
  <2>5. CASE ~(n < 9)
    <3>1. s.found = 8
      BY <1>1, <2>2, <2>5 DEF SearchAt
    <3>2. resp' = [resp EXCEPT !.RawHeader = raw, !.Line = Request!FirstLine(raw)]
      BY <1>3, <3>1
    <3>3. resp'.RawHeader = raw /\ resp'.Line = Request!FirstLine(raw)
      <4>1. resp = [RawHeader |-> resp.RawHeader, Line |-> resp.Line, Body |-> resp.Body]
        BY DEF ResponseInv
      <4> QED BY <3>2, <4>1
    <3> DEFINE c == Request!Cut(chunk, 8)
    <3>4. c \in Seq(Byte) /\ Len(c) = 8 /\ \A i \in 1..8 : i <= n - taken => c[i] = Request!Stream[taken + i]
      <4>1. c = [i \in 1..8 |-> IF i <= BufferSize THEN Request!Filled(chunk)[i] ELSE "beyond"]
        BY DEF Request!Cut
      <4>2. Request!Filled(chunk) \in [1..BufferSize -> Byte]
        BY <1>3, <1>6
      <4>3. \A i \in 1..8 : (IF i <= BufferSize THEN Request!Filled(chunk)[i] ELSE "beyond") \in Byte
        <5>1. "beyond" \in Byte /\ \A i \in 1..8 : i <= BufferSize => i \in 1..BufferSize
          BY <1>1 DEF Byte
        <5> QED BY <5>1, <4>2
      <4>4. \A i \in 1..8 : i <= n - taken => c[i] = Request!Stream[taken + i]
        <5> SUFFICES ASSUME NEW i \in 1..8, i <= n - taken PROVE c[i] = Request!Stream[taken + i]
          OBVIOUS
        <5>1. i <= BufferSize /\ i \in 1..BufferSize /\ i \in 1..(n - taken) /\ i <= Len(chunk)
          BY <1>1, <1>5
        <5>2. c[i] = Request!Filled(chunk)[i]
          BY <4>1, <5>1
        <5>3. Request!Filled(chunk)[i] = chunk[i]
          BY <5>1 DEF Request!Filled
        <5> QED BY <5>1, <5>2, <5>3, <1>5
      <4> HIDE DEF c
      <4>5. c \in Seq(Byte) /\ Len(c) = 8
        BY <4>1, <4>3
      <4> QED BY <4>4, <4>5
    <3>5. raw = resp.RawHeader \o c
      BY <3>1 DEF raw
    <3>6. resp.RawHeader \in Seq(Byte) /\ c \in Seq(Byte)
      BY <2>3, <3>4 DEF Byte
    <3> HIDE DEF c
    <3>7. /\ raw \in Seq(Byte) /\ Len(raw) = Len(resp.RawHeader) + Len(c)
          /\ \A i \in 1..Len(resp.RawHeader) : raw[i] = resp.RawHeader[i]
          /\ \A i \in (Len(resp.RawHeader) + 1)..(Len(resp.RawHeader) + Len(c)) :
                raw[i] = c[i - Len(resp.RawHeader)]
      BY <3>5, <3>6, Joined
    <3>8. Len(raw) = taken + 8 /\ Len(raw) >= 8
      BY <1>1, <2>3, <3>4, <3>7
    <3>9. ASSUME NEW i \in 1..8 PROVE raw[i] = Request!Header[i]
      <4>1. Request!Stream[i] = Request!Header[i]
        <5>1. Len(Request!Header) = 9 /\ \A k \in 1..Len(Request!Header) : Request!Stream[k] = Request!Header[k]
          BY <1>1, <1>8, StreamFacts
        <5> QED BY <5>1
      <4>2. CASE i <= taken
        <5>1. i \in 1..taken
          BY <1>1, <4>2
        <5> QED BY <5>1, <4>1, <2>3, <3>7
      <4>3. CASE i > taken
        <5>1. PICK j \in 1..8 : j = i - taken
          BY <1>1, <4>3
        <5>2. i \in (taken + 1)..(taken + 8) /\ taken + j = i /\ j <= n - taken
          BY <1>1, <2>5, <4>3, <5>1
        <5>3. raw[i] = c[j]
          BY <2>3, <3>4, <3>7, <5>1, <5>2
        <5> QED BY <5>1, <5>2, <5>3, <4>1, <3>4
      <4> QED BY <4>2, <4>3, <1>1
    <3>10. /\ Request!FirstLine(raw) = Request!StatusLine
           /\ Request!IsPrefix(Request!Front(Request!Header), raw)
           /\ Len(raw) = 8 => raw = Request!Front(Request!Header)
      BY <1>8, <3>7, <3>8, <3>9, RawFacts
    <3>11. reads' = 1 => Len(raw) = 8
      <4>1. reads \in Nat
        BY DEF ResponseInv
      <4>2. reads' = 1 => reads = 0
        BY <1>3, <4>1
      <4>3. taken = 0 => Len(raw) = 8
        BY <3>8
      <4> QED BY <2>1, <4>2, <4>3
    <3>12. Request!Front(Request!Header)' = Request!Front(Request!Header)
      BY <1>2 DEF Request!Front, Request!Header
    <3>13. Request!IsPrefix(Request!Front(Request!Header), resp.RawHeader)'
      BY <3>3, <3>10, <3>12 DEF Request!IsPrefix
    <3>14. HeaderWhole'
      BY <3>3, <3>10, <3>11, <3>12, <3>13 DEF HeaderWhole
    <3> QED BY <1>3, <2>5, <3>1, <3>14 DEF n
  <2> QED BY <2>4, <2>5
<1> QED BY <1>3, <1>6, <1>7, <1>8

\* A body that is complete is received whole.
LEMMA WholeBody ==
    ASSUME peer \in Request!ServerKind, NEW n \in Nat, Request!Complete(n), peer.coding = "identity"
    PROVE  Request!BodyOf(n) = Request!Content
<1> DEFINE E == Request!Encoded
           h == Len(Request!Header)
           m == Len(E)
<1>1. /\ E \in Seq(Symbol) /\ h \in Nat /\ m \in Nat /\ n >= h + m /\ E = Request!Content
      /\ Request!BodyOf(n) = SubSeq(E, 1, Request!Min({Request!Max({0, n - h}), m}))
  <2>1. Request!Encoded \in Seq(Symbol) /\ Len(Request!Header) \in Nat /\ Len(Request!Encoded) \in Nat
    BY StreamFacts
  <2>2. n >= Len(Request!Header) + Len(Request!Encoded)
    BY DEF Request!Complete
  <2>3. Request!Encoded = Request!Content
    BY DEF Request!Encoded
  <2>4. Request!BodyOf(n) = SubSeq(E, 1, Request!Min({Request!Max({0, n - h}), m}))
    BY DEF Request!BodyOf
  <2> QED BY <2>1, <2>2, <2>3, <2>4
<1> HIDE DEF E, h, m
<1>2. PICK d \in Nat : d = n - h /\ d >= m
  BY <1>1
<1>3. Request!Max({0, n - h}) = d
  <2>1. d \in {0, d} /\ \A y \in {0, d} : d >= y
    BY <1>2
  <2>2. Request!Max({0, d}) \in {0, d} /\ \A y \in {0, d} : Request!Max({0, d}) >= y
    BY <2>1 DEF Request!Max
  <2>3. PICK x \in {0, d} : x = Request!Max({0, d})
    BY <2>2
  <2>4. x >= d
    BY <2>2, <2>3
  <2>5. x = d
    BY <2>3, <2>4, <1>2
  <2> QED BY <2>3, <2>5, <1>2
<1>4. Request!Min({d, m}) = m
  <2>1. m \in {d, m} /\ \A y \in {d, m} : m =< y
    BY <1>1, <1>2
  <2>2. Request!Min({d, m}) \in {d, m} /\ \A y \in {d, m} : Request!Min({d, m}) =< y
    BY <2>1 DEF Request!Min
  <2>3. PICK x \in {d, m} : x = Request!Min({d, m})
    BY <2>2
  <2>4. x <= m /\ x >= m
    BY <2>1, <2>2, <2>3, <1>1, <1>2
  <2>5. x = m
    BY <2>3, <2>4, <1>1, <1>2
  <2> QED BY <2>3, <2>5
<1>5. Request!BodyOf(n) = SubSeq(E, 1, m)
  BY <1>1, <1>3, <1>4
<1>6. SubSeq(E, 1, m) = E
  <2> DEFINE t == SubSeq(E, 1, m)
  <2>1. 1 \in 1..(Len(E) + 1) /\ m \in (1 - 1)..Len(E) /\ E \in Seq(Symbol)
    BY <1>1 DEF m
  <2>2. t \in Seq(Symbol) /\ Len(t) = m - 1 + 1 /\ \A i \in 1..(m - 1 + 1) : t[i] = E[1 + i - 1]
    BY <2>1, SubSeqFacts
  <2> HIDE DEF t
  <2>3. Len(t) = Len(E)
    BY <1>1, <2>2 DEF m
  <2>4. \A i \in 1..Len(t) : t[i] = E[i]
    <3>1. \A i \in 1..m : t[i] = E[i]
      BY <1>1, <2>2
    <3> QED BY <3>1, <2>3 DEF m
  <2> QED BY <2>1, <2>2, <2>3, <2>4, SeqEqual DEF t
<1> QED BY <1>1, <1>5, <1>6

LEMMA ResponseInit ==
    ASSUME ConnectionInit
    PROVE  ResponseInv
<1> USE ConnectionAssumption DEF ConnectionAssumption
<1>1. /\ peer \in Request!ServerKind /\ taken = 0 /\ answered = "nothing" /\ reads = 0
      /\ resp = [RawHeader |-> <<>>, Line |-> <<>>, Body |-> <<>>]
      /\ search = [pos |-> 0, skiped |-> 0, found |-> 0]
      /\ buffer = [i \in 1..BufferSize |-> "zero"]
  BY Zenon DEF ConnectionInit, Request!Init
<1>2. buffer \in [1..BufferSize -> Byte]
  BY <1>1 DEF Byte
<1>3. search = SearchAt(taken)
  BY <1>1 DEF SearchAt
<1>4. resp.RawHeader = SubSeq(Request!Stream, 1, taken)
  <2>1. Request!Stream \in Seq(Symbol) /\ Len(Request!Stream) \in Nat
    BY <1>1, StreamFacts
  <2>2. 1 \in 1..(Len(Request!Stream) + 1) /\ 0 \in (1 - 1)..Len(Request!Stream)
    BY <2>1
  <2>3. SubSeq(Request!Stream, 1, 0) \in Seq(Symbol) /\ Len(SubSeq(Request!Stream, 1, 0)) = 0 - 1 + 1
    BY <2>1, <2>2, SubSeqFacts
  <2>4. SubSeq(Request!Stream, 1, 0) = <<>>
    BY <2>3
  <2> QED BY <1>1, <2>4
<1>5. resp = [RawHeader |-> resp.RawHeader, Line |-> resp.Line, Body |-> resp.Body]
  BY <1>1
<1> QED BY <1>1, <1>2, <1>3, <1>4, <1>5 DEF ResponseInv

LEMMA ResponseStep ==
    ASSUME ReachInv, ResponseInv, Request!Next \/ UNCHANGED requestVars
    PROVE  ResponseInv'
<1>1. ASSUME UNCHANGED <<peer, taken, resp, search, buffer, reads>>, answered' \in {answered, "nil"}
      PROVE  ResponseInv'
  <2>1. Request!Stream' = Request!Stream /\ Request!Content' = Request!Content
        /\ HeaderWhole' = HeaderWhole
    BY <1>1 DEF Request!Stream, Request!Header, Request!Encoded, Request!Content, HeaderWhole,
       Request!IsPrefix, Request!Front
  <2> QED BY <1>1, <2>1 DEF ResponseInv
<1>2. CASE Request!Dial \/ Request!Write \/ Request!ReadFail \/ Request!ServerClose \/ UNCHANGED requestVars
  BY <1>1, <1>2 DEF Request!Dial, Request!Write, Request!ReadFail, Request!ServerClose, Request!Nil,
     requestVars
<1>3. CASE Request!Read
  <2>1. peer' = peer /\ answered' # "response"
    <3>1. peer' = peer /\ answered = "nothing"
      BY <1>3 DEF Request!Read, ReachInv
    <3>2. answered' \in {answered, "nil"}
      BY <1>3, TakenFacts DEF Request!Nil
    <3> QED BY <3>1, <3>2
  <2>2. CASE search.found = 0
    <3>1. /\ buffer' \in [1..BufferSize -> Byte] /\ reads' = reads + 1
          /\ resp' = [RawHeader |-> resp'.RawHeader, Line |-> resp'.Line, Body |-> resp.Body]
          /\ peer.lines = "crlf" =>
                IF taken' < 9
                THEN search' = SearchAt(taken') /\ resp'.RawHeader = SubSeq(Request!Stream, 1, taken')
                ELSE search'.found = 8 /\ HeaderWhole'
      BY <1>3, <2>2, FoundFacts
    <3>2. reads' \in Nat /\ reads' # 0
      BY <3>1 DEF ResponseInv
    <3>3. resp' = [RawHeader |-> resp'.RawHeader, Line |-> resp'.Line, Body |-> resp'.Body]
      BY <3>1
    <3>4. Request!Stream' = Request!Stream
      BY <2>1 DEF Request!Stream, Request!Header, Request!Encoded
    <3>5. ASSUME peer.lines = "crlf"
          PROVE  IF search'.found = 0
                 THEN /\ search' = SearchAt(taken')
                      /\ resp'.RawHeader = SubSeq(Request!Stream, 1, taken')
                      /\ reads' = 0 => taken' = 0
                 ELSE HeaderWhole'
      <4>1. CASE taken' < 9
        <5>1. search'.found = 0
          <6>1. ~(taken' >= 9)
            <7>1. taken' \in Nat
              <8>1. taken' \in (taken + 1)..arrives
                BY <1>3, TakenFacts
              <8>2. taken \in Nat /\ arrives \in Nat
                BY DEF ReachInv
              <8> QED BY <8>1, <8>2
            <7> QED BY <7>1, <4>1
          <6> QED BY <3>1, <3>5, <4>1, <6>1 DEF SearchAt
        <5> QED BY <5>1, <3>1, <3>2, <3>5, <4>1
      <4>2. CASE ~(taken' < 9)
        BY <3>1, <3>5, <4>2
      <4> QED BY <4>1, <4>2
    <3> QED BY <2>1, <3>1, <3>2, <3>3, <3>4, <3>5 DEF ResponseInv
  <2>3. CASE search.found # 0
    <3>1. UNCHANGED <<search, buffer, reads, resp>>
      BY <1>3, <2>3, TakenFacts
    <3>2. HeaderWhole' = HeaderWhole
      BY <2>1, <3>1 DEF Request!Header, HeaderWhole, Request!IsPrefix, Request!Front
    <3> QED BY <2>1, <2>3, <3>1, <3>2 DEF ResponseInv
  <2> QED BY <2>2, <2>3
<1>4. CASE Request!Decode
  <2>1. /\ UNCHANGED <<peer, taken, search, buffer, reads>> /\ peer.coding # "padded"
        /\ IF peer.coding = "corrupt"
           THEN answered' = "nil" /\ resp' = resp
           ELSE resp' = [resp EXCEPT !.Body =
                    IF peer.coding = "deflate" THEN Request!Content
                    ELSE IF peer.coding = "br" THEN <<"zero">> ELSE Request!BodyOf(taken)]
    BY <1>4 DEF Request!Decode, Request!Nil
  <2>2. /\ peer \in Request!ServerKind /\ taken \in Nat /\ Request!Complete(taken)
        /\ peer.coding \in {"identity", "deflate", "padded", "corrupt", "br"}
    BY <1>4, StreamFacts DEF Request!Decode, ReachInv
  <2>3. CASE peer.coding = "corrupt"
    BY <1>1, <2>1, <2>3
  <2>4. CASE peer.coding # "corrupt"
    <3>1. PICK h, l, b : h = resp.RawHeader /\ l = resp.Line /\ b = resp.Body
      OBVIOUS
    <3>2. PICK body : /\ body = IF peer.coding = "deflate" THEN Request!Content
                              ELSE IF peer.coding = "br" THEN <<"zero">> ELSE Request!BodyOf(taken)
      OBVIOUS
    <3>3. resp = [RawHeader |-> h, Line |-> l, Body |-> b]
      BY <3>1 DEF ResponseInv
    <3>4. resp' = [[RawHeader |-> h, Line |-> l, Body |-> b] EXCEPT !.Body = body]
      BY <2>1, <2>4, <3>2, <3>3
    <3>5. resp' = [RawHeader |-> h, Line |-> l, Body |-> body]
      BY <3>4
    <3>6. peer.coding # "br" => body = Request!Content
      BY <2>1, <2>2, <2>4, <3>2, WholeBody
    <3>7. resp'.RawHeader = resp.RawHeader /\ resp'.Line = resp.Line /\ resp'.Body = body
      BY <3>1, <3>5
    <3>8. resp' = [RawHeader |-> resp'.RawHeader, Line |-> resp'.Line, Body |-> resp'.Body]
      BY <3>5
    <3>9. Request!Stream' = Request!Stream /\ Request!Content' = Request!Content
          /\ HeaderWhole' = HeaderWhole
      BY <2>1, <3>7 DEF Request!Stream, Request!Header, Request!Encoded, Request!Content, HeaderWhole,
         Request!IsPrefix, Request!Front
    <3> QED BY <2>1, <3>6, <3>7, <3>8, <3>9 DEF ResponseInv
  <2> QED BY <2>3, <2>4
<1> QED BY <1>2, <1>3, <1>4 DEF Request!Next, Request!DoHttpRequest

\* Whatever pieces a response comes in, the search for the blank line stands where
\* reading does, an address was tried only after all before it failed at once, and
\* what has been cut out of the header is its own (DoHttpRequest, DoReadHttpResponse).
THEOREM RequestInvariant == FairConnectionSpec => [](ReachInv /\ Request!NilJustified /\ ResponseInv)
<1>1. ConnectionInit => ReachInv /\ Request!NilJustified /\ ResponseInv
  BY ReachInit, ResponseInit
<1>2. ReachInv /\ Request!NilJustified /\ ResponseInv /\ [ConnectionNext]_connectionVars
        => (ReachInv /\ Request!NilJustified /\ ResponseInv)'
  <2>1. [ConnectionNext]_connectionVars => Request!Next \/ UNCHANGED requestVars
    BY DEF ConnectionNext, OnNewConnection, HttpRequest, connectionVars
  <2> QED BY <2>1, ReachStep, ResponseStep
<1> QED BY <1>1, <1>2, PTL DEF FairConnectionSpec

\* A script is given nil only for a reason.
THEOREM NilForAReason == FairConnectionSpec => []NilJustified
<1>1. Request!NilJustified => NilJustified
  BY DEF NilJustified
<1> QED BY RequestInvariant, <1>1, PTL

\* A response that a script is given is the server's, whole.
THEOREM ResponsesWhole == FairConnectionSpec => []ResponseWhole
<1>1. ReachInv /\ ResponseInv => ResponseWhole
  <2> SUFFICES ASSUME ReachInv, ResponseInv, answered = "response"
               PROVE  /\ peer.lines = "crlf" => HeaderWhole
                      /\ peer.coding # "br" => resp.Body = Request!Content
    BY DEF ResponseWhole, Request!ResponseWhole, HeaderWhole
  <2>1. ASSUME peer.lines = "crlf" PROVE search.found # 0
    <3>1. Request!Complete(taken) /\ taken \in Nat /\ peer \in Request!ServerKind
      BY DEF ReachInv
    <3>2. Len(Request!Header) = 9 /\ Len(Request!Encoded) \in Nat
      BY <2>1, <3>1, StreamFacts
    <3>3. taken >= 9
      <4>1. taken >= Len(Request!Header) + Len(Request!Encoded)
        BY <3>1 DEF Request!Complete
      <4> QED BY <3>1, <3>2, <4>1
    <3>4. SearchAt(taken).found = 8
      BY <3>3 DEF SearchAt
    <3>5. search.found = 0 => search = SearchAt(taken)
      BY <2>1 DEF ResponseInv
    <3> QED BY <3>4, <3>5
  <2> QED BY <2>1 DEF ResponseInv
<1> QED BY RequestInvariant, <1>1, PTL

=============================================================================
