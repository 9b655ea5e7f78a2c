------------------------- MODULE BuildDispatcher_proofs -------------------------

(***************************************************************************)
(* The life of builds, for any number of tasks, directories, requests,     *)
(* slots, crashes and failing commits: type correctness, disjoint workers, *)
(* slots that are never lost or duplicated, cancellations that stay.       *)
(***************************************************************************)
EXTENDS BuildDispatcher, ProjectLock_proofs, FiniteSetTheorems

(* A task id is new when it is submitted.                                  *)
Fresh == \A t \in Tasks : At(t, "none") => status[t] = "absent"

(* A handler past its look-up names a task that was submitted.             *)
RequestsNamed ==
    \A r \in Requests :
        reqPc[r] # "idle" => reqTask[r] \in Tasks /\ pc[reqTask[r]] # "none"

(* From the moment a handler has marked its task, before its commit.       *)
CancelTaken ==
    \A r \in Requests :
        reqPc[r] \in {"writing", "cancelled"}
            => status[reqTask[r]] \in {"absent", "cancelled"}

(* A build works in its directory exactly while it is inside the lock.     *)
LockMatches ==
    \A t \in Tasks : pc[t] \in InWorker <=> Inside(t)

(* The semaphore's waiters are builds at its door, each once.              *)
QueueLines ==
    /\ \A i \in DOMAIN slotQueue : At(slotQueue[i], "lining")
    /\ \A i, j \in DOMAIN slotQueue : slotQueue[i] = slotQueue[j] => i = j

Holders == {t \in Tasks : HoldsSlot(t)}

Slots ==
    /\ IsFiniteSet(Holders)
    /\ SlotAccounting

IInv ==
    /\ TypeOK
    /\ LockInv
    /\ Fresh
    /\ RequestsNamed
    /\ CancelTaken
    /\ LockMatches
    /\ QueueLines
    /\ FinishedScheduled
    /\ LostRowsClosed
    /\ Slots
--------------------------------------------------------------------------------

LEMMA IInvInit == ASSUME Init PROVE IInv
<1>0. Holders = {}
  BY DEF Holders, HoldsSlot, Handed, InWorker, Init
<1>1. TypeOK
  BY LockInvInit, DispatcherAssumption
     DEF Init, ManagerInit, TypeOK, ManagerTypeOK, LockInv, BuildPc, Waiting,
         Handed, InWorker, Status, Active, Terminal, Process, RequestPc,
         Workspace
<1>2. Fresh /\ RequestsNamed /\ CancelTaken /\ QueueLines
  BY DEF Init, ManagerInit, Fresh, RequestsNamed, CancelTaken, QueueLines, At
<1>3. FinishedScheduled /\ LostRowsClosed
  BY DEF Init, ManagerInit, FinishedScheduled, LostRowsClosed, At, Terminal
<1>4. LockMatches
  BY DEF Init, LockInit, LockMatches, Inside, InWorker
<1>5. Slots
  <2>1. IsFiniteSet(Holders) /\ Cardinality(Holders) = 0
    BY <1>0, FS_EmptySet
  <2>2. QED
    BY <2>1, DispatcherAssumption DEF Slots, SlotAccounting, Holders, Init
<1>6. QED
  BY <1>1, <1>2, <1>3, <1>4, <1>5, LockInvInit DEF Init, IInv

(* The build that Release wakes.                                           *)
LEMMA HeadLines ==
    ASSUME TypeOK, QueueLines, slotQueue # <<>>
    PROVE  /\ Head(slotQueue) \in Tasks
           /\ Head(slotQueue) = slotQueue[1]
           /\ pc[Head(slotQueue)] = "lining"
           /\ Tail(slotQueue) \in Seq(Tasks)
           /\ \A i \in DOMAIN Tail(slotQueue) :
                 /\ i \in Nat /\ i + 1 \in DOMAIN slotQueue
                 /\ Tail(slotQueue)[i] = slotQueue[i + 1]
                 /\ slotQueue[i + 1] # Head(slotQueue)
<1>1. slotQueue \in Seq(Tasks) /\ 1 \in DOMAIN slotQueue
  BY DEF TypeOK
<1>2. /\ Head(slotQueue) = slotQueue[1] /\ slotQueue[1] \in Tasks
      /\ Tail(slotQueue) \in Seq(Tasks)
  BY <1>1
<1>3. \A i \in DOMAIN Tail(slotQueue) :
         /\ i \in Nat /\ i + 1 \in DOMAIN slotQueue /\ i + 1 # 1
         /\ Tail(slotQueue)[i] = slotQueue[i + 1]
  BY <1>1
<1>4. QED
  BY <1>1, <1>2, <1>3 DEF QueueLines, At

(* A build that resumes with its slot, and the builds it wakes.            *)
LEMMA Resumes ==
    ASSUME TypeOK, QueueLines, NEW t \in Tasks, CheckCancelled(t)
    PROVE  /\ Woken \in 0 .. free /\ Woken <= Len(slotQueue) /\ free' = free - Woken
           /\ slotQueue' \in Seq(Tasks)
           /\ slotQueue' # <<>> => free' = 0
           /\ \A i \in DOMAIN slotQueue' :
                 /\ i \in Nat \ {0} /\ i + Woken \in DOMAIN slotQueue
                 /\ slotQueue'[i] = slotQueue[i + Woken]
           /\ pc[t] = "admitted" /\ pc' \in [Tasks -> BuildPc]
           /\ pc'[t] = AfterSlot(t) /\ pc'[t] \in {"releasing", "preparing", "dispatching"}
           /\ \A u \in Tasks \ {t} :
                 \/ pc'[u] = pc[u] /\ ~\E i \in 1 .. Woken : slotQueue[i] = u
                 \/ /\ pc[u] = "lining" /\ pc'[u] = "admitted"
                    /\ \E i \in 1 .. Woken : slotQueue[i] = u
<1>1. /\ slotQueue \in Seq(Tasks) /\ Len(slotQueue) \in Nat
      /\ free \in Nat /\ pc \in [Tasks -> BuildPc]
  BY DispatcherAssumption DEF TypeOK
<1>2. /\ Woken \in 0 .. free /\ Woken <= Len(slotQueue) /\ Woken \in Nat
      /\ Woken = free \/ Woken = Len(slotQueue)
  BY <1>1 DEF Woken
<1>3. /\ free' = free - Woken /\ slotQueue' = SubSeq(slotQueue, Woken + 1, Len(slotQueue))
      /\ pc[t] = "admitted"
      /\ pc' = [u \in Tasks |->
                   IF u = t THEN AfterSlot(t)
                   ELSE IF \E i \in 1 .. Woken : slotQueue[i] = u THEN "admitted"
                   ELSE pc[u]]
  BY DEF CheckCancelled, At
<1>4. AfterSlot(t) \in {"releasing", "preparing", "dispatching"}
  BY DEF AfterSlot
<1>5. pc' \in [Tasks -> BuildPc]
  BY <1>1, <1>3, <1>4 DEF BuildPc, Handed
<1>6. /\ slotQueue' \in Seq(Tasks) /\ Len(slotQueue') = Len(slotQueue) - Woken
      /\ \A i \in 1 .. Len(slotQueue) - Woken :
            i + Woken \in 1 .. Len(slotQueue) /\ slotQueue'[i] = slotQueue[i + Woken]
  BY <1>1, <1>2, <1>3
<1>7. slotQueue' # <<>> => free' = 0
  BY <1>1, <1>2, <1>3, <1>6
<1>8. \A i \in DOMAIN slotQueue' :
         /\ i \in Nat \ {0} /\ i + Woken \in DOMAIN slotQueue
         /\ slotQueue'[i] = slotQueue[i + Woken]
  BY <1>1, <1>2, <1>6
<1>9. \A i \in 1 .. Woken : i \in DOMAIN slotQueue
  BY <1>1, <1>2
<1>10. ASSUME NEW u \in Tasks \ {t}
       PROVE  \/ pc'[u] = pc[u] /\ ~\E i \in 1 .. Woken : slotQueue[i] = u
              \/ /\ pc[u] = "lining" /\ pc'[u] = "admitted"
                 /\ \E i \in 1 .. Woken : slotQueue[i] = u
  BY <1>3, <1>9 DEF QueueLines, At
<1>11. QED
  BY <1>2, <1>3, <1>4, <1>5, <1>6, <1>7, <1>8, <1>10

LEMMA LockInvNext == ASSUME IInv, [Next]_vars PROVE LockInv'
<1>0. LockInv
  BY DEF IInv
<1>1. UNCHANGED lockVars => LockInv'
  BY <1>0, LockInvStutter
<1>2. \A t \in Tasks : LockStep(t) => LockInv'
  BY <1>0, LockInvStep
<1>3. \A t \in Tasks : BuildStep(t) => UNCHANGED lockVars \/ LockStep(t)
  BY
     DEF BuildStep, InsertRow, TakeSlot, WaitForSlot, CheckCancelled, Dispatch,
         Prepared, PrepareFails, Commit, EnterProject, FrontendDone,
         WorkerFails, Spawn, Register, Harvest, Finish, Unlock, Report,
         DecideCleanup, Reclaim, Release, LockStep
<1>4. \A t \in Tasks : FaultStep(t) => UNCHANGED lockVars \/ LockStep(t)
  BY DEF FaultStep, InsertFails, CommitFails, VerdictFails, RescueFails,
         ReportFails, LockStep
<1>5. QED
  BY <1>1, <1>2, <1>3, <1>4, LockInvForget
     DEF Next, Submit, ManagerOnly, Restart, vars

LEMMA FreshNext == ASSUME IInv, [Next]_vars PROVE Fresh'
<1> USE DEF Fresh, RequestsNamed, QueueLines, TypeOK, ManagerTypeOK
<1>0. TypeOK /\ Fresh /\ RequestsNamed /\ QueueLines
  BY DEF IInv
<1>1. ASSUME NEW t \in Tasks, BuildStep(t) PROVE Fresh'
  <2>1. CASE CheckCancelled(t)
    <3>1. status' = status
      BY <2>1 DEF CheckCancelled, managerVars, memVars
    <3>2. \A u \in Tasks : pc'[u] = "none" => pc[u] = "none"
      BY <1>0, <2>1, Resumes
    <3>3. QED
      BY <1>0, <3>1, <3>2 DEF At
  <2>2. CASE ~CheckCancelled(t)
    BY <1>0, <1>1, <2>2
       DEF BuildStep, InsertRow, TakeSlot, WaitForSlot, Dispatch,
           Prepared, PrepareFails, Commit, EnterProject, FrontendDone,
           WorkerFails, Spawn, Register, Harvest, Finish, Unlock, Report,
           DecideCleanup, Reclaim, Release, StartRunning, SetStatus, Accepts,
           Assign, Conclude, WorkerDone, At, Goto, memVars, dbVars, reqVars,
           managerVars, AfterSlot, AfterCommit, AfterReport
  <2>3. QED
    BY <2>1, <2>2
<1>2. ASSUME NEW t \in Tasks, FaultStep(t) PROVE Fresh'
  BY <1>0, <1>2
     DEF FaultStep, InsertFails, CommitFails, VerdictFails, RescueFails,
         ReportFails, Fault, AfterReport, StartRunning, SetStatus, Accepts,
         Assign, Conclude, WorkerDone, At, Goto, memVars, dbVars, reqVars,
         managerVars
<1>3. ASSUME NEW t \in Tasks,
             Submit(t) \/ ((ProcessExit(t) \/ Evict(t)) /\ ManagerOnly)
      PROVE  Fresh'
  BY <1>0, <1>3
     DEF Submit, CreateTask, ProcessExit, Evict, Forget, ManagerOnly, At, Goto,
         memVars, dbVars, reqVars, managerVars, buildVars
<1>4. ASSUME NEW r \in Requests,
             \/ (NewDelete(r) \/ Answer(r)) /\ ManagerOnly
             \/ RequestCommitFails(r) /\ UNCHANGED <<lockVars, buildVars, slotVars>>
      PROVE  Fresh'
  BY <1>0, <1>4
     DEF NewDelete, Answer, Delete, CancelLive, CancelIdle, DeleteFinished,
         NotFound, MarkCancelled, Kill, CancelStopped, CommitCancel,
         RequestCommitFails, CommitCancelFails, Accepts, Assign, Forget, At,
         ManagerOnly, memVars, dbVars, reqVars, managerVars, buildVars
<1>5. ASSUME Restart PROVE Fresh'
  BY <1>0, <1>5 DEF Restart, RestartManager, At
<1>6. ASSUME UNCHANGED vars PROVE Fresh'
  BY <1>0, <1>6
     DEF vars, memVars, dbVars, reqVars, managerVars, buildVars, slotVars,
         boundVars, At
<1>7. QED
  BY <1>1, <1>2, <1>3, <1>4, <1>5, <1>6 DEF Next

LEMMA RequestsNamedNext == ASSUME IInv, [Next]_vars PROVE RequestsNamed'
<1> USE DEF RequestsNamed, QueueLines, TypeOK, ManagerTypeOK
<1>0. TypeOK /\ RequestsNamed /\ QueueLines
  BY DEF IInv
<1>1. ASSUME NEW t \in Tasks, BuildStep(t) PROVE RequestsNamed'
  <2>1. CASE CheckCancelled(t)
    <3>1. UNCHANGED <<reqPc, reqTask>>
      BY <2>1 DEF CheckCancelled, managerVars, reqVars
    <3>2. \A u \in Tasks : pc'[u] = "none" => pc[u] = "none"
      BY <1>0, <2>1, Resumes
    <3>3. QED
      BY <1>0, <3>1, <3>2
  <2>2. CASE ~CheckCancelled(t)
    BY <1>0, <1>1, <2>2
       DEF BuildStep, InsertRow, TakeSlot, WaitForSlot, Dispatch,
           Prepared, PrepareFails, Commit, EnterProject, FrontendDone,
           WorkerFails, Spawn, Register, Harvest, Finish, Unlock, Report,
           DecideCleanup, Reclaim, Release, StartRunning, SetStatus, Accepts,
           Assign, Conclude, WorkerDone, At, Goto, memVars, dbVars, reqVars,
           managerVars, AfterSlot, AfterCommit, AfterReport
  <2>3. QED
    BY <2>1, <2>2
<1>2. ASSUME NEW t \in Tasks, FaultStep(t) PROVE RequestsNamed'
  BY <1>0, <1>2
     DEF FaultStep, InsertFails, CommitFails, VerdictFails, RescueFails,
         ReportFails, Fault, AfterReport, StartRunning, SetStatus, Accepts,
         Assign, Conclude, WorkerDone, At, Goto, memVars, dbVars, reqVars,
         managerVars
<1>3. ASSUME NEW t \in Tasks,
             Submit(t) \/ ((ProcessExit(t) \/ Evict(t)) /\ ManagerOnly)
      PROVE  RequestsNamed'
  BY <1>0, <1>3
     DEF Submit, CreateTask, ProcessExit, Evict, Forget, ManagerOnly, At, Goto,
         memVars, dbVars, reqVars, managerVars, buildVars
<1>4. ASSUME NEW r \in Requests,
             \/ (NewDelete(r) \/ Answer(r)) /\ ManagerOnly
             \/ RequestCommitFails(r) /\ UNCHANGED <<lockVars, buildVars, slotVars>>
      PROVE  RequestsNamed'
  <2>1. pc' = pc
    BY <1>4 DEF ManagerOnly, buildVars
  <2>2. CASE NewDelete(r)
    BY <1>0, <2>1, <2>2 DEF NewDelete, Delete, CancelLive, CancelIdle,
         DeleteFinished, NotFound, MarkCancelled
  <2>3. CASE Answer(r) \/ RequestCommitFails(r)
    BY <1>0, <2>1, <2>3 DEF Answer, Kill, CancelStopped, CommitCancel,
         MarkCancelled, RequestCommitFails, CommitCancelFails
  <2>4. QED
    BY <1>4, <2>2, <2>3
<1>5. ASSUME Restart PROVE RequestsNamed'
  BY <1>0, <1>5 DEF Restart, RestartManager, At
<1>6. ASSUME UNCHANGED vars PROVE RequestsNamed'
  BY <1>0, <1>6
     DEF vars, memVars, dbVars, reqVars, managerVars, buildVars, slotVars,
         boundVars, At
<1>7. QED
  BY <1>1, <1>2, <1>3, <1>4, <1>5, <1>6 DEF Next

LEMMA CancelTakenNext == ASSUME IInv, [Next]_vars PROVE CancelTaken'
<1> USE DEF CancelTaken, Fresh, RequestsNamed, TypeOK, ManagerTypeOK, Terminal
<1>0. TypeOK /\ Fresh /\ RequestsNamed /\ CancelTaken
  BY DEF IInv
<1>1. ASSUME NEW t \in Tasks, BuildStep(t) PROVE CancelTaken'
  BY <1>0, <1>1
     DEF BuildStep, InsertRow, TakeSlot, WaitForSlot, CheckCancelled, Dispatch,
         Prepared, PrepareFails, Commit, EnterProject, FrontendDone,
         WorkerFails, Spawn, Register, Harvest, Finish, Unlock, Report,
         DecideCleanup, Reclaim, Release, StartRunning, SetStatus, Accepts,
         Assign, Conclude, WorkerDone, At, Goto, memVars, dbVars, reqVars,
         managerVars
<1>2. ASSUME NEW t \in Tasks, FaultStep(t) PROVE CancelTaken'
  BY <1>0, <1>2
     DEF FaultStep, InsertFails, CommitFails, VerdictFails, RescueFails,
         ReportFails, Fault, AfterReport, StartRunning, SetStatus, Accepts,
         Assign, Conclude, WorkerDone, At, Goto, memVars, dbVars, reqVars,
         managerVars
<1>3. ASSUME NEW t \in Tasks,
             Submit(t) \/ ((ProcessExit(t) \/ Evict(t)) /\ ManagerOnly)
      PROVE  CancelTaken'
  <2>1. CASE Submit(t)
    BY <1>0, <2>1 DEF Submit, CreateTask, At, reqVars
  <2>2. CASE ProcessExit(t)
    BY <1>0, <2>2 DEF ProcessExit, memVars
  <2>3. CASE Evict(t)
    BY <1>0, <2>3 DEF Evict, Forget, reqVars
  <2>4. QED
    BY <1>3, <2>1, <2>2, <2>3
<1>4. ASSUME NEW r \in Requests,
             \/ (NewDelete(r) \/ Answer(r)) /\ ManagerOnly
             \/ RequestCommitFails(r) /\ UNCHANGED <<lockVars, buildVars, slotVars>>
      PROVE  CancelTaken'
  BY <1>0, <1>4
     DEF NewDelete, Answer, Delete, CancelLive, CancelIdle, DeleteFinished,
         NotFound, MarkCancelled, Kill, CancelStopped, CommitCancel,
         RequestCommitFails, CommitCancelFails, Accepts, Assign, Forget, At,
         ManagerOnly, memVars, dbVars, reqVars, managerVars, buildVars
<1>5. ASSUME Restart PROVE CancelTaken'
  BY <1>0, <1>5 DEF Restart, RestartManager, At
<1>6. ASSUME UNCHANGED vars PROVE CancelTaken'
  BY <1>0, <1>6
     DEF vars, memVars, dbVars, reqVars, managerVars, buildVars, slotVars,
         boundVars, At
<1>7. QED
  BY <1>1, <1>2, <1>3, <1>4, <1>5, <1>6 DEF Next

LEMMA FinishedScheduledNext == ASSUME IInv, [Next]_vars PROVE FinishedScheduled'
<1> USE DEF FinishedScheduled, TypeOK, ManagerTypeOK, Terminal, Status, Active
<1>0. TypeOK /\ Fresh /\ FinishedScheduled
  BY DEF IInv
<1>1. ASSUME NEW t \in Tasks, BuildStep(t) PROVE FinishedScheduled'
  BY <1>0, <1>1
     DEF BuildStep, InsertRow, TakeSlot, WaitForSlot, CheckCancelled, Dispatch,
         Prepared, PrepareFails, Commit, EnterProject, FrontendDone,
         WorkerFails, Spawn, Register, Harvest, Finish, Unlock, Report,
         DecideCleanup, Reclaim, Release, StartRunning, SetStatus, Accepts,
         Assign, Conclude, WorkerDone, At, Goto, memVars, dbVars, reqVars,
         managerVars
<1>2. ASSUME NEW t \in Tasks, FaultStep(t) PROVE FinishedScheduled'
  BY <1>0, <1>2
     DEF FaultStep, InsertFails, CommitFails, VerdictFails, RescueFails,
         ReportFails, Fault, AfterReport, StartRunning, SetStatus, Accepts,
         Assign, Conclude, WorkerDone, At, Goto, memVars, dbVars, reqVars,
         managerVars
<1>3. ASSUME NEW t \in Tasks,
             Submit(t) \/ ((ProcessExit(t) \/ Evict(t)) /\ ManagerOnly)
      PROVE  FinishedScheduled'
  BY <1>0, <1>3
     DEF Submit, CreateTask, ProcessExit, Evict, Forget, ManagerOnly, At, Goto,
         memVars, dbVars, reqVars, managerVars, buildVars
<1>4. ASSUME NEW r \in Requests,
             \/ (NewDelete(r) \/ Answer(r)) /\ ManagerOnly
             \/ RequestCommitFails(r) /\ UNCHANGED <<lockVars, buildVars, slotVars>>
      PROVE  FinishedScheduled'
  BY <1>0, <1>4
     DEF NewDelete, Answer, Delete, CancelLive, CancelIdle, DeleteFinished,
         NotFound, MarkCancelled, Kill, CancelStopped, CommitCancel,
         RequestCommitFails, CommitCancelFails, Accepts, Assign, Forget, At,
         ManagerOnly, memVars, dbVars, reqVars, managerVars, buildVars
<1>5. ASSUME Restart PROVE FinishedScheduled'
  BY <1>0, <1>5 DEF Restart, RestartManager, At
<1>6. ASSUME UNCHANGED vars PROVE FinishedScheduled'
  BY <1>0, <1>6
     DEF vars, memVars, dbVars, reqVars, managerVars, buildVars, slotVars,
         boundVars, At
<1>7. QED
  BY <1>1, <1>2, <1>3, <1>4, <1>5, <1>6 DEF Next

LEMMA LostRowsClosedNext == ASSUME IInv, [Next]_vars PROVE LostRowsClosed'
<1> USE DEF LostRowsClosed, RequestsNamed, TypeOK, ManagerTypeOK, Terminal, Active
<1>0. TypeOK /\ LostRowsClosed /\ RequestsNamed
  BY DEF IInv
<1>1. ASSUME NEW t \in Tasks, BuildStep(t) PROVE LostRowsClosed'
  BY <1>0, <1>1
     DEF BuildStep, InsertRow, TakeSlot, WaitForSlot, CheckCancelled, Dispatch,
         Prepared, PrepareFails, Commit, EnterProject, FrontendDone,
         WorkerFails, Spawn, Register, Harvest, Finish, Unlock, Report,
         DecideCleanup, Reclaim, Release, StartRunning, SetStatus, Accepts,
         Assign, Conclude, WorkerDone, At, Goto, memVars, dbVars, reqVars,
         managerVars, AfterSlot, AfterCommit, AfterReport, WriteRow
<1>2. ASSUME NEW t \in Tasks, FaultStep(t) PROVE LostRowsClosed'
  BY <1>0, <1>2
     DEF FaultStep, InsertFails, CommitFails, VerdictFails, RescueFails,
         ReportFails, Fault, AfterReport, StartRunning, SetStatus, Accepts,
         Assign, Conclude, WorkerDone, At, Goto, memVars, dbVars, reqVars,
         managerVars
<1>3. ASSUME NEW t \in Tasks,
             Submit(t) \/ ((ProcessExit(t) \/ Evict(t)) /\ ManagerOnly)
      PROVE  LostRowsClosed'
  BY <1>0, <1>3
     DEF Submit, CreateTask, ProcessExit, Evict, Forget, ManagerOnly, At, Goto,
         memVars, dbVars, reqVars, managerVars, buildVars
<1>4. ASSUME NEW r \in Requests,
             \/ (NewDelete(r) \/ Answer(r)) /\ ManagerOnly
             \/ RequestCommitFails(r) /\ UNCHANGED <<lockVars, buildVars, slotVars>>
      PROVE  LostRowsClosed'
  BY <1>0, <1>4
     DEF NewDelete, Answer, Delete, CancelLive, CancelIdle, DeleteFinished,
         NotFound, MarkCancelled, Kill, CancelStopped, CommitCancel,
         RequestCommitFails, CommitCancelFails, WriteRow, Accepts, Assign,
         Forget, At, ManagerOnly, memVars, dbVars, reqVars, managerVars,
         buildVars
<1>5. ASSUME Restart PROVE LostRowsClosed'
  BY <1>0, <1>5 DEF Restart, RestartManager, FailOrphans, At
<1>6. ASSUME UNCHANGED vars PROVE LostRowsClosed'
  BY <1>0, <1>6
     DEF vars, memVars, dbVars, reqVars, managerVars, buildVars, slotVars,
         boundVars, At
<1>7. QED
  BY <1>1, <1>2, <1>3, <1>4, <1>5, <1>6 DEF Next

LEMMA LockMatchesNext == ASSUME IInv, [Next]_vars PROVE LockMatches'
<1> USE DEF lockVars, LockMatches, Inside, QueueLines, TypeOK, LockTypeOK, InWorker
<1>0. TypeOK /\ LockMatches /\ QueueLines
  BY DEF IInv
<1>1. ASSUME NEW t \in Tasks, BuildStep(t) PROVE LockMatches'
  <2>1. CASE EnterProject(t)
    <3>1. /\ lockPc' \in [Tasks -> LockPc]
          /\ \A u \in Tasks \ {t} : lockPc'[u] = lockPc[u]
      BY <1>0, <2>1 DEF EnterProject, GetLock, AcquireAfterLog, Resume,
           TakeOrQueue, LockPc
    <3>2. QED
      BY <1>0, <2>1, <3>1 DEF EnterProject, At, Goto
  <2>2. CASE Unlock(t)
    BY <1>0, <2>2 DEF Unlock, Leave, At, Goto
  <2>3. CASE Release(t)
    <3>1. CASE slotQueue = <<>>
      BY <1>0, <2>3, <3>1 DEF Release, At, Goto
    <3>2. CASE slotQueue # <<>>
      <4>1. Head(slotQueue) \in Tasks /\ pc[Head(slotQueue)] = "lining"
        BY <1>0, <3>2, HeadLines
      <4>2. /\ pc' = [pc EXCEPT ![t] = "ended", ![Head(slotQueue)] = "admitted"]
            /\ pc[t] = "releasing" /\ lockPc' = lockPc
        BY <2>3, <3>2 DEF Release, At
      <4>3. QED
        BY <1>0, <4>1, <4>2
    <3>3. QED
      BY <3>1, <3>2
  <2>4. CASE Commit(t)
    BY <1>0, <2>4 DEF Commit, AfterCommit, At, Goto
  <2>5. CASE \/ InsertRow(t) \/ TakeSlot(t) \/ WaitForSlot(t)
             \/ Dispatch(t) \/ Prepared(t) \/ PrepareFails(t)
    BY <1>0, <2>5
       DEF InsertRow, TakeSlot, WaitForSlot, Dispatch, Prepared,
           PrepareFails, StartRunning, SetStatus, AfterSlot, At, Goto
  <2>9. CASE CheckCancelled(t)
    <3>1. lockPc' = lockPc
      BY <2>9 DEF CheckCancelled
    <3>2. QED
      BY <1>0, <2>9, <3>1, Resumes
  <2>6. CASE \/ FrontendDone(t) \/ WorkerFails(t) \/ Spawn(t) \/ Register(t)
             \/ Harvest(t) \/ Finish(t)
    BY <1>0, <2>6
       DEF FrontendDone, WorkerFails, Spawn, Register, Harvest, Finish,
           WorkerDone, Conclude, SetStatus, At, Goto
  <2>7. CASE Report(t) \/ DecideCleanup(t) \/ Reclaim(t)
    BY <1>0, <2>7 DEF Report, DecideCleanup, Reclaim, AfterReport, At, Goto
  <2>8. QED
    BY <1>1, <2>1, <2>2, <2>3, <2>4, <2>5, <2>6, <2>7, <2>9 DEF BuildStep
<1>2. ASSUME NEW t \in Tasks, FaultStep(t) PROVE LockMatches'
  <2>1. CASE RescueFails(t)
    BY <1>0, <2>1 DEF RescueFails, Leave, At, Goto
  <2>2. CASE InsertFails(t) \/ CommitFails(t) \/ ReportFails(t)
    BY <1>0, <2>2
       DEF InsertFails, CommitFails, ReportFails, AfterReport, At, Goto
  <2>3. CASE VerdictFails(t)
    BY <1>0, <2>3 DEF VerdictFails, SetStatus, At, Goto
  <2>4. QED
    BY <1>2, <2>1, <2>2, <2>3 DEF FaultStep
<1>3. ASSUME NEW t \in Tasks,
             Submit(t) \/ ((ProcessExit(t) \/ Evict(t)) /\ ManagerOnly)
      PROVE  LockMatches'
  BY <1>0, <1>3
     DEF Submit, CreateTask, ProcessExit, Evict, Forget, ManagerOnly, At, Goto,
         memVars, dbVars, reqVars, managerVars, buildVars
<1>4. ASSUME NEW r \in Requests,
             \/ (NewDelete(r) \/ Answer(r)) /\ ManagerOnly
             \/ RequestCommitFails(r) /\ UNCHANGED <<lockVars, buildVars, slotVars>>
      PROVE  LockMatches'
  BY <1>0, <1>4 DEF ManagerOnly, buildVars
<1>5. ASSUME Restart PROVE LockMatches'
  BY <1>0, <1>5 DEF Restart, RestartManager, ForgetLocks, At
<1>6. ASSUME UNCHANGED vars PROVE LockMatches'
  BY <1>0, <1>6
     DEF vars, memVars, dbVars, reqVars, managerVars, buildVars, slotVars,
         boundVars, At
<1>7. QED
  BY <1>1, <1>2, <1>3, <1>4, <1>5, <1>6 DEF Next

(* Every step is the entry into the line, the taking or the handing on of  *)
(* a slot, a restart, or leaves slots and holders alone.                   *)
SlotsAlone ==
    /\ UNCHANGED slotVars
    /\ Holders' = Holders
    /\ \A t \in Tasks : /\ At(t, "lining") => At(t, "lining")'
                        /\ At(t, "admitted") => At(t, "admitted")'

LEMMA ManagerLeavesSlots ==
    ASSUME \/ \E t \in Tasks : (ProcessExit(t) \/ Evict(t)) /\ ManagerOnly
           \/ \E r \in Requests : (NewDelete(r) \/ Answer(r)) /\ ManagerOnly
           \/ \E r \in Requests :
                RequestCommitFails(r) /\ UNCHANGED <<lockVars, buildVars, slotVars>>
           \/ UNCHANGED vars
    PROVE  SlotsAlone
BY
   DEF ManagerOnly, vars, buildVars, slotVars, SlotsAlone, Holders, HoldsSlot,
       At

LEMMA BuildLeavesSlots ==
    ASSUME TypeOK, NEW t \in Tasks,
           Submit(t) \/ BuildStep(t) \/ FaultStep(t),
           ~TakeSlot(t), ~WaitForSlot(t), ~CheckCancelled(t), ~Release(t)
    PROVE  SlotsAlone
<1> USE DEF SlotsAlone, Holders, HoldsSlot, Handed, InWorker, slotVars, At, Goto
<1>0. pc \in [Tasks -> BuildPc]
  BY DEF TypeOK
<1>1. CASE Submit(t) \/ InsertRow(t)
  BY <1>0, <1>1 DEF Submit, InsertRow
<1>2. CASE Dispatch(t) \/ Prepared(t) \/ PrepareFails(t)
  BY <1>0, <1>2 DEF Dispatch, Prepared, PrepareFails, StartRunning, SetStatus
<1>3. CASE Commit(t)
  BY <1>0, <1>3 DEF Commit, AfterCommit
<1>4. CASE EnterProject(t) \/ Unlock(t)
  BY <1>0, <1>4 DEF EnterProject, Unlock
<1>5. CASE \/ FrontendDone(t) \/ WorkerFails(t) \/ Spawn(t) \/ Register(t)
           \/ Harvest(t) \/ Finish(t)
  BY <1>0, <1>5
     DEF FrontendDone, WorkerFails, Spawn, Register, Harvest, Finish,
         WorkerDone, Conclude, SetStatus
<1>6. CASE Report(t) \/ DecideCleanup(t) \/ Reclaim(t)
  BY <1>0, <1>6 DEF Report, DecideCleanup, Reclaim, AfterReport
<1>7. CASE FaultStep(t)
  BY <1>0, <1>7
     DEF FaultStep, InsertFails, CommitFails, VerdictFails, RescueFails,
         ReportFails, AfterReport, SetStatus
<1>8. QED
  BY <1>1, <1>2, <1>3, <1>4, <1>5, <1>6, <1>7 DEF BuildStep

LEMMA QueueLinesNext == ASSUME IInv, [Next]_vars PROVE QueueLines'
<1>0. TypeOK /\ QueueLines
  BY DEF IInv
<1>1. ASSUME SlotsAlone PROVE QueueLines'
  BY <1>0, <1>1 DEF SlotsAlone, QueueLines, TypeOK, slotVars, At
<1>2. ASSUME NEW t \in Tasks, TakeSlot(t) PROVE QueueLines'
  BY <1>0, <1>2 DEF TakeSlot, AfterSlot, QueueLines, TypeOK, At, Goto
<1>3. ASSUME NEW t \in Tasks, WaitForSlot(t) PROVE QueueLines'
  <2>1. \A i \in DOMAIN slotQueue : slotQueue[i] # t
    BY <1>0, <1>3 DEF WaitForSlot, QueueLines, At
  <2>2. QED
    BY <1>0, <1>3, <2>1 DEF WaitForSlot, QueueLines, TypeOK, At, Goto
<1>4. ASSUME NEW t \in Tasks, Release(t) PROVE QueueLines'
  <2>1. CASE slotQueue = <<>>
    BY <1>0, <1>4, <2>1 DEF Release, QueueLines, TypeOK, At, Goto
  <2>2. CASE slotQueue # <<>>
    <3>1. /\ slotQueue' = Tail(slotQueue)
          /\ \A u \in Tasks : u # t /\ u # Head(slotQueue) => pc'[u] = pc[u]
          /\ pc[t] = "releasing"
      BY <1>0, <1>4, <2>2 DEF Release, TypeOK, At
    <3>2. \A i \in DOMAIN slotQueue : slotQueue[i] \in Tasks /\ pc[slotQueue[i]] = "lining"
      BY <1>0 DEF QueueLines, TypeOK, At
    <3>3. \A i \in DOMAIN slotQueue' : pc'[slotQueue'[i]] = "lining"
      <4>1. ASSUME NEW i \in DOMAIN Tail(slotQueue)
            PROVE  pc'[Tail(slotQueue)[i]] = "lining"
        <5>1. /\ i + 1 \in DOMAIN slotQueue
              /\ Tail(slotQueue)[i] = slotQueue[i + 1]
              /\ slotQueue[i + 1] # Head(slotQueue)
          BY <1>0, <2>2, HeadLines
        <5>2. /\ slotQueue[i + 1] \in Tasks
              /\ pc[slotQueue[i + 1]] = "lining"
          BY <3>2, <5>1
        <5>3. slotQueue[i + 1] # t
          BY <3>1, <5>2
        <5>4. QED
          BY <3>1, <5>1, <5>2, <5>3
      <4>2. QED
        BY <3>1, <4>1
    <3>4. ASSUME NEW i \in DOMAIN slotQueue', NEW j \in DOMAIN slotQueue',
                 slotQueue'[i] = slotQueue'[j]
          PROVE  i = j
      <4>1. /\ i \in Nat /\ j \in Nat
            /\ i + 1 \in DOMAIN slotQueue /\ j + 1 \in DOMAIN slotQueue
            /\ slotQueue[i + 1] = slotQueue[j + 1]
        BY <1>0, <2>2, <3>1, <3>4, HeadLines
      <4>2. QED
        BY <1>0, <4>1 DEF QueueLines
    <3>5. QED
      BY <3>3, <3>4 DEF QueueLines, At
  <2>3. QED
    BY <2>1, <2>2
<1>5. ASSUME Restart PROVE QueueLines'
  BY <1>5 DEF Restart, QueueLines
<1>7. ASSUME NEW t \in Tasks, CheckCancelled(t) PROVE QueueLines'
  <2>1. /\ Woken \in Nat /\ slotQueue' \in Seq(Tasks) /\ pc[t] = "admitted"
        /\ \A i \in DOMAIN slotQueue' :
              /\ i \in Nat \ {0} /\ i + Woken \in DOMAIN slotQueue
              /\ slotQueue'[i] = slotQueue[i + Woken]
        /\ \A u \in Tasks \ {t} :
              pc'[u] = pc[u] \/ \E i \in 1 .. Woken : slotQueue[i] = u
        /\ Woken <= Len(slotQueue)
    BY <1>0, <1>7, Resumes
  <2>2. \A i, j \in DOMAIN slotQueue' : slotQueue'[i] = slotQueue'[j] => i = j
    <3>1. ASSUME NEW i \in DOMAIN slotQueue', NEW j \in DOMAIN slotQueue',
                 slotQueue'[i] = slotQueue'[j]
          PROVE  i = j
      <4>1. i \in Nat /\ j \in Nat /\ i + Woken = j + Woken
        BY <1>0, <2>1, <3>1 DEF QueueLines
      <4>2. QED
        BY <2>1, <4>1
    <3>2. QED
      BY <3>1
  <2>3. ASSUME NEW i \in DOMAIN slotQueue' PROVE pc'[slotQueue'[i]] = "lining"
    <3>1. /\ i \in Nat \ {0} /\ i + Woken \in DOMAIN slotQueue
          /\ slotQueue'[i] = slotQueue[i + Woken]
      BY <2>1, <2>3
    <3>2. slotQueue[i + Woken] \in Tasks /\ pc[slotQueue[i + Woken]] = "lining"
      BY <1>0, <3>1 DEF QueueLines, TypeOK, At
    <3>3. ~\E k \in 1 .. Woken : slotQueue[k] = slotQueue[i + Woken]
      <4>1. SUFFICES ASSUME NEW k \in 1 .. Woken, slotQueue[k] = slotQueue[i + Woken]
                     PROVE  FALSE
        OBVIOUS
      <4>2. k \in DOMAIN slotQueue
        BY <1>0, <2>1 DEF TypeOK
      <4>3. k = i + Woken
        BY <1>0, <3>1, <4>1, <4>2 DEF QueueLines
      <4>4. QED
        BY <2>1, <3>1, <4>3
    <3>4. slotQueue[i + Woken] # t
      BY <2>1, <3>2
    <3>5. QED
      BY <2>1, <3>1, <3>2, <3>3, <3>4
  <2>4. QED
    BY <2>2, <2>3 DEF QueueLines, At
<1>6. QED
  BY <1>0, <1>1, <1>2, <1>3, <1>4, <1>5, <1>7, ManagerLeavesSlots, BuildLeavesSlots
     DEF Next

(* As many builds are called as the line has first members.                *)
LEMMA CalledCardinality ==
    ASSUME NEW q, NEW n \in Nat, NEW Called,
           \A i \in 1 .. n : i \in DOMAIN q,
           \A i, j \in DOMAIN q : q[i] = q[j] => i = j,
           \A c : c \in Called <=> \E i \in 1 .. n : q[i] = c
    PROVE  IsFiniteSet(Called) /\ Cardinality(Called) = n
<1> DEFINE call == [i \in 1 .. n |-> q[i]]
<1>1. IsFiniteSet(1 .. n) /\ Cardinality(1 .. n) = n
  BY FS_Interval
<1>2. call \in Surjection(1 .. n, Called) /\ call \in Injection(1 .. n, Called)
  BY DEF Surjection, Injection, IsInjective
<1>3. QED
  BY <1>1, <1>2, FS_Surjection

SomeAdmitted == \E t \in Tasks : At(t, "admitted")

LEMMA SlotsNext ==
    ASSUME IInv, [Next]_vars
    PROVE  Slots' /\ free' \in 0 .. MaxBuilds
<1>0. /\ TypeOK /\ QueueLines /\ IsFiniteSet(Holders)
      /\ free + Cardinality(Holders) = MaxBuilds
      /\ slotQueue # <<>> => free = 0 \/ SomeAdmitted
      /\ Cardinality(Holders) \in Nat /\ MaxBuilds \in Nat /\ free \in 0 .. MaxBuilds
  <2>1. TypeOK /\ QueueLines /\ Slots
    BY DEF IInv
  <2>2. QED
    BY <2>1, FS_CardinalityType, DispatcherAssumption
       DEF Slots, SlotAccounting, SomeAdmitted, Holders, TypeOK
<1>1. SUFFICES /\ IsFiniteSet(Holders')
               /\ free' \in Int
               /\ free' >= 0
               /\ free' + Cardinality(Holders') = MaxBuilds
               /\ slotQueue' # <<>> => free' = 0 \/ SomeAdmitted'
  <2>1. IsFiniteSet(Holders') => Cardinality(Holders') \in Nat
    BY FS_CardinalityType
  <2>2. Holders' = {t \in Tasks : HoldsSlot(t)'}
    BY DEF Holders
  <2>3. QED
    BY <1>0, <2>1, <2>2 DEF Slots, SlotAccounting, SomeAdmitted
<1>2. CASE SlotsAlone
  BY <1>0, <1>2 DEF SlotsAlone, SomeAdmitted, slotVars
<1>3. ASSUME NEW t \in Tasks, TakeSlot(t)
      PROVE  /\ IsFiniteSet(Holders') /\ free' \in Int /\ free' >= 0
             /\ free' + Cardinality(Holders') = MaxBuilds
             /\ slotQueue' # <<>> => free' = 0 \/ SomeAdmitted'
  <2>1. t \notin Holders /\ Holders' = Holders \cup {t}
    BY <1>0, <1>3 DEF TakeSlot, AfterSlot, Holders, HoldsSlot, Handed, InWorker,
                      TypeOK, At, Goto
  <2>2. IsFiniteSet(Holders') /\ Cardinality(Holders') = Cardinality(Holders) + 1
    BY <1>0, <2>1, FS_AddElement
  <2>3. QED
    BY <1>0, <1>3, <2>2 DEF TakeSlot, Contended
<1>4. ASSUME NEW t \in Tasks, WaitForSlot(t)
      PROVE  /\ Holders' = Holders /\ free' = free
             /\ free' = 0 \/ SomeAdmitted'
  <2>1. Holders' = Holders /\ free' = free
    BY <1>0, <1>4
       DEF WaitForSlot, Holders, HoldsSlot, Handed, InWorker, TypeOK, At, Goto
  <2>2. SomeAdmitted => SomeAdmitted'
    BY <1>0, <1>4 DEF WaitForSlot, SomeAdmitted, TypeOK, At, Goto
  <2>3. free = 0 \/ SomeAdmitted
    BY <1>0, <1>4 DEF WaitForSlot, Contended, SomeAdmitted
  <2>4. QED
    BY <2>1, <2>2, <2>3
<1>5. ASSUME NEW t \in Tasks, Release(t)
      PROVE  /\ IsFiniteSet(Holders') /\ free' \in Int /\ free' >= 0
             /\ free' + Cardinality(Holders') = MaxBuilds
             /\ slotQueue' # <<>> => free' = 0 \/ SomeAdmitted'
  <2>1. t \in Holders
    BY <1>5 DEF Release, Holders, HoldsSlot, Handed, At
  <2>2. /\ IsFiniteSet(Holders \ {t})
        /\ Cardinality(Holders \ {t}) = Cardinality(Holders) - 1
    BY <1>0, <2>1, FS_RemoveElement
  <2>3. CASE slotQueue = <<>>
    <3>1. Holders' = Holders \ {t} /\ free' = free + 1 /\ slotQueue' = <<>>
      BY <1>0, <1>5, <2>3
         DEF Release, Holders, HoldsSlot, Handed, InWorker, TypeOK, At, Goto
    <3>2. QED
      BY <1>0, <2>2, <3>1
  <2>4. CASE slotQueue # <<>>
    <3>1. /\ Holders' = (Holders \ {t}) \cup {Head(slotQueue)}
          /\ Head(slotQueue) \notin Holders \ {t}
          /\ free' = free
      BY <1>0, <1>5, <2>4, HeadLines
         DEF Release, Holders, HoldsSlot, Handed, InWorker, TypeOK, At
    <3>2. /\ IsFiniteSet(Holders')
          /\ Cardinality(Holders') = Cardinality(Holders \ {t}) + 1
      BY <2>2, <3>1, FS_AddElement
    <3>3. SomeAdmitted'
      BY <1>0, <1>5, <2>4, HeadLines DEF Release, SomeAdmitted, TypeOK, At
    <3>4. QED
      BY <1>0, <2>2, <3>1, <3>2, <3>3
  <2>5. QED
    BY <2>3, <2>4
<1>8. ASSUME NEW t \in Tasks, CheckCancelled(t)
      PROVE  /\ IsFiniteSet(Holders') /\ free' \in Int /\ free' >= 0
             /\ free' + Cardinality(Holders') = MaxBuilds
             /\ slotQueue' # <<>> => free' = 0 \/ SomeAdmitted'
  <2> DEFINE Called == {slotQueue[i] : i \in 1 .. Woken}
  <2>1. /\ Woken \in 0 .. free /\ Woken \in Nat /\ free' = free - Woken
        /\ slotQueue' # <<>> => free' = 0
        /\ \A i \in 1 .. Woken : i \in DOMAIN slotQueue
    BY <1>0, <1>8, Resumes DEF TypeOK
  <2>2. IsFiniteSet(Called) /\ Cardinality(Called) = Woken
    <3>1. \A i, j \in DOMAIN slotQueue : slotQueue[i] = slotQueue[j] => i = j
      BY <1>0 DEF QueueLines
    <3>2. \A c : c \in Called <=> \E i \in 1 .. Woken : slotQueue[i] = c
      OBVIOUS
    <3> HIDE DEF Called
    <3>3. QED
      BY <2>1, <3>1, <3>2, CalledCardinality
  <2>3. \A u \in Called : u \in Tasks /\ pc[u] = "lining"
    BY <1>0, <2>1 DEF QueueLines, TypeOK, At
  <2>4. Holders \cap Called = {}
    BY <2>3 DEF Holders, HoldsSlot, Handed, InWorker
  <2>5. /\ pc[t] = "admitted" /\ pc'[t] \in {"releasing", "preparing", "dispatching"}
        /\ \A u \in Tasks \ {t} :
              IF u \in Called THEN pc'[u] = "admitted" ELSE pc'[u] = pc[u]
    <3>1. \A u \in Tasks : u \in Called <=> \E i \in 1 .. Woken : slotQueue[i] = u
      OBVIOUS
    <3> HIDE DEF Called
    <3>2. QED
      BY <1>0, <1>8, <3>1, Resumes
  <2>6. Holders' = Holders \cup Called
    BY <2>3, <2>5 DEF Holders, HoldsSlot, Handed, InWorker
  <2>7. IsFiniteSet(Holders') /\ Cardinality(Holders') = Cardinality(Holders) + Woken
    <3> HIDE DEF Called
    <3>1. Cardinality(Holders \cap Called) = 0
      BY <2>4, FS_EmptySet
    <3>2. /\ IsFiniteSet(Holders \cup Called)
          /\ Cardinality(Holders \cup Called)
               = Cardinality(Holders) + Cardinality(Called) - Cardinality(Holders \cap Called)
      BY <1>0, <2>2, FS_Union
    <3>3. QED
      BY <1>0, <2>1, <2>2, <2>6, <3>1, <3>2
  <2>8. QED
    BY <1>0, <2>1, <2>7
<1>6. ASSUME Restart
      PROVE  /\ IsFiniteSet(Holders') /\ free' \in Int /\ free' >= 0
             /\ free' + Cardinality(Holders') = MaxBuilds
             /\ slotQueue' = <<>>
  <2>1. Holders' = {} /\ free' = MaxBuilds /\ slotQueue' = <<>>
    BY <1>6 DEF Restart, Holders, HoldsSlot, Handed, InWorker, At
  <2>2. IsFiniteSet({}) /\ Cardinality({}) = 0
    BY FS_EmptySet
  <2>3. QED
    BY <1>0, <2>1, <2>2
<1>7. QED
  <2>1. \/ SlotsAlone \/ Restart
        \/ \E t \in Tasks : TakeSlot(t) \/ WaitForSlot(t) \/ CheckCancelled(t) \/ Release(t)
    BY <1>0, ManagerLeavesSlots, BuildLeavesSlots DEF Next
  <2>2. ASSUME NEW t \in Tasks, WaitForSlot(t)
        PROVE  /\ IsFiniteSet(Holders') /\ free' \in Int /\ free' >= 0
               /\ free' + Cardinality(Holders') = MaxBuilds
               /\ slotQueue' # <<>> => free' = 0 \/ SomeAdmitted'
    BY <1>0, <1>4, <2>2
  <2>3. QED
    BY <1>2, <1>3, <1>5, <1>6, <1>8, <2>1, <2>2

LEMMA ManagerTypeNext == ASSUME IInv, [Next]_vars PROVE ManagerTypeOK'
<1> USE DEF ManagerTypeOK, Status, Active, Terminal, Process, Alive, RequestPc,
            memVars, dbVars, reqVars, managerVars, At, Goto
<1>0. TypeOK /\ ManagerTypeOK /\ RequestsNamed
  BY DEF IInv, TypeOK
<1>2. ASSUME NEW t \in Tasks, BuildStep(t) PROVE ManagerTypeOK'
  <2>1. CASE \/ TakeSlot(t) \/ WaitForSlot(t) \/ CheckCancelled(t) \/ EnterProject(t)
             \/ Unlock(t) \/ DecideCleanup(t) \/ Reclaim(t) \/ Release(t)
    BY <1>0, <2>1
       DEF TakeSlot, WaitForSlot, CheckCancelled, EnterProject, Unlock,
           DecideCleanup, Reclaim, Release
  <2>2. CASE InsertRow(t) \/ Commit(t) \/ Report(t)
    <3>1. pending[t] \in Status
      BY <1>0 DEF TypeOK
    <3>2. CASE Commit(t)
      BY <1>0, <3>1, <3>2 DEF Commit, WriteRow
    <3>3. CASE InsertRow(t) \/ Report(t)
      BY <1>0, <3>3 DEF InsertRow, Report
    <3>4. QED
      BY <2>2, <3>2, <3>3
  <2>3. CASE Dispatch(t) \/ Prepared(t) \/ PrepareFails(t)
    BY <1>0, <2>3 DEF Dispatch, Prepared, PrepareFails, StartRunning, SetStatus,
                      Assign
  <2>4. CASE FrontendDone(t) \/ WorkerFails(t) \/ Finish(t)
    BY <1>0, <2>4 DEF FrontendDone, WorkerFails, Finish, WorkerDone, Conclude,
                      SetStatus, Assign
  <2>5. CASE Spawn(t) \/ Register(t) \/ Harvest(t)
    BY <1>0, <2>5 DEF Spawn, Register, Harvest
  <2>6. QED
    BY <1>2, <2>1, <2>2, <2>3, <2>4, <2>5 DEF BuildStep
<1>3. ASSUME NEW t \in Tasks, FaultStep(t) PROVE ManagerTypeOK'
  BY <1>0, <1>3
     DEF FaultStep, InsertFails, CommitFails, VerdictFails, RescueFails,
         ReportFails, SetStatus, Assign
<1>4. ASSUME NEW t \in Tasks, Submit(t) \/ ProcessExit(t) \/ Evict(t)
      PROVE  ManagerTypeOK'
  BY <1>0, <1>4 DEF Submit, CreateTask, ProcessExit, Evict, Forget
<1>5. ASSUME NEW r \in Requests, NewDelete(r) PROVE ManagerTypeOK'
  <2>1. PICK t \in Tasks : Delete(r, t)
    BY <1>5 DEF NewDelete
  <2>2. QED
    BY <1>0, <2>1 DEF Delete, CancelLive, CancelIdle, DeleteFinished, NotFound,
                      MarkCancelled, Terminate, Assign, Forget
<1>6. ASSUME NEW r \in Requests, Answer(r) \/ RequestCommitFails(r)
      PROVE  ManagerTypeOK'
  <2>1. reqTask[r] \in Tasks
    BY <1>0, <1>6 DEF RequestsNamed, Answer, Kill, CancelStopped, CommitCancel,
                      RequestCommitFails, CommitCancelFails
  <2>2. QED
    BY <1>0, <1>6, <2>1
       DEF Answer, Kill, CancelStopped, CommitCancel, MarkCancelled,
           RequestCommitFails, CommitCancelFails, Assign, WriteRow
<1>7. ASSUME Restart PROVE ManagerTypeOK'
  BY <1>0, <1>7 DEF Restart, RestartManager, FailOrphans
<1>8. ASSUME UNCHANGED vars PROVE ManagerTypeOK'
  BY <1>0, <1>8 DEF vars
<1>9. QED
  BY <1>2, <1>3, <1>4, <1>5, <1>6, <1>7, <1>8 DEF Next

BuildTypeOK ==
    /\ pc \in [Tasks -> BuildPc]
    /\ stage \in [Tasks -> Nat]
    /\ \A t \in Tasks : stage[t] \in 1 .. Len(Chain[t])
    /\ pending \in [Tasks -> Status]
    /\ slotQueue \in Seq(Tasks)
    /\ workspace \in [Tasks -> Workspace]
    /\ crashes \in Nat
    /\ faults \in Nat

LEMMA BuildTypeNext == ASSUME IInv, [Next]_vars PROVE BuildTypeOK'
<1> USE DEF BuildTypeOK, BuildPc, Waiting, Handed, InWorker, Status, Active,
            Terminal, Workspace, slotVars, boundVars, At, Goto
<1>0. BuildTypeOK /\ TypeOK /\ QueueLines
  BY DEF IInv, TypeOK
<1>1. ASSUME NEW t \in Tasks, BuildStep(t) PROVE BuildTypeOK'
  <2>1. CASE InsertRow(t) \/ TakeSlot(t) \/ EnterProject(t)
    BY <1>0, <2>1 DEF InsertRow, TakeSlot, EnterProject, AfterSlot
  <2>2. CASE WaitForSlot(t)
    BY <1>0, <2>2 DEF WaitForSlot
  <2>3. CASE Release(t)
    <3>1. CASE slotQueue = <<>>
      BY <1>0, <2>3, <3>1 DEF Release
    <3>2. CASE slotQueue # <<>>
      BY <1>0, <2>3, <3>2, HeadLines DEF Release
    <3>3. QED
      BY <3>1, <3>2
  <2>4. CASE Dispatch(t) \/ Prepared(t) \/ PrepareFails(t) \/ WorkerFails(t)
    BY <1>0, <2>4 DEF Dispatch, Prepared, PrepareFails, WorkerFails, Conclude,
                      StartRunning, SetStatus
  <2>5. CASE FrontendDone(t) \/ Finish(t)
    <3>1. WorkerDone(t) \/ Conclude(t, "failed")
      BY <2>5 DEF FrontendDone, Finish
    <3>2. UNCHANGED <<workspace, slotVars, boundVars>>
      BY <2>5 DEF FrontendDone, Finish
    <3>3. \A u \in Tasks : Len(Chain[u]) \in Nat
      BY DispatcherAssumption
    <3>4. stage' \in [Tasks -> Nat] /\ \A u \in Tasks : stage'[u] \in 1 .. Len(Chain[u])
      <4>1. CASE stage' = stage
        BY <1>0, <4>1
      <4>2. CASE stage[t] # Len(Chain[t]) /\ stage' = [stage EXCEPT ![t] = @ + 1]
        <5>1. stage[t] \in Nat /\ stage[t] + 1 \in 1 .. Len(Chain[t])
          BY <1>0, <3>3, <4>2
        <5>2. \A u \in Tasks : stage'[u] = IF u = t THEN stage[t] + 1 ELSE stage[u]
          BY <1>0, <4>2
        <5>3. stage' \in [Tasks -> Nat]
          BY <1>0, <4>2, <5>1
        <5>4. QED
          BY <1>0, <5>1, <5>2, <5>3
      <4>3. QED
        BY <3>1, <4>1, <4>2 DEF WorkerDone, Conclude
    <3>5. pc' \in [Tasks -> BuildPc] /\ pending' \in [Tasks -> Status]
      BY <1>0, <3>1 DEF WorkerDone, Conclude, SetStatus
    <3>6. QED
      BY <1>0, <3>2, <3>4, <3>5
  <2>6. CASE \/ Spawn(t) \/ Register(t) \/ Harvest(t) \/ Unlock(t) \/ Report(t)
             \/ DecideCleanup(t) \/ Reclaim(t)
    BY <1>0, <2>6 DEF Spawn, Register, Harvest, Unlock, Report, DecideCleanup,
                      Reclaim, AfterReport
  <2>7. CASE Commit(t)
    BY <1>0, <2>7 DEF Commit, AfterCommit
  <2>9. CASE CheckCancelled(t)
    BY <1>0, <2>9, Resumes DEF CheckCancelled
  <2>8. QED
    BY <1>1, <2>1, <2>2, <2>3, <2>4, <2>5, <2>6, <2>7, <2>9 DEF BuildStep
<1>2. ASSUME NEW t \in Tasks, FaultStep(t) PROVE BuildTypeOK'
  <2>1. Fault /\ UNCHANGED <<stage, workspace, slotVars>>
    BY <1>2 DEF FaultStep, InsertFails, CommitFails, VerdictFails, RescueFails,
                ReportFails
  <2>2. faults' \in Nat /\ crashes' \in Nat
    BY <1>0, <2>1 DEF Fault
  <2>3. pc' \in [Tasks -> BuildPc]
    BY <1>0, <1>2 DEF FaultStep, InsertFails, CommitFails, VerdictFails,
                      RescueFails, ReportFails, SetStatus, AfterReport
  <2>4. pending' \in [Tasks -> Status]
    BY <1>0, <1>2 DEF FaultStep, InsertFails, CommitFails, VerdictFails,
                      RescueFails, ReportFails, SetStatus
  <2>5. QED
    BY <1>0, <2>1, <2>2, <2>3, <2>4
<1>3. ASSUME NEW t \in Tasks, Submit(t) PROVE BuildTypeOK'
  BY <1>0, <1>3 DEF Submit
<1>4. ASSUME ManagerOnly \/ UNCHANGED vars PROVE BuildTypeOK'
  BY <1>0, <1>4 DEF ManagerOnly, vars, buildVars
<1>5. ASSUME NEW r \in Requests, RequestCommitFails(r),
             UNCHANGED <<lockVars, buildVars, slotVars>>
      PROVE  BuildTypeOK'
  BY <1>0, <1>5 DEF RequestCommitFails, Fault, buildVars
<1>6. ASSUME Restart PROVE BuildTypeOK'
  <2>1. \A u \in Tasks : 1 \in 1 .. Len(Chain[u])
    BY DispatcherAssumption
  <2>2. QED
    BY <1>0, <1>6, <2>1 DEF Restart
<1>7. QED
  BY <1>1, <1>2, <1>3, <1>4, <1>5, <1>6 DEF Next
--------------------------------------------------------------------------------

LEMMA IInvNext == ASSUME IInv, [Next]_vars PROVE IInv'
<1>1. TypeOK'
  BY ManagerTypeNext, LockInvNext, BuildTypeNext, SlotsNext
     DEF TypeOK, BuildTypeOK, LockInv
<1>2. QED
  BY <1>1, LockInvNext, FreshNext, RequestsNamedNext, CancelTakenNext,
     LockMatchesNext, QueueLinesNext, FinishedScheduledNext, LostRowsClosedNext,
     SlotsNext DEF IInv

LEMMA Invariant == SafetySpec => []IInv
BY IInvInit, IInvNext, PTL DEF SafetySpec

(* Every variable of the composed system has its type at every step.       *)
THEOREM BuildTypeCorrect == SafetySpec => []TypeOK
<1>1. IInv => TypeOK
  BY DEF IInv
<1>2. QED
  BY <1>1, Invariant, PTL

(* No slot is lost or handed out twice, and no build waits beside a free   *)
(* one.                                                                    *)
THEOREM BuildSlotAccounting == SafetySpec => []SlotAccounting
<1>1. IInv => SlotAccounting
  BY DEF IInv, Slots
<1>2. QED
  BY <1>1, Invariant, PTL

(* The workers of two builds are never in one project directory.           *)
THEOREM BuildWorkersDisjoint == SafetySpec => []WorkersDisjoint
<1>1. IInv => WorkersDisjoint
  BY InvMutualExclusion
     DEF IInv, LockMatches, MutualExclusion, WorkersDisjoint
<1>2. QED
  BY <1>1, Invariant, PTL

(* A cancellation that was answered with 200 stays.                        *)
THEOREM BuildCancelAnswerTruthful == SafetySpec => []CancelAnswerTruthful
<1>1. IInv => CancelAnswerTruthful
  BY DEF IInv, CancelTaken, CancelAnswerTruthful
<1>2. QED
  BY <1>1, Invariant, PTL

(* A finished task has its eviction timer.                                 *)
THEOREM BuildFinishedScheduled == SafetySpec => []FinishedScheduled
<1>1. IInv => FinishedScheduled
  BY DEF IInv
<1>2. QED
  BY <1>1, Invariant, PTL

(* What a crash took down is closed in the history.                        *)
THEOREM BuildLostRowsClosed == SafetySpec => []LostRowsClosed
<1>1. IInv => LostRowsClosed
  BY DEF IInv
<1>2. QED
  BY <1>1, Invariant, PTL

(* Who has been cancelled can only be forgotten, whatever worker, error    *)
(* handler or second request writes after.                                 *)
THEOREM BuildCancelledIsFinal == SafetySpec => CancelledIsFinal
<1> DEFINE Kept(t) == status[t] = "cancelled" => status'[t] \in {"cancelled", "absent"}
<1>1. ASSUME IInv, [Next]_vars, NEW t \in Tasks PROVE Kept(t)
  <2> USE DEF memVars, managerVars, At
  <2>0. TypeOK /\ Fresh /\ status \in [Tasks -> Status \cup {"absent"}]
    BY <1>1 DEF IInv, TypeOK, ManagerTypeOK
  <2>1. ASSUME NEW u \in Tasks, NEW v \in {"running", "completed", "failed", "cancelled"},
               Accepts(u, v), Assign(u, v)
        PROVE  Kept(t)
    BY <2>0, <2>1 DEF Accepts, Assign
  <2>2. ASSUME NEW u \in Tasks, Forget(u) PROVE Kept(t)
    BY <2>0, <2>2 DEF Forget
  <2>3. ASSUME NEW u \in Tasks, BuildStep(u) \/ FaultStep(u) PROVE Kept(t)
    BY <2>1, <2>3
       DEF BuildStep, InsertRow, TakeSlot, WaitForSlot, CheckCancelled,
           Dispatch, Prepared, PrepareFails, Commit, EnterProject, FrontendDone,
           WorkerFails, Spawn, Register, Harvest, Finish, Unlock, Report,
           DecideCleanup, Reclaim, Release, StartRunning, Conclude, WorkerDone,
           SetStatus, FaultStep, InsertFails, CommitFails, VerdictFails,
           RescueFails, ReportFails
  <2>4. ASSUME NEW u \in Tasks, Submit(u) PROVE Kept(t)
    BY <2>0, <2>4 DEF Submit, CreateTask, Fresh
  <2>5. ASSUME NEW u \in Tasks, Evict(u) \/ ProcessExit(u) PROVE Kept(t)
    BY <2>2, <2>5 DEF Evict, ProcessExit
  <2>6. ASSUME NEW r \in Requests, NewDelete(r) PROVE Kept(t)
    BY <2>1, <2>2, <2>6 DEF NewDelete, Delete, CancelLive, CancelIdle,
                            DeleteFinished, NotFound, MarkCancelled
  <2>7. ASSUME NEW r \in Requests, Answer(r) \/ RequestCommitFails(r) PROVE Kept(t)
    <3>1. reqTask[r] \in Tasks
      BY <1>1, <2>7 DEF IInv, RequestsNamed, Answer, Kill, CancelStopped,
                        CommitCancel, RequestCommitFails, CommitCancelFails
    <3>2. QED
      BY <2>1, <2>7, <3>1
         DEF Answer, Kill, CancelStopped, CommitCancel, MarkCancelled,
             RequestCommitFails, CommitCancelFails
  <2>8. ASSUME Restart \/ UNCHANGED vars PROVE Kept(t)
    BY <2>0, <2>8 DEF Restart, RestartManager, vars
  <2>9. QED
    BY <1>1, <2>3, <2>4, <2>5, <2>6, <2>7, <2>8 DEF Next
<1>2. IInv /\ [Next]_vars => [\A t \in Tasks : Kept(t)]_vars
  BY <1>1
<1>3. QED
  BY <1>2, Invariant, PTL DEF SafetySpec, CancelledIsFinal
================================================================================
