-------------------------- MODULE BuildHistory_proofs --------------------------
(***************************************************************************)
(* What a build leaves behind, for any number of tasks, requests, slots,   *)
(* crashes and failing commits: processes that can be found, the files of  *)
(* failed builds, a history that tells the verdict.                        *)
(***************************************************************************)
EXTENDS BuildDispatcher_proofs

(* A process lives in the two steps between its fork and its harvest.      *)
LivePlace == \A t \in Tasks : process[t] \in Alive => pc[t] \in {"spawned", "compile"}

(* A handler waits for a process that lives.                               *)
StoppingLive ==
    \A r \in Requests : reqPc[r] = "stopping" => process[reqTask[r]] \in Alive

Reach == LivePlace /\ StoppingLive /\ ProcessReachable

LEMMA ReachInit == ASSUME Init PROVE Reach
BY DEF Init, ManagerInit, Reach, LivePlace, StoppingLive, ProcessReachable, Alive

(* A step that starts and ends no process, answers no wait and brings no   *)
(* task into memory.                                                       *)
Quiet ==
    /\ UNCHANGED <<process, handle>>
    /\ \A u \in Tasks :
          /\ pc[u] \in {"spawned", "compile"} => pc'[u] = pc[u]
          /\ status'[u] # "absent" => status[u] # "absent"

LEMMA ReachQuiet == ASSUME Reach, Quiet, UNCHANGED reqVars PROVE Reach'
BY DEF Reach, Quiet, LivePlace, StoppingLive, ProcessReachable, At, reqVars

(* update_task enters no task into memory.                                 *)
LEMMA AssignKnown ==
    ASSUME TypeOK, NEW t \in Tasks, NEW v \in Terminal \cup {"running"},
           Accepts(t, v) /\ Assign(t, v)
    PROVE  handle' = handle /\ \A u \in Tasks : status'[u] # "absent" => status[u] # "absent"
BY DEF Accepts, Assign, TypeOK, ManagerTypeOK

LEMMA SetStatusQuiet ==
    ASSUME TypeOK, NEW t \in Tasks, NEW v \in {"running", "completed", "failed"},
           NEW commit, NEW next, SetStatus(t, v, commit, next)
    PROVE  /\ handle' = handle
           /\ \A u \in Tasks : u # t => pc'[u] = pc[u]
           /\ \A u \in Tasks : status'[u] # "absent" => status[u] # "absent"
<1>1. CASE Accepts(t, v)
  BY <1>1, AssignKnown DEF SetStatus, Goto, Terminal, TypeOK
<1>2. CASE ~Accepts(t, v)
  BY <1>2 DEF SetStatus, Goto, memVars, TypeOK
<1>3. QED
  BY <1>1, <1>2

LEMMA WorkerDoneQuiet ==
    ASSUME TypeOK, NEW t \in Tasks, WorkerDone(t) \/ Conclude(t, "failed")
    PROVE  /\ handle' = handle
           /\ \A u \in Tasks : u # t => pc'[u] = pc[u]
           /\ \A u \in Tasks : status'[u] # "absent" => status[u] # "absent"
<1>1. CASE Conclude(t, "completed") \/ Conclude(t, "failed")
  BY <1>1, SetStatusQuiet DEF Conclude
<1>2. CASE ~Conclude(t, "completed") /\ ~Conclude(t, "failed")
  BY <1>2 DEF WorkerDone, Goto, memVars, TypeOK
<1>3. QED
  BY <1>1, <1>2

LEMMA ReachNext == ASSUME IInv, Reach, [Next]_vars PROVE Reach'
<1>0. Reach /\ TypeOK /\ Fresh /\ RequestsNamed /\ QueueLines
  BY DEF IInv
<1>a. /\ pc \in [Tasks -> BuildPc] /\ process \in [Tasks -> Process] /\ handle \subseteq Tasks
      /\ status \in [Tasks -> Status \cup {"absent"}]
  BY <1>0 DEF TypeOK, ManagerTypeOK
<1>1. ASSUME NEW t \in Tasks, BuildStep(t) PROVE Reach'
  <2> USE DEF Quiet, At, Goto, memVars, managerVars
  <2>1. CASE \/ InsertRow(t) \/ TakeSlot(t) \/ WaitForSlot(t)
             \/ EnterProject(t) \/ Unlock(t) \/ Report(t) \/ DecideCleanup(t) \/ Reclaim(t)
    <3>1. Quiet /\ UNCHANGED reqVars
      BY <1>a, <2>1 DEF InsertRow, TakeSlot, WaitForSlot, EnterProject,
                        Unlock, Report, DecideCleanup, Reclaim
    <3>2. QED
      BY <1>0, <3>1, ReachQuiet
  <2>2. CASE Release(t)
    <3>1. Quiet /\ UNCHANGED reqVars
      BY <1>0, <1>a, <2>2, HeadLines DEF Release
    <3>2. QED
      BY <1>0, <3>1, ReachQuiet
  <2>3. CASE Dispatch(t) \/ PrepareFails(t) \/ Commit(t)
    <3>1. Quiet /\ UNCHANGED reqVars
      BY <1>0, <1>a, <2>3, SetStatusQuiet
         DEF Dispatch, PrepareFails, StartRunning, Commit, AfterCommit
    <3>2. QED
      BY <1>0, <3>1, ReachQuiet
  <2>4. CASE Prepared(t)
    <3>1. Quiet /\ UNCHANGED reqVars
      BY <1>0, <1>a, <2>4, SetStatusQuiet DEF Prepared, StartRunning
    <3>2. QED
      BY <1>0, <3>1, ReachQuiet
  <2>5. CASE FrontendDone(t) \/ WorkerFails(t)
    <3>1. Quiet /\ UNCHANGED reqVars
      BY <1>0, <1>a, <2>5, WorkerDoneQuiet DEF FrontendDone, WorkerFails
    <3>2. QED
      BY <1>0, <3>1, ReachQuiet
  <2>6. CASE Spawn(t)
    BY <1>0, <1>a, <2>6
       DEF Spawn, Reach, LivePlace, StoppingLive, ProcessReachable, Alive, reqVars
  <2>7. CASE Register(t)
    BY <1>0, <1>a, <2>7
       DEF Register, Reach, LivePlace, StoppingLive, ProcessReachable, reqVars
  <2>8. CASE Harvest(t)
    BY <1>0, <1>a, <2>8
       DEF Harvest, Reach, LivePlace, StoppingLive, ProcessReachable, Alive, reqVars
  <2>9. CASE Finish(t)
    <3>1. /\ handle' = handle /\ UNCHANGED reqVars
          /\ \A u \in Tasks : u # t => pc'[u] = pc[u]
          /\ \A u \in Tasks : status'[u] # "absent" => status[u] # "absent"
          /\ pc[t] = "finish" /\ process' = [process EXCEPT ![t] = "none"]
      BY <1>0, <2>9, WorkerDoneQuiet DEF Finish
    <3>2. process[t] \notin Alive
      BY <1>0, <3>1 DEF Reach, LivePlace
    <3>3. QED
      BY <1>0, <1>a, <3>1, <3>2
         DEF Reach, LivePlace, StoppingLive, ProcessReachable, Alive, reqVars
  <2>11. CASE CheckCancelled(t)
    <3>1. UNCHANGED <<process, handle, status, reqVars>>
      BY <2>11 DEF CheckCancelled
    <3>2. \A u \in Tasks : pc[u] \in {"spawned", "compile"} => pc'[u] = pc[u]
      BY <1>0, <2>11, Resumes
    <3>3. QED
      BY <1>0, <3>1, <3>2, ReachQuiet
  <2>10. QED
    BY <1>1, <2>1, <2>2, <2>3, <2>4, <2>5, <2>6, <2>7, <2>8, <2>9, <2>11 DEF BuildStep
<1>2. ASSUME NEW t \in Tasks, FaultStep(t) PROVE Reach'
  <2>1. Quiet /\ UNCHANGED reqVars
    BY <1>0, <1>a, <1>2, SetStatusQuiet
       DEF FaultStep, InsertFails, CommitFails, VerdictFails, RescueFails,
           ReportFails, Quiet, At, Goto, memVars, managerVars
  <2>2. QED
    BY <1>0, <2>1, ReachQuiet
<1>3. ASSUME NEW t \in Tasks, Submit(t) PROVE Reach'
  BY <1>0, <1>a, <1>3
     DEF Submit, CreateTask, Fresh, Reach, LivePlace, StoppingLive, ProcessReachable,
         reqVars, At, Goto
<1>4. ASSUME NEW t \in Tasks, ProcessExit(t) /\ ManagerOnly PROVE Reach'
  <2>1. /\ UNCHANGED <<pc, reqTask, status, handle>>
        /\ \A u \in Tasks : process'[u] \in Alive => process[u] \in Alive
        /\ \A u \in Tasks : u # t => process'[u] = process[u]
    BY <1>a, <1>4 DEF ProcessExit, ManagerOnly, buildVars, memVars, Alive
  <2>2. \A r \in Requests :
           reqPc'[r] = "stopping" => reqPc[r] = "stopping" /\ reqTask[r] # t
    BY <1>4 DEF ProcessExit
  <2>3. \A r \in Requests : reqPc[r] = "stopping" => reqTask[r] \in Tasks
    BY <1>0 DEF RequestsNamed
  <2>4. QED
    BY <1>0, <2>1, <2>2, <2>3 DEF Reach, LivePlace, StoppingLive, ProcessReachable, At
<1>5. ASSUME NEW t \in Tasks, Evict(t) /\ ManagerOnly PROVE Reach'
  BY <1>0, <1>a, <1>5
     DEF Evict, Forget, ManagerOnly, buildVars, reqVars, Reach, LivePlace, StoppingLive,
         ProcessReachable, At
<1>6. ASSUME NEW r \in Requests, NewDelete(r) /\ ManagerOnly PROVE Reach'
  <2>1. PICK t \in Tasks : Delete(r, t)
    BY <1>6 DEF NewDelete
  <2>2. UNCHANGED pc /\ reqPc \in [Requests -> RequestPc] /\ reqTask' = [reqTask EXCEPT ![r] = t]
    BY <1>0, <1>6, <2>1 DEF ManagerOnly, buildVars, Delete, TypeOK, ManagerTypeOK
  <2>3. \A u \in Tasks : process'[u] \in Alive <=> process[u] \in Alive
    BY <1>a, <2>1 DEF Delete, CancelLive, CancelIdle, DeleteFinished, NotFound, Terminate, Alive
  <2>4. \A u \in Tasks : /\ status'[u] # "absent" => status[u] # "absent"
                         /\ u \in handle /\ status'[u] # "absent" => u \in handle'
    BY <1>0, <1>a, <2>1, AssignKnown
       DEF Delete, CancelLive, CancelIdle, DeleteFinished, NotFound, MarkCancelled, Forget,
           memVars, Terminal
  <2>5. reqPc' = [reqPc EXCEPT ![r] = reqPc'[r]]
    BY <2>1, <2>2 DEF Delete, CancelLive, CancelIdle, DeleteFinished, NotFound, MarkCancelled
  <2>6. reqPc'[r] = "stopping" => process'[t] \in Alive
    BY <2>1, <2>2, <2>3 DEF Delete, CancelLive, CancelIdle, DeleteFinished, NotFound, MarkCancelled
  <2>7. \A q \in Requests : reqPc[q] = "stopping" => reqTask[q] \in Tasks
    BY <1>0 DEF RequestsNamed
  <2>8. reqTask \in [Requests -> Tasks \cup {Nobody}]
    BY <1>0 DEF TypeOK, ManagerTypeOK
  <2>9. StoppingLive'
    BY <1>0, <2>2, <2>3, <2>5, <2>6, <2>7, <2>8 DEF Reach, StoppingLive
  <2>10. QED
    BY <1>0, <2>2, <2>3, <2>4, <2>9 DEF Reach, LivePlace, ProcessReachable, At
<1>7. ASSUME NEW r \in Requests, Answer(r) /\ ManagerOnly PROVE Reach'
  <2>1. /\ UNCHANGED <<pc, reqTask>> /\ reqPc[r] # "idle" /\ reqTask[r] \in Tasks
        /\ reqPc \in [Requests -> RequestPc]
    BY <1>0, <1>7 DEF ManagerOnly, buildVars, Answer, Kill, CancelStopped, CommitCancel,
                      RequestsNamed, TypeOK, ManagerTypeOK
  <2>2. \A u \in Tasks : process'[u] \in Alive <=> process[u] \in Alive
    BY <1>0, <1>a, <1>7, <2>1
       DEF Answer, Kill, CancelStopped, CommitCancel, Reach, StoppingLive, Alive
  <2>3. handle' = handle /\ \A u \in Tasks : status'[u] # "absent" => status[u] # "absent"
    BY <1>0, <1>7, <2>1, AssignKnown
       DEF Answer, Kill, CancelStopped, CommitCancel, MarkCancelled, memVars, Terminal
  <2>4. \A q \in Requests : reqPc'[q] = "stopping" => reqPc[q] = "stopping"
    BY <1>7, <2>1 DEF Answer, Kill, CancelStopped, CommitCancel, MarkCancelled
  <2>5. \A q \in Requests : reqPc[q] = "stopping" => reqTask[q] \in Tasks
    BY <1>0 DEF RequestsNamed
  <2>6. QED
    BY <1>0, <2>1, <2>2, <2>3, <2>4, <2>5
       DEF Reach, LivePlace, StoppingLive, ProcessReachable, At
<1>8. ASSUME NEW r \in Requests, RequestCommitFails(r),
             UNCHANGED <<lockVars, buildVars, slotVars>>
      PROVE  Reach'
  BY <1>0, <1>8
     DEF RequestCommitFails, CommitCancelFails, buildVars, memVars, Reach, LivePlace,
         StoppingLive, ProcessReachable, At, TypeOK, ManagerTypeOK
<1>9. ASSUME Restart PROVE Reach'
  <2>1. \A t \in Tasks : process'[t] = "none"
    BY <1>9 DEF Restart, RestartManager
  <2>2. \A r \in Requests : reqPc'[r] # "stopping"
    BY <1>9 DEF Restart, RestartManager
  <2>3. QED
    BY <2>1, <2>2 DEF Reach, LivePlace, StoppingLive, ProcessReachable, Alive
<1>10. ASSUME UNCHANGED vars PROVE Reach'
  BY <1>0, <1>10
     DEF vars, buildVars, managerVars, memVars, reqVars, Reach, LivePlace, StoppingLive,
         ProcessReachable, At
<1>11. QED
  BY <1>1, <1>2, <1>3, <1>4, <1>5, <1>6, <1>7, <1>8, <1>9, <1>10 DEF Next

(* A live process of a task the server knows can be found by cancel_task,  *)
(* but for the moment between fork and set_process.                        *)
THEOREM BuildProcessReachable == SafetySpec => []ProcessReachable
<1>1. Init => Reach
  BY ReachInit
<1>2. IInv /\ Reach /\ [Next]_vars => Reach'
  BY ReachNext
<1>3. Reach => ProcessReachable
  BY DEF Reach
<1>4. QED
  BY <1>1, <1>2, <1>3, Invariant, PTL DEF SafetySpec
--------------------------------------------------------------------------------
(* What a step of one build leaves alone in another.                       *)
Untouched(u) ==
    /\ status'[u] = status[u] /\ hist'[u] = hist[u]
    /\ pending'[u] = pending[u] /\ workspace'[u] = workspace[u]
    /\ (u \in evicting' <=> u \in evicting)
    /\ (u \in reported' <=> u \in reported)
    /\ pc'[u] = pc[u] \/ (pc[u] = "lining" /\ pc'[u] = "admitted")

Maps ==
    /\ pc \in [Tasks -> BuildPc] /\ pending \in [Tasks -> Status]
    /\ workspace \in [Tasks -> Workspace]
    /\ status \in [Tasks -> Status \cup {"absent"}]
    /\ hist \in [Tasks -> Status \cup {"absent"}]

LEMMA MapsOK == ASSUME TypeOK PROVE Maps
BY DEF TypeOK, ManagerTypeOK, Maps

LEMMA SetStatusElsewhere ==
    ASSUME Maps, NEW t \in Tasks, NEW u \in Tasks, u # t, NEW v, NEW commit, NEW next,
           SetStatus(t, v, commit, next)
    PROVE  /\ status'[u] = status[u] /\ pending'[u] = pending[u] /\ pc'[u] = pc[u]
           /\ (u \in evicting' <=> u \in evicting)
BY DEF SetStatus, Assign, Goto, memVars, Maps

LEMMA WorkerDoneElsewhere ==
    ASSUME Maps, NEW t \in Tasks, NEW u \in Tasks, u # t,
           WorkerDone(t) \/ Conclude(t, "failed")
    PROVE  /\ status'[u] = status[u] /\ pending'[u] = pending[u] /\ pc'[u] = pc[u]
           /\ (u \in evicting' <=> u \in evicting)
<1>1. CASE Conclude(t, "completed") \/ Conclude(t, "failed")
  BY <1>1, SetStatusElsewhere DEF Conclude
<1>2. CASE ~Conclude(t, "completed") /\ ~Conclude(t, "failed")
  BY <1>2 DEF WorkerDone, Goto, memVars, Maps
<1>3. QED
  BY <1>1, <1>2

LEMMA OthersUntouched ==
    ASSUME TypeOK, QueueLines, NEW t \in Tasks, NEW u \in Tasks, u # t,
           BuildStep(t) \/ FaultStep(t)
    PROVE  Untouched(u)
<1> USE DEF Untouched, Goto, At, memVars, dbVars, managerVars
<1>0. Maps
  BY MapsOK
<1>1. CASE \/ InsertRow(t) \/ TakeSlot(t) \/ WaitForSlot(t)
           \/ EnterProject(t) \/ Unlock(t) \/ Report(t) \/ DecideCleanup(t) \/ Reclaim(t)
  BY <1>0, <1>1 DEF InsertRow, TakeSlot, WaitForSlot, EnterProject,
                    Unlock, Report, DecideCleanup, Reclaim, Maps
<1>2. CASE Release(t)
  BY <1>0, <1>2, HeadLines DEF Release, Maps
<1>3. CASE Commit(t)
  BY <1>0, <1>3 DEF Commit, WriteRow, Maps
<1>4. CASE Dispatch(t) \/ PrepareFails(t) \/ Prepared(t)
  BY <1>0, <1>4, SetStatusElsewhere DEF Dispatch, PrepareFails, Prepared, StartRunning, Maps
<1>5. CASE FrontendDone(t) \/ WorkerFails(t) \/ Finish(t)
  BY <1>0, <1>5, WorkerDoneElsewhere DEF FrontendDone, WorkerFails, Finish
<1>6. CASE Spawn(t) \/ Register(t) \/ Harvest(t)
  BY <1>0, <1>6 DEF Spawn, Register, Harvest, Maps
<1>7. CASE InsertFails(t) \/ CommitFails(t) \/ RescueFails(t) \/ ReportFails(t)
  BY <1>0, <1>7 DEF InsertFails, CommitFails, RescueFails, ReportFails, Maps
<1>8. CASE VerdictFails(t)
  BY <1>0, <1>8, SetStatusElsewhere DEF VerdictFails
<1>10. CASE CheckCancelled(t)
  <2>1. UNCHANGED <<status, hist, pending, workspace, evicting, reported>>
    BY <1>10 DEF CheckCancelled
  <2>2. pc'[u] = pc[u] \/ (pc[u] = "lining" /\ pc'[u] = "admitted")
    BY <1>10, Resumes
  <2>3. QED
    BY <2>1, <2>2
<1>9. QED
  BY <1>1, <1>2, <1>3, <1>4, <1>5, <1>6, <1>7, <1>8, <1>10 DEF BuildStep, FaultStep
--------------------------------------------------------------------------------
(* A build past its insertion has a row.                                   *)
RowThere(t) == pc[t] \in {"none", "inserting", "ended", "lost"} \/ hist[t] # "absent"

(* A task is completed from the verdict on, and until the clean-up has     *)
(* looked at it its row says so too.                                       *)
CompletedLate(t) ==
    status[t] = "completed" =>
        /\ pc[t] \in {"committing_verdict", "unlock", "report", "cleanup",
                      "reclaiming", "releasing", "ended"}
        /\ At(t, "committing_verdict") => pending[t] = "completed"
        /\ pc[t] \in {"unlock", "report", "cleanup"} => hist[t] = "completed"

Unfailed(t) == hist[t] \in {"completed", "cancelled"}

(* Files go only after a verdict that no later write turns into a failure. *)
ReclaimedLate(t) ==
    /\ At(t, "reclaiming") => Unfailed(t)
    /\ workspace[t] \in {"output", "removed"}
         => pc[t] \in {"releasing", "ended", "lost"} /\ Unfailed(t)

Keep(t) == RowThere(t) /\ CompletedLate(t) /\ ReclaimedLate(t)

LEMMA KeepInit == ASSUME Init, NEW t \in Tasks PROVE Keep(t)
BY DEF Init, ManagerInit, Keep, RowThere, CompletedLate, ReclaimedLate, At

LEMMA KeepUntouched == ASSUME NEW u \in Tasks, Keep(u), Untouched(u) PROVE Keep(u)'
BY DEF Keep, RowThere, CompletedLate, ReclaimedLate, Unfailed, Untouched, At

LEMMA KeepNext == ASSUME IInv, NEW u \in Tasks, Keep(u), [Next]_vars PROVE Keep(u)'
<1> USE DEF Keep, RowThere, CompletedLate, ReclaimedLate, Unfailed, At, Goto,
            memVars, dbVars, managerVars
<1>0. TypeOK /\ Maps /\ Fresh /\ RequestsNamed /\ CancelTaken /\ QueueLines
  BY MapsOK DEF IInv
<1>1. ASSUME NEW t \in Tasks, t # u, BuildStep(t) \/ FaultStep(t) PROVE Keep(u)'
  BY <1>0, <1>1, OthersUntouched, KeepUntouched
<1>2. ASSUME BuildStep(u) PROVE Keep(u)'
  <2>1. CASE InsertRow(u) \/ TakeSlot(u) \/ WaitForSlot(u)
    BY <1>0, <2>1 DEF InsertRow, TakeSlot, WaitForSlot, AfterSlot, Maps
  <2>10. CASE CheckCancelled(u)
    <3>1. UNCHANGED <<status, hist, pending, workspace>>
      BY <2>10 DEF CheckCancelled
    <3>2. pc[u] = "admitted" /\ pc'[u] \in {"releasing", "preparing", "dispatching"}
      BY <1>0, <2>10, Resumes
    <3>3. QED
      BY <1>0, <3>1, <3>2
  <2>2. CASE EnterProject(u) \/ Unlock(u) \/ Report(u)
    BY <1>0, <2>2 DEF EnterProject, Unlock, Report, AfterReport, Maps
  <2>3. CASE DecideCleanup(u) \/ Reclaim(u)
    BY <1>0, <2>3 DEF DecideCleanup, Reclaim, Maps
  <2>4. CASE Release(u)
    <3>1. slotQueue # <<>> => Head(slotQueue) # u
      BY <1>0, <2>4, HeadLines DEF Release
    <3>2. pc'[u] = "ended"
      BY <1>0, <2>4, <3>1 DEF Release, Maps
    <3>3. QED
      BY <1>0, <2>4, <3>2 DEF Release
  <2>5. CASE Dispatch(u) \/ Prepared(u) \/ PrepareFails(u)
    BY <1>0, <2>5 DEF Dispatch, Prepared, PrepareFails, StartRunning, SetStatus, Accepts,
                      Assign, Maps
  <2>6. CASE Commit(u)
    <3>1. /\ \/ pc[u] = "committing_verdict" /\ pc'[u] = "unlock"
             \/ /\ pc[u] \in {"committing_start", "committing_clone_failure",
                              "committing_rescue"}
                /\ pc'[u] \in {"locking", "releasing", "unlock"}
          /\ UNCHANGED <<status, workspace>>
      BY <1>0, <2>6 DEF Commit, AfterCommit, Maps
    <3>2. hist[u] # "absent"
      BY <3>1
    <3>3. hist'[u] = pending[u]
      BY <1>0, <2>6, <3>2 DEF Commit, WriteRow, Maps
    <3>4. pending[u] # "absent"
      BY <1>0 DEF Maps, Status, Active, Terminal
    <3>5. QED
      BY <3>1, <3>3, <3>4
  <2>7. CASE FrontendDone(u) \/ WorkerFails(u) \/ Finish(u)
    <3>1. /\ UNCHANGED <<hist, workspace>> /\ pc[u] \in {"worker", "finish"}
          /\ WorkerDone(u) \/ Conclude(u, "failed")
      BY <2>7 DEF FrontendDone, WorkerFails, Finish
    <3>2. QED
      BY <1>0, <3>1 DEF WorkerDone, Conclude, SetStatus, Accepts, Assign, Maps
  <2>8. CASE Spawn(u) \/ Register(u) \/ Harvest(u)
    BY <1>0, <2>8 DEF Spawn, Register, Harvest, Maps
  <2>9. QED
    BY <1>2, <2>1, <2>2, <2>3, <2>4, <2>5, <2>6, <2>7, <2>8, <2>10 DEF BuildStep
<1>3. ASSUME FaultStep(u) PROVE Keep(u)'
  BY <1>0, <1>3
     DEF FaultStep, InsertFails, CommitFails, VerdictFails, RescueFails, ReportFails,
         AfterReport, SetStatus, Accepts, Assign, Maps
<1>4. ASSUME NEW t \in Tasks, Submit(t) PROVE Keep(u)'
  BY <1>0, <1>4 DEF Submit, CreateTask, Maps
<1>5. ASSUME NEW t \in Tasks, ProcessExit(t) \/ Evict(t), ManagerOnly PROVE Keep(u)'
  BY <1>0, <1>5 DEF ProcessExit, Evict, Forget, ManagerOnly, buildVars, Maps
<1>6. ASSUME NEW r \in Requests, NewDelete(r), ManagerOnly PROVE Keep(u)'
  BY <1>0, <1>6
     DEF NewDelete, Delete, CancelLive, CancelIdle, DeleteFinished, NotFound, MarkCancelled,
         Assign, Forget, ManagerOnly, buildVars, Maps
<1>7. ASSUME NEW r \in Requests, Answer(r), ManagerOnly PROVE Keep(u)'
  <2>1. reqTask[r] \in Tasks
    BY <1>0, <1>7 DEF RequestsNamed, Answer, Kill, CancelStopped, CommitCancel
  <2>2. CASE Kill(r) \/ CancelStopped(r)
    BY <1>0, <1>7, <2>1, <2>2
       DEF Kill, CancelStopped, MarkCancelled, Assign, ManagerOnly, buildVars, Maps
  <2>3. CASE CommitCancel(r)
    <3>1. status[reqTask[r]] # "completed"
      BY <1>0, <2>3 DEF CommitCancel, CancelTaken
    <3>2. QED
      BY <1>0, <1>7, <2>1, <2>3, <3>1
         DEF CommitCancel, WriteRow, ManagerOnly, buildVars, Maps
  <2>4. QED
    BY <1>7, <2>2, <2>3 DEF Answer
<1>8. ASSUME NEW r \in Requests, RequestCommitFails(r),
             UNCHANGED <<lockVars, buildVars, slotVars>>
      PROVE  Keep(u)'
  BY <1>8 DEF RequestCommitFails, CommitCancelFails, buildVars
<1>9. ASSUME Restart PROVE Keep(u)'
  BY <1>0, <1>9 DEF Restart, RestartManager, FailOrphans, Active, Maps
<1>10. ASSUME UNCHANGED vars PROVE Keep(u)'
  BY <1>10 DEF vars, buildVars
<1>11. QED
  BY <1>1, <1>2, <1>3, <1>4, <1>5, <1>6, <1>7, <1>8, <1>9, <1>10 DEF Next

(* The files of a build the history calls failed are all there: no         *)
(* clean-up that went by the status in memory has touched them.            *)
THEOREM BuildFailedKeepsWorkspace == SafetySpec => []FailedKeepsWorkspace
<1> DEFINE KInv == \A t \in Tasks : Keep(t)
<1>1. Init => KInv
  BY KeepInit
<1>2. IInv /\ KInv /\ [Next]_vars => KInv'
  BY KeepNext
<1>3. IInv /\ KInv => FailedKeepsWorkspace
  BY DEF IInv, TypeOK, Keep, ReclaimedLate, Unfailed, FailedKeepsWorkspace, Workspace
<1>4. QED
  BY <1>1, <1>2, <1>3, Invariant, PTL DEF SafetySpec
--------------------------------------------------------------------------------
(* The course of a build no DELETE names and no failing commit meets.      *)
Early == {"queued", "lining", "admitted", "preparing", "dispatching"}
Going == {"committing_start", "locking", "worker", "spawned", "compile", "finish"}
Told == {"unlock", "report", "cleanup", "reclaiming", "releasing", "ended"}
Verdict == {"completed", "failed"}

(* Memory moves with the build, and nothing forgets it on the way.         *)
MemoryKeepsUp(t) ==
    /\ pc[t] \in {"none", "inserting"} \cup Early \cup Going => t \notin evicting
    /\ pc[t] \in {"inserting"} \cup Early => status[t] = "pending"
    /\ pc[t] \in Going => status[t] = "running"

(* A verdict is in memory first, then in the row, and only one is given.   *)
VerdictKept(t) ==
    /\ At(t, "committing_clone_failure")
         => pending[t] = "failed" /\ status[t] \in {"failed", "absent"}
    /\ At(t, "committing_verdict")
         => pending[t] \in Verdict /\ status[t] \in {pending[t], "absent"}
    /\ ~At(t, "committing_rescue")
    /\ pc[t] \in Told => hist[t] \in Verdict /\ status[t] \in {hist[t], "absent"}

(* Only a failed clone has nothing to report.                              *)
CloneTold(t) ==
    /\ pc[t] \in {"none", "inserting", "committing_clone_failure"} \cup Early
         => workspace[t] = "absent"
    /\ pc[t] \in {"preparing", "committing_clone_failure"} => t \in GitTasks
    /\ pc[t] \in Told \ {"unlock", "report"}
         => (status[t] = "failed" /\ (t \in GitTasks => workspace[t] = "full")
               => t \in reported)

Course(t) == MemoryKeepsUp(t) /\ VerdictKept(t) /\ CloneTold(t)

IdleNobody == \A r \in Requests : reqPc[r] = "idle" => reqTask[r] = Nobody

HistInv ==
    /\ IdleNobody
    /\ \A t \in Tasks : Keep(t) /\ (Undisturbed(t) => Course(t))

LEMMA HistInit == ASSUME Init PROVE HistInv
<1>1. IdleNobody
  BY DEF Init, ManagerInit, IdleNobody
<1>2. ASSUME NEW t \in Tasks PROVE Keep(t) /\ Course(t)
  BY <1>2, KeepInit
     DEF Init, ManagerInit, Course, MemoryKeepsUp, VerdictKept, CloneTold, At,
         Early, Going, Told
<1>3. QED
  BY <1>1, <1>2 DEF HistInv

LEMMA CourseUntouched == ASSUME NEW u \in Tasks, Course(u), Untouched(u) PROVE Course(u)'
BY DEF Course, MemoryKeepsUp, VerdictKept, CloneTold, Untouched, At, Early, Going, Told

LEMMA IdleNobodyNext == ASSUME IInv, IdleNobody, [Next]_vars PROVE IdleNobody'
<1> USE DEF IdleNobody
<1>0. TypeOK
  BY DEF IInv
<1>1. ASSUME NEW t \in Tasks, Submit(t) \/ BuildStep(t) \/ FaultStep(t) PROVE UNCHANGED reqVars
  BY <1>1
     DEF Submit, BuildStep, FaultStep, managerVars, InsertRow, TakeSlot, WaitForSlot,
         CheckCancelled, Dispatch, Prepared, PrepareFails, Commit, EnterProject, FrontendDone,
         WorkerFails, Spawn, Register, Harvest, Finish, Unlock, Report, DecideCleanup, Reclaim,
         Release, InsertFails, CommitFails, VerdictFails, RescueFails, ReportFails
<1>2. ASSUME NEW t \in Tasks, ProcessExit(t) \/ Evict(t) PROVE IdleNobody'
  BY <1>0, <1>2 DEF ProcessExit, Evict, reqVars, TypeOK, ManagerTypeOK
<1>3. ASSUME NEW r \in Requests, NewDelete(r) PROVE IdleNobody'
  BY <1>0, <1>3
     DEF NewDelete, Delete, CancelLive, CancelIdle, DeleteFinished, NotFound, MarkCancelled,
         TypeOK, ManagerTypeOK
<1>4. ASSUME NEW r \in Requests, Answer(r) \/ CommitCancelFails(r) PROVE IdleNobody'
  BY <1>0, <1>4
     DEF Answer, Kill, CancelStopped, CommitCancel, CommitCancelFails, MarkCancelled,
         TypeOK, ManagerTypeOK
<1>5. ASSUME Restart PROVE IdleNobody'
  BY <1>0, <1>5 DEF Restart, RestartManager, TypeOK, ManagerTypeOK
<1>6. ASSUME UNCHANGED vars PROVE UNCHANGED reqVars
  BY <1>6 DEF vars, managerVars
<1>7. ASSUME UNCHANGED reqVars PROVE IdleNobody'
  BY <1>7 DEF reqVars
<1>8. QED
  BY <1>1, <1>2, <1>3, <1>4, <1>5, <1>6, <1>7 DEF Next, RequestCommitFails

(* A step after which no more requests have got one of these two answers.  *)
AnswersNone ==
    /\ UNCHANGED <<faults, reqTask>>
    /\ \A r \in Requests :
          reqPc'[r] \in {"deleted", "error"} => reqPc[r] \in {"deleted", "error"}

(* A build that is undisturbed after a step was so before it.              *)
LEMMA UndisturbedBefore ==
    ASSUME IInv, IdleNobody, NEW u \in Tasks, [Next]_vars, Undisturbed(u)'
    PROVE  Undisturbed(u)
<1> USE DEF Undisturbed, AnswersNone
<1>0. TypeOK /\ u # Nobody
  BY RequestAssumption DEF IInv
<1>1. ASSUME NEW t \in Tasks, Submit(t) \/ BuildStep(t)
      PROVE  UNCHANGED <<faults, reqTask, reqPc>>
  BY <1>1
     DEF Submit, BuildStep, managerVars, reqVars, boundVars, InsertRow, TakeSlot, WaitForSlot,
         CheckCancelled, Dispatch, Prepared, PrepareFails, Commit, EnterProject, FrontendDone,
         WorkerFails, Spawn, Register, Harvest, Finish, Unlock, Report, DecideCleanup, Reclaim,
         Release
<1>2. Fault => faults' # 0
  BY <1>0 DEF Fault, TypeOK
<1>3. ASSUME NEW t \in Tasks, FaultStep(t) PROVE Fault
  BY <1>3
     DEF FaultStep, InsertFails, CommitFails, VerdictFails, RescueFails, ReportFails
<1>4. ASSUME NEW t \in Tasks, ProcessExit(t) \/ Evict(t), ManagerOnly
      PROVE  AnswersNone
  BY <1>0, <1>4 DEF ProcessExit, Evict, reqVars, ManagerOnly, boundVars, TypeOK, ManagerTypeOK
<1>5. ASSUME NEW r \in Requests, NewDelete(r), ManagerOnly PROVE Undisturbed(u)
  <2>1. /\ faults' = faults /\ reqTask[r] = Nobody
        /\ \A q \in Requests : q # r => reqTask'[q] = reqTask[q] /\ reqPc'[q] = reqPc[q]
    BY <1>0, <1>5
       DEF NewDelete, Delete, CancelLive, CancelIdle, DeleteFinished, NotFound, MarkCancelled,
           IdleNobody, ManagerOnly, boundVars, TypeOK, ManagerTypeOK
  <2>2. QED
    BY <1>0, <2>1
<1>6. ASSUME NEW r \in Requests, Answer(r), ManagerOnly PROVE AnswersNone
  BY <1>0, <1>6 DEF Answer, Kill, CancelStopped, CommitCancel, MarkCancelled, ManagerOnly,
                    boundVars, TypeOK, ManagerTypeOK
<1>7. ASSUME Restart PROVE AnswersNone
  BY <1>0, <1>7 DEF Restart, RestartManager, TypeOK, ManagerTypeOK
<1>8. ASSUME UNCHANGED vars PROVE UNCHANGED <<faults, reqTask, reqPc>>
  BY <1>8 DEF vars, managerVars, reqVars, boundVars
<1>9. QED
  BY <1>1, <1>2, <1>3, <1>4, <1>5, <1>6, <1>7, <1>8 DEF Next, RequestCommitFails

(* The build's own steps.                                                  *)
LEMMA CourseOwn ==
    ASSUME IInv, NEW u \in Tasks, Keep(u), Course(u), BuildStep(u)
    PROVE  Course(u)'
<1> USE DEF Course, MemoryKeepsUp, VerdictKept, CloneTold, At, Goto, Early, Going, Told,
            Verdict, memVars, dbVars, managerVars
<1>0. TypeOK /\ Maps /\ QueueLines
  BY MapsOK DEF IInv
<1>1. CASE InsertRow(u) \/ TakeSlot(u) \/ WaitForSlot(u)
  BY <1>0, <1>1 DEF InsertRow, TakeSlot, WaitForSlot, AfterSlot, Stopped, Maps
<1>12. CASE CheckCancelled(u)
  <2>1. UNCHANGED <<status, hist, pending, workspace, evicting, reported>>
    BY <1>12 DEF CheckCancelled
  <2>2. pc[u] = "admitted" /\ pc'[u] = AfterSlot(u)
    BY <1>0, <1>12, Resumes
  <2>3. QED
    BY <1>0, <2>1, <2>2 DEF AfterSlot, Stopped, Maps
<1>2. CASE EnterProject(u) \/ Unlock(u)
  BY <1>0, <1>2 DEF EnterProject, Unlock, Maps
<1>3. CASE Report(u)
  BY <1>0, <1>3 DEF Report, AfterReport, Maps
<1>4. CASE DecideCleanup(u) \/ Reclaim(u)
  BY <1>0, <1>4 DEF DecideCleanup, Reclaim, Maps
<1>5. CASE Release(u)
  <2>1. slotQueue # <<>> => Head(slotQueue) # u
    BY <1>0, <1>5, HeadLines DEF Release
  <2>2. pc'[u] = "ended"
    BY <1>0, <1>5, <2>1 DEF Release, Maps
  <2>3. QED
    BY <1>0, <1>5, <2>2 DEF Release
<1>6. CASE Dispatch(u) \/ Prepared(u)
  BY <1>0, <1>6 DEF Dispatch, Prepared, StartRunning, Stopped, SetStatus, Accepts, Assign,
                    Terminal, Maps
<1>7. CASE PrepareFails(u)
  BY <1>0, <1>7 DEF PrepareFails, SetStatus, Accepts, Assign, Terminal, Maps
<1>8. CASE Commit(u)
  BY <1>0, <1>8 DEF Commit, AfterCommit, WriteRow, Keep, RowThere, Maps
<1>9. CASE FrontendDone(u) \/ WorkerFails(u) \/ Finish(u)
  <2>1. /\ UNCHANGED <<hist, reported, workspace>> /\ pc[u] \in {"worker", "finish"}
        /\ WorkerDone(u) \/ Conclude(u, "failed")
    BY <1>9 DEF FrontendDone, WorkerFails, Finish
  <2>2. QED
    BY <1>0, <2>1 DEF WorkerDone, Conclude, SetStatus, Accepts, Assign, Maps
<1>10. CASE Spawn(u) \/ Register(u) \/ Harvest(u)
  BY <1>0, <1>10 DEF Spawn, Register, Harvest, Maps
<1>11. QED
  BY <1>1, <1>2, <1>3, <1>4, <1>5, <1>6, <1>7, <1>8, <1>9, <1>10, <1>12 DEF BuildStep

(* The steps of everyone else.                                             *)
LEMMA CourseNext ==
    ASSUME IInv, IdleNobody, NEW u \in Tasks, Keep(u), Undisturbed(u) => Course(u),
           [Next]_vars, Undisturbed(u)'
    PROVE  Course(u)'
<1> USE DEF Course, MemoryKeepsUp, VerdictKept, CloneTold, At, Goto, Early, Going, Told,
            Verdict, memVars, dbVars, managerVars
<1>0. TypeOK /\ Maps /\ Fresh /\ RequestsNamed /\ QueueLines
  BY MapsOK DEF IInv
<1>a. Undisturbed(u) /\ Course(u)
  BY UndisturbedBefore
<1>1. ASSUME BuildStep(u) PROVE Course(u)'
  BY <1>a, <1>1, CourseOwn
<1>2. ASSUME NEW t \in Tasks, t # u, BuildStep(t) \/ FaultStep(t) PROVE Course(u)'
  BY <1>0, <1>a, <1>2, OthersUntouched, CourseUntouched
<1>3. ~Fault
  BY <1>0 DEF Fault, Undisturbed, TypeOK
<1>4. ~FaultStep(u)
  BY <1>3 DEF FaultStep, InsertFails, CommitFails, VerdictFails, RescueFails, ReportFails
<1>5. ASSUME NEW t \in Tasks, Submit(t) PROVE Course(u)'
  BY <1>0, <1>a, <1>5 DEF Submit, CreateTask, Maps
<1>6. ASSUME NEW t \in Tasks, ProcessExit(t), ManagerOnly PROVE Course(u)'
  BY <1>0, <1>a, <1>6 DEF ProcessExit, ManagerOnly, buildVars, Maps
<1>7. ASSUME NEW t \in Tasks, Evict(t), ManagerOnly PROVE Course(u)'
  BY <1>0, <1>a, <1>7 DEF Evict, Forget, ManagerOnly, buildVars, Maps
<1>8. ASSUME NEW r \in Requests, NewDelete(r), ManagerOnly PROVE Course(u)'
  <2>1. PICK t \in Tasks : Delete(r, t)
    BY <1>8 DEF NewDelete
  <2>2. UNCHANGED <<pc, pending, workspace, hist, reported>>
    BY <1>8, <2>1 DEF Delete, ManagerOnly, buildVars
  <2>3. /\ reqTask'[r] = t
        /\ t = u => reqPc'[r] \in {"deleted", "error"}
    BY <1>0, <2>1 DEF Delete, Undisturbed, TypeOK, ManagerTypeOK
  <2>4. CASE t # u
    BY <1>0, <1>a, <2>1, <2>2, <2>4
       DEF Delete, CancelLive, CancelIdle, DeleteFinished, NotFound, MarkCancelled,
           Assign, Forget, Maps
  <2>5. CASE t = u
    <3>1. DeleteFinished(r, u) \/ NotFound(r, u)
      BY <1>0, <2>1, <2>3, <2>5
         DEF Delete, CancelLive, CancelIdle, MarkCancelled, TypeOK, ManagerTypeOK
    <3>2. CASE DeleteFinished(r, u)
      BY <1>0, <1>a, <2>2, <3>2 DEF DeleteFinished, Forget, Terminal, Maps
    <3>3. CASE NotFound(r, u)
      BY <1>a, <2>2, <3>3 DEF NotFound
    <3>4. QED
      BY <3>1, <3>2, <3>3
  <2>6. QED
    BY <2>4, <2>5
<1>9. ASSUME NEW r \in Requests, Answer(r), ManagerOnly PROVE Course(u)'
  BY <1>0, <1>a, <1>9
     DEF Answer, Undisturbed, RequestsNamed, Kill, CancelStopped, CommitCancel, WriteRow,
         MarkCancelled, Assign, ManagerOnly, buildVars, Maps
<1>10. ASSUME Restart PROVE Course(u)'
  BY <1>0, <1>a, <1>10 DEF Restart, RestartManager, FailOrphans, Active, Maps
<1>11. ASSUME UNCHANGED vars PROVE Course(u)'
  BY <1>a, <1>11 DEF vars, buildVars
<1>12. QED
  BY <1>1, <1>2, <1>3, <1>4, <1>5, <1>6, <1>7, <1>8, <1>9, <1>10, <1>11
     DEF Next, RequestCommitFails

(* A finished build that no DELETE cancelled, with no failing commit, has  *)
(* its verdict in the history, the same as in memory, even if the task was *)
(* forgotten before the verdict was committed.                             *)
THEOREM BuildHistoryAgrees == SafetySpec => []HistoryAgrees
<1>1. Init => HistInv
  BY HistInit
<1>2. IInv /\ HistInv /\ [Next]_vars => HistInv'
  BY KeepNext, IdleNobodyNext, CourseNext DEF HistInv
<1>3. HistInv => HistoryAgrees
  BY DEF HistInv, HistoryAgrees, Course, VerdictKept, At, Told, Verdict
<1>4. QED
  BY <1>1, <1>2, <1>3, Invariant, PTL DEF SafetySpec

(* Of the undisturbed builds that failed, and that the server still knows, *)
(* only one whose clone failed ends without a report.                      *)
OnlyClonesFailBare ==
    \A t \in Tasks :
        At(t, "ended") /\ Undisturbed(t) /\ status[t] = "failed" /\ t \notin reported
            => t \in GitTasks /\ workspace[t] # "full"

(* Every failure past the clone is explained: FailedBuildsExplained fails  *)
(* on a failed clone, where start_build_task returns before it reports,    *)
(* and nowhere else.                                                       *)
THEOREM BuildOnlyClonesFailBare == SafetySpec => []OnlyClonesFailBare
<1>1. Init => HistInv
  BY HistInit
<1>2. IInv /\ HistInv /\ [Next]_vars => HistInv'
  BY KeepNext, IdleNobodyNext, CourseNext DEF HistInv
<1>3. HistInv => OnlyClonesFailBare
  BY DEF HistInv, OnlyClonesFailBare, Course, CloneTold, At, Told
<1>4. QED
  BY <1>1, <1>2, <1>3, Invariant, PTL DEF SafetySpec
================================================================================
