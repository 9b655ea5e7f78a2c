---------------------------- MODULE BuildDispatcher ----------------------------
(***************************************************************************)
(* app/services/build_dispatcher.py: the coroutine start_build_task runs   *)
(* for every task, from the POST handler that creates the task to the      *)
(* release of its build slot, composed with the task map and its DELETE    *)
(* handlers (TaskManager) and with the project lock (ProjectLock).         *)
(*                                                                         *)
(* A step is the code between two awaits that may suspend.  A database     *)
(* write therefore takes two steps: memory first, the commit later; what   *)
(* the commit will write is `pending`.                                     *)
(***************************************************************************)
EXTENDS TaskManager, ProjectLock, Naturals

CONSTANTS Chain,        \* [Tasks -> Seq(Worker)]: the workers a build runs
          GitTasks,     \* the tasks whose source is cloned into a workspace
          MaxBuilds,    \* settings.max_concurrent_builds
          MaxCrashes,   \* bound: server crashes in a behaviour
          MaxFaults     \* bound: database commits that fail in a behaviour

Worker == {"frontend", "nuitka", "docker"}

ASSUME DispatcherAssumption ==
    /\ Chain \in [Tasks -> Seq(Worker)]
    /\ \A t \in Tasks : Chain[t] # <<>>
    /\ GitTasks \subseteq Tasks
    /\ MaxBuilds \in Nat \ {0}
    /\ MaxCrashes \in Nat
    /\ MaxFaults \in Nat

VARIABLES pc,         \* [Tasks -> BuildPc]: where start_build_task stands
          stage,      \* [Tasks -> Nat]: the worker of Chain it runs
          pending,    \* [Tasks -> Status]: the status it is committing
          free,       \* value of the build semaphore
          slotQueue,  \* the builds the semaphore keeps waiting, oldest first
          workspace,  \* [Tasks -> Workspace]: data/workspace/<task id>
          crashes,    \* server crashes so far
          faults      \* failed commits so far

buildVars == <<pc, stage, pending, workspace>>
slotVars == <<free, slotQueue>>
boundVars == <<crashes, faults>>
vars == <<managerVars, lockVars, buildVars, slotVars, boundVars>>

Workspace == {"absent", "partial", "full", "output", "removed"}

(* Before, while and after the build holds a slot.                         *)
Waiting == {"none", "inserting", "queued", "lining"}
Handed == {"admitted", "preparing", "dispatching", "committing_start",
           "committing_clone_failure", "locking", "cleanup", "reclaiming",
           "report", "releasing"}
InWorker == {"worker", "spawned", "compile", "finish", "committing_verdict",
             "committing_rescue", "unlock"}
BuildPc == Waiting \cup Handed \cup InWorker \cup {"ended", "lost"}

Init ==
    /\ ManagerInit
    /\ LockInit
    /\ pc = [t \in Tasks |-> "none"]
    /\ stage = [t \in Tasks |-> 1]
    /\ pending = [t \in Tasks |-> "pending"]
    /\ free = MaxBuilds
    /\ slotQueue = <<>>
    /\ workspace = [t \in Tasks |-> "absent"]
    /\ crashes = 0
    /\ faults = 0

At(t, at) == pc[t] = at
Goto(t, to) == pc' = [pc EXCEPT ![t] = to]

(* _is_cancelled                                                           *)
Stopped(t) == status[t] \in {"absent", "cancelled"}

Fault ==
    /\ faults < MaxFaults
    /\ faults' = faults + 1
    /\ UNCHANGED crashes
--------------------------------------------------------------------------------
(* POST /api/tasks: create_task, then the background task.                 *)

Submit(t) ==
    /\ At(t, "none")
    /\ CreateTask(t)
    /\ Goto(t, "inserting")
    /\ UNCHANGED <<dbVars, process, reqVars, lockVars, stage, pending,
                   workspace, slotVars, boundVars>>

InsertRow(t) ==
    /\ At(t, "inserting")
    /\ hist' = [hist EXCEPT ![t] = "pending"]
    /\ Goto(t, "queued")
    /\ UNCHANGED <<memVars, reported, process, reqVars, lockVars, stage,
                   pending, workspace, slotVars, boundVars>>

(* A 500: no row, no build, and the entry in memory stays PENDING.         *)
InsertFails(t) ==
    /\ At(t, "inserting")
    /\ Fault
    /\ Goto(t, "ended")
    /\ UNCHANGED <<managerVars, lockVars, stage, pending, workspace, slotVars>>
--------------------------------------------------------------------------------
(* The build slot: asyncio.Semaphore, external.  release() hands the slot  *)
(* to the oldest waiter, which resumes later.  Until it does it counts as  *)
(* waiting, and whoever comes meanwhile queues even beside a free slot;    *)
(* when it resumes it wakes as many as the free slots allow.               *)
Contended == slotQueue # <<>> \/ \E t \in Tasks : At(t, "admitted")

Woken == IF free < Len(slotQueue) THEN free ELSE Len(slotQueue)

(* Mutant: no second look at the task after the wait.                      *)
AfterSlotUnchecked(t) == IF t \in GitTasks THEN "preparing" ELSE "dispatching"

AfterSlot(t) ==
    IF Stopped(t) THEN "releasing"
    ELSE IF t \in GitTasks THEN "preparing" ELSE "dispatching"

TakeSlot(t) ==
    /\ At(t, "queued")
    /\ free > 0 /\ ~Contended
    /\ free' = free - 1
    /\ Goto(t, AfterSlot(t))
    /\ UNCHANGED <<managerVars, lockVars, stage, pending, workspace, slotQueue,
                   boundVars>>

WaitForSlot(t) ==
    /\ At(t, "queued")
    /\ free = 0 \/ Contended
    /\ slotQueue' = Append(slotQueue, t)
    /\ Goto(t, "lining")
    /\ UNCHANGED <<managerVars, lockVars, stage, pending, workspace, free,
                   boundVars>>

CheckCancelled(t) ==
    /\ At(t, "admitted")
    /\ pc' = [u \in Tasks |->
                 IF u = t THEN AfterSlot(t)
                 ELSE IF \E i \in 1 .. Woken : slotQueue[i] = u THEN "admitted"
                 ELSE pc[u]]
    /\ slotQueue' = SubSeq(slotQueue, Woken + 1, Len(slotQueue))
    /\ free' = free - Woken
    /\ UNCHANGED <<managerVars, lockVars, stage, pending, workspace, boundVars>>

(* Mutant: the slot is freed and no waiter is woken.                       *)
ReleaseSilently(t) ==
    /\ At(t, "releasing")
    /\ free' = free + 1
    /\ Goto(t, "ended")
    /\ UNCHANGED <<managerVars, lockVars, stage, pending, workspace, slotQueue,
                   boundVars>>

Release(t) ==
    /\ At(t, "releasing")
    /\ \/ /\ slotQueue = <<>>
          /\ free' = free + 1
          /\ Goto(t, "ended")
          /\ UNCHANGED slotQueue
       \/ /\ slotQueue # <<>>
          /\ slotQueue' = Tail(slotQueue)
          /\ pc' = [pc EXCEPT ![t] = "ended", ![Head(slotQueue)] = "admitted"]
          /\ UNCHANGED free
    /\ UNCHANGED <<managerVars, lockVars, stage, pending, workspace, boundVars>>
--------------------------------------------------------------------------------
(* Mutant: the verdict stays in memory.                                    *)
SetInMemory(t, v, commit, next) ==
    /\ Goto(t, next)
    /\ UNCHANGED pending
    /\ IF Accepts(t, v) THEN Assign(t, v) ELSE UNCHANGED memVars

(* update_task(t, "status", v, db) by the build: memory now, unless the    *)
(* task is cancelled or gone; the commit, or what follows it, next.        *)
SetStatus(t, v, commit, next) ==
    IF Accepts(t, v)
    THEN /\ Assign(t, v)
         /\ pending' = [pending EXCEPT ![t] = v]
         /\ Goto(t, commit)
    ELSE /\ Goto(t, next)
         /\ UNCHANGED <<memVars, pending>>

StartRunning(t) == SetStatus(t, "running", "committing_start", "locking")

Dispatch(t) ==
    /\ At(t, "dispatching")
    /\ StartRunning(t)
    /\ UNCHANGED <<dbVars, process, reqVars, lockVars, stage, workspace,
                   slotVars, boundVars>>

(* The clone and its virtual environment are ready; the second check for a *)
(* cancellation and the RUNNING update follow without a suspension.        *)
Prepared(t) ==
    /\ At(t, "preparing")
    /\ workspace' = [workspace EXCEPT ![t] = "full"]
    /\ IF Stopped(t)
       THEN /\ Goto(t, "releasing")
            /\ UNCHANGED <<memVars, pending>>
       ELSE StartRunning(t)
    /\ UNCHANGED <<dbVars, process, reqVars, lockVars, stage, slotVars,
                   boundVars>>

(* Clone or bootstrap failed; both remove what they created.               *)
PrepareFails(t) ==
    /\ At(t, "preparing")
    /\ SetStatus(t, "failed", "committing_clone_failure", "releasing")
    /\ UNCHANGED <<dbVars, process, reqVars, lockVars, stage, workspace,
                   slotVars, boundVars>>

AfterCommit == [committing_start |-> "locking",
                committing_clone_failure |-> "releasing",
                committing_verdict |-> "unlock",
                committing_rescue |-> "unlock"]

Commit(t) ==
    /\ pc[t] \in DOMAIN AfterCommit
    /\ WriteRow(t, pending[t])
    /\ Goto(t, AfterCommit[pc[t]])
    /\ UNCHANGED <<memVars, reported, process, reqVars, lockVars, stage,
                   pending, workspace, slotVars, boundVars>>

(* Mutant: the exception path forgets the semaphore.                       *)
CommitFailsLeaking(t) ==
    /\ pc[t] \in {"committing_start", "committing_clone_failure"}
    /\ Fault
    /\ Goto(t, "ended")
    /\ UNCHANGED <<managerVars, lockVars, stage, pending, workspace, slotVars>>

(* The commit of RUNNING, or of a failed clone, raises out of the build.   *)
CommitFails(t) ==
    /\ pc[t] \in {"committing_start", "committing_clone_failure"}
    /\ Fault
    /\ Goto(t, "releasing")
    /\ UNCHANGED <<managerVars, lockVars, stage, pending, workspace, slotVars>>

(* Mutant: the handler runs outside the lock.                              *)
VerdictFailsOutside(t) ==
    /\ At(t, "committing_verdict")
    /\ Fault
    /\ Leave(t)
    /\ SetStatus(t, "failed", "committing_rescue", "report")
    /\ UNCHANGED <<dbVars, process, reqVars, stage, workspace, slotVars>>

(* The commit of a verdict raises into _dispatch_locked, which tries once  *)
(* more, with FAILED.                                                      *)
VerdictFails(t) ==
    /\ At(t, "committing_verdict")
    /\ Fault
    /\ SetStatus(t, "failed", "committing_rescue", "unlock")
    /\ UNCHANGED <<dbVars, process, reqVars, lockVars, stage, workspace,
                   slotVars>>

(* That commit raises too: through the lock, and out of the build.         *)
RescueFails(t) ==
    /\ At(t, "committing_rescue")
    /\ Fault
    /\ Leave(t)
    /\ Goto(t, "releasing")
    /\ UNCHANGED <<managerVars, stage, pending, workspace, slotVars>>
--------------------------------------------------------------------------------
(* The project lock, and the workers under it.                             *)

EnterProject(t) ==
    /\ At(t, "locking")
    /\ GetLock(t) \/ AcquireAfterLog(t) \/ Resume(t)
    /\ Goto(t, IF lockPc'[t] = "inside" THEN "worker" ELSE "locking")
    /\ UNCHANGED <<managerVars, stage, pending, workspace, slotVars, boundVars>>

(* A worker returned: the next one starts, or the build has its verdict.   *)
Conclude(t, v) ==
    /\ SetStatus(t, v, "committing_verdict", "unlock")
    /\ UNCHANGED stage

(* Mutant: one worker too many.                                            *)
WorkerDoneLate(t) ==
    IF stage[t] > Len(Chain[t])
    THEN Conclude(t, "completed")
    ELSE /\ stage' = [stage EXCEPT ![t] = @ + 1]
         /\ Goto(t, "worker")
         /\ UNCHANGED <<memVars, pending>>

WorkerDone(t) ==
    IF stage[t] = Len(Chain[t])
    THEN Conclude(t, "completed")
    ELSE /\ stage' = [stage EXCEPT ![t] = @ + 1]
         /\ Goto(t, "worker")
         /\ UNCHANGED <<memVars, pending>>

FrontendDone(t) ==
    /\ At(t, "worker")
    /\ Chain[t][stage[t]] = "frontend"
    /\ WorkerDone(t)
    /\ UNCHANGED <<dbVars, process, reqVars, lockVars, workspace, slotVars,
                   boundVars>>

(* npm failed, or a check before the compile or docker process did.        *)
WorkerFails(t) ==
    /\ At(t, "worker")
    /\ Conclude(t, "failed")
    /\ UNCHANGED <<dbVars, process, reqVars, lockVars, workspace, slotVars,
                   boundVars>>

(* create_subprocess_exec has forked and still waits for its pipes.        *)
Spawn(t) ==
    /\ At(t, "worker")
    /\ Chain[t][stage[t]] # "frontend"
    /\ process' = [process EXCEPT ![t] = "running"]
    /\ Goto(t, "spawned")
    /\ UNCHANGED <<memVars, dbVars, reqVars, lockVars, stage, pending,
                   workspace, slotVars, boundVars>>

(* Mutant: a task that is no longer active gets no handle.                 *)
RegisterIfActive(t) ==
    /\ At(t, "spawned")
    /\ handle' = IF status[t] \in Active THEN handle \cup {t} ELSE handle
    /\ Goto(t, "compile")
    /\ UNCHANGED <<status, evicting, dbVars, process, reqVars, lockVars, stage,
                   pending, workspace, slotVars, boundVars>>

(* set_process: only now can cancel_task find the process.                 *)
Register(t) ==
    /\ At(t, "spawned")
    /\ handle' = IF status[t] = "absent" THEN handle ELSE handle \cup {t}
    /\ Goto(t, "compile")
    /\ UNCHANGED <<status, evicting, dbVars, process, reqVars, lockVars, stage,
                   pending, workspace, slotVars, boundVars>>

(* The polling loop sees the exit code; set_process(None).                 *)
Harvest(t) ==
    /\ At(t, "compile")
    /\ process[t] \in {"ok", "bad"}
    /\ handle' = handle \ {t}
    /\ Goto(t, "finish")
    /\ UNCHANGED <<status, evicting, dbVars, process, reqVars, lockVars, stage,
                   pending, workspace, slotVars, boundVars>>

(* Restore the sources, bundle, return.  Past a successful compile nuitka's *)
(* bundling can fail; docker's export only warns.                          *)
Finish(t) ==
    /\ At(t, "finish")
    /\ \/ process[t] = "ok" /\ WorkerDone(t)
       \/ process[t] = "bad" /\ Conclude(t, "failed")
       \/ Chain[t][stage[t]] = "nuitka" /\ Conclude(t, "failed")
    /\ process' = [process EXCEPT ![t] = "none"]
    /\ UNCHANGED <<dbVars, reqVars, lockVars, workspace, slotVars, boundVars>>

Unlock(t) ==
    /\ At(t, "unlock")
    /\ Leave(t)
    /\ Goto(t, "report")
    /\ UNCHANGED <<managerVars, stage, pending, workspace, slotVars, boundVars>>
--------------------------------------------------------------------------------
(* After dispatch_build: the failure report and the clean-up of a clone.   *)

AfterReport(t) == IF t \in GitTasks THEN "cleanup" ELSE "releasing"

Report(t) ==
    /\ At(t, "report")
    /\ reported' = IF status[t] = "failed" THEN reported \cup {t} ELSE reported
    /\ Goto(t, AfterReport(t))
    /\ UNCHANGED <<memVars, hist, process, reqVars, lockVars, stage, pending,
                   workspace, slotVars, boundVars>>

ReportFails(t) ==
    /\ At(t, "report")
    /\ status[t] = "failed"
    /\ Fault
    /\ Goto(t, AfterReport(t))
    /\ UNCHANGED <<managerVars, lockVars, stage, pending, workspace, slotVars>>

(* Mutant: the status is not consulted.                                    *)
CleanAnyway(t) ==
    /\ At(t, "cleanup")
    /\ Goto(t, "reclaiming")
    /\ UNCHANGED <<managerVars, lockVars, stage, pending, workspace, slotVars,
                   boundVars>>

(* _post_build_cleanup looks at the task, then works in a thread.          *)
DecideCleanup(t) ==
    /\ At(t, "cleanup")
    /\ Goto(t, IF status[t] = "completed" THEN "reclaiming" ELSE "releasing")
    /\ UNCHANGED <<managerVars, lockVars, stage, pending, workspace, slotVars,
                   boundVars>>

IsDocker(t) == Chain[t][Len(Chain[t])] = "docker"

(* Shrink to the output directory, or remove; shrinking may be refused and *)
(* removing may fail, which leaves everything to the retention sweep.      *)
Reclaim(t) ==
    /\ At(t, "reclaiming")
    /\ \/ workspace' = [workspace EXCEPT ![t] = IF IsDocker(t) THEN "removed"
                                                              ELSE "output"]
       \/ UNCHANGED workspace
    /\ Goto(t, "releasing")
    /\ UNCHANGED <<managerVars, lockVars, stage, pending, slotVars, boundVars>>
--------------------------------------------------------------------------------
BuildStep(t) ==
    \/ InsertRow(t) \/ TakeSlot(t) \/ WaitForSlot(t) \/ CheckCancelled(t)
    \/ Dispatch(t) \/ Prepared(t) \/ PrepareFails(t) \/ Commit(t)
    \/ EnterProject(t) \/ FrontendDone(t) \/ WorkerFails(t)
    \/ Spawn(t) \/ Register(t) \/ Harvest(t) \/ Finish(t) \/ Unlock(t)
    \/ Report(t) \/ DecideCleanup(t) \/ Reclaim(t) \/ Release(t)

FaultStep(t) ==
    \/ InsertFails(t) \/ CommitFails(t) \/ VerdictFails(t) \/ RescueFails(t)
    \/ ReportFails(t)

RequestCommitFails(r) == CommitCancelFails(r) /\ Fault

Answer(r) == Kill(r) \/ CancelStopped(r) \/ CommitCancel(r)

(* Only an id the client has seen is named.                                *)
NewDelete(r) == \E t \in Tasks : pc[t] # "none" /\ Delete(r, t)

(* The server process dies and a new one starts.  A clone it interrupts    *)
(* may have left files behind.                                             *)
Restart ==
    /\ crashes < MaxCrashes
    /\ crashes' = crashes + 1
    /\ RestartManager
    /\ ForgetLocks
    /\ pc' = [t \in Tasks |-> IF pc[t] \in {"none", "ended"} THEN pc[t]
                                                             ELSE "lost"]
    /\ stage' = [t \in Tasks |-> 1]
    /\ pending' = [t \in Tasks |-> "pending"]
    /\ free' = MaxBuilds
    /\ slotQueue' = <<>>
    /\ \E left \in SUBSET {t \in GitTasks : At(t, "preparing")} :
          workspace' = [t \in Tasks |-> IF t \in left THEN "partial"
                                                     ELSE workspace[t]]
    /\ UNCHANGED faults

ManagerOnly == UNCHANGED <<lockVars, buildVars, slotVars, boundVars>>

Next ==
    \/ \E t \in Tasks : Submit(t) \/ BuildStep(t) \/ FaultStep(t)
    \/ \E t \in Tasks : ProcessExit(t) /\ ManagerOnly
    \/ \E t \in Tasks : Evict(t) /\ ManagerOnly
    \/ \E r \in Requests : NewDelete(r) /\ ManagerOnly
    \/ \E r \in Requests : Answer(r) /\ ManagerOnly
    \/ \E r \in Requests :
         RequestCommitFails(r) /\ UNCHANGED <<lockVars, buildVars, slotVars>>
    \/ Restart

SafetySpec == Init /\ [][Next]_vars
(* The event loop resumes every coroutine that can go on; git, pip and npm *)
(* run under timeouts; the eviction timer fires; wait_for times out.  That *)
(* a compiler ends by itself is assumed of Nuitka and docker: their        *)
(* workers set no deadline.                                                *)
Fairness ==
    /\ \A t \in Tasks : WF_vars(BuildStep(t))
    /\ \A t \in Tasks : WF_vars(ProcessExit(t) /\ ManagerOnly)
    /\ \A t \in Tasks : WF_vars(Evict(t) /\ ManagerOnly)
    /\ \A r \in Requests : WF_vars(Answer(r) /\ ManagerOnly)

Spec == SafetySpec /\ Fairness
--------------------------------------------------------------------------------
HoldsSlot(t) == pc[t] \in Handed \cup InWorker

TypeOK ==
    /\ ManagerTypeOK
    /\ LockTypeOK
    /\ pc \in [Tasks -> BuildPc]
    /\ stage \in [Tasks -> Nat]
    /\ \A t \in Tasks : stage[t] \in 1 .. Len(Chain[t])
    /\ pending \in [Tasks -> Status]
    /\ free \in 0 .. MaxBuilds
    /\ slotQueue \in Seq(Tasks)
    /\ workspace \in [Tasks -> Workspace]
    /\ crashes \in Nat
    /\ faults \in Nat

(* Every slot is either free or held by one build, through every early     *)
(* return, exception and restart; nobody waits beside a free slot, unless  *)
(* a build that was handed one is about to resume and pass the wake-up on. *)
SlotAccounting ==
    /\ free + Cardinality({t \in Tasks : HoldsSlot(t)}) = MaxBuilds
    /\ slotQueue # <<>> => free = 0 \/ \E t \in Tasks : At(t, "admitted")

(* Two workers never touch one project directory at a time, on whatever    *)
(* path, the raising ones included, each came to and left its lock.        *)
WorkersDisjoint ==
    \A t, u \in Tasks :
        pc[t] \in InWorker /\ pc[u] \in InWorker /\ PathOf[t] = PathOf[u]
            => t = u

(* A 200 "Task cancelled" is never taken back: no later write of the build *)
(* it raced, of its worker or of its error handler resurrects the task.    *)
CancelAnswerTruthful ==
    \A r \in Requests :
        reqPc[r] = "cancelled" => status[reqTask[r]] \in {"absent", "cancelled"}

(* A finished task in memory has a timer that will remove it.              *)
FinishedScheduled == \A t \in Tasks : status[t] \in Terminal => t \in evicting

(* A build that a crash took down is not left running in the history.      *)
LostRowsClosed == \A t \in Tasks : At(t, "lost") => hist[t] \notin Active

(* The files of a failed git build stay for inspection: no clean-up that   *)
(* went by the status in memory has touched them.                          *)
FailedKeepsWorkspace ==
    \A t \in Tasks :
        hist[t] = "failed" => workspace[t] \in {"absent", "partial", "full"}

(* No commit failed and no DELETE cancelled the task; one may have made    *)
(* the server forget it once it was finished.                              *)
Undisturbed(t) ==
    /\ faults = 0
    /\ \A r \in Requests : reqTask[r] = t => reqPc[r] \in {"deleted", "error"}

(* A finished build's row tells its verdict, the one memory has for as     *)
(* long as it has one: the task may be evicted, or forgotten by a DELETE,  *)
(* between the verdict in memory and its commit, and the row still gets it.*)
HistoryAgrees ==
    \A t \in Tasks :
        At(t, "ended") /\ Undisturbed(t)
            => /\ hist[t] \in {"completed", "failed"}
               /\ status[t] \in {hist[t], "absent"}

(* schemas/task.py:446-448 on the diagnosis in the result: "Always         *)
(* non-empty for a failed build", so that no user is shown a bare failure. *)
FailedBuildsExplained ==
    \A t \in Tasks :
        At(t, "ended") /\ Undisturbed(t) /\ status[t] = "failed" => t \in reported

(* A live process can be found by cancel_task for as long as its task is   *)
(* known, but for the moment between its fork and set_process.             *)
ProcessReachable ==
    \A t \in Tasks :
        process[t] \in Alive /\ status[t] # "absent"
            => t \in handle \/ At(t, "spawned")

(* A cancelled task changes its status no more; it can only be forgotten.  *)
CancelledIsFinal ==
    [][\A t \in Tasks :
         status[t] = "cancelled" => status'[t] \in {"cancelled", "absent"}]_vars

(* Without crashes and failing commits every accepted build ends, whatever *)
(* is cancelled and however many share its directory and the slots.        *)
EveryBuildEnds == \A t \in Tasks : pc[t] \notin {"none"} ~> At(t, "ended")

(* Every DELETE is answered, even if the process ignores SIGTERM.          *)
EveryDeleteAnswered ==
    \A r \in Requests :
        reqPc[r] # "idle" ~> reqPc[r] \in {"cancelled", "deleted", "error"}

(* Every task leaves the memory of the server.                             *)
MemoryReclaimed == \A t \in Tasks : status[t] # "absent" ~> status[t] = "absent"

(* A task cancelled while it waits for its slot starts no process.         *)
CancelledInLineNeverRuns ==
    \A t \in Tasks :
        [](status[t] = "cancelled" /\ pc[t] \in {"queued", "lining", "admitted"}
             => [](process[t] = "none"))

(* task_manager.py on update_task: "Ordering is unaffected".  A row that   *)
(* has reached a final status is not set back to an earlier one.           *)
RowNeverReopens ==
    [][\A t \in Tasks : hist[t] \in Terminal => hist'[t] \in Terminal]_vars
================================================================================
