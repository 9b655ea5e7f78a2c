------------------------------ MODULE TaskManager ------------------------------
(***************************************************************************)
(* app/services/task_manager.py: the in-memory task map, the history row   *)
(* each task has in the database, the eviction timers, and the DELETE      *)
(* handler of routes/tasks.py that cancels or deletes a task.              *)
(*                                                                         *)
(* One event loop runs everything, so code between two awaits that may     *)
(* suspend is one step.  No body under TaskManager._lock awaits anything   *)
(* that suspends: the lock is never contended, and each body is atomic.    *)
(* Database commits, process waits and WebSocket sends do suspend.         *)
(***************************************************************************)
EXTENDS BuildRequests, FiniteSets

CONSTANT Requests   \* DELETE /api/tasks/{id} requests

Active == {"pending", "running"}
Terminal == {"completed", "failed", "cancelled"}
Status == Active \cup Terminal

Alive == {"running", "stopping", "killed"}   \* killed: SIGKILL sent, not reaped
Process == {"none", "ok", "bad"} \cup Alive

VARIABLES status,    \* [Tasks -> Status \cup {"absent"}]: _tasks[t]["status"]
          handle,    \* tasks whose entry in _tasks holds a process handle
          evicting,  \* tasks with an eviction timer: _eviction_tasks
          hist,      \* [Tasks -> Status \cup {"absent"}]: the row's status
          reported,  \* tasks whose row carries a failure report
          process,   \* [Tasks -> Process]: the task's compile or docker process
          reqPc,     \* [Requests -> RequestPc]: the DELETE handlers
          reqTask    \* [Requests -> Tasks \cup {Nobody}]: the task each names

memVars == <<status, handle, evicting>>
dbVars == <<hist, reported>>
reqVars == <<reqPc, reqTask>>
managerVars == <<memVars, dbVars, process, reqVars>>

(* "cancelled", "deleted": the 200 answers; "error": 404, 400 or 500;      *)
(* "lost": the server went down first.                                     *)
RequestPc == {"idle", "stopping", "stopped", "writing",
              "cancelled", "deleted", "error", "lost"}

ManagerInit ==
    /\ status = [t \in Tasks |-> "absent"]
    /\ handle = {}
    /\ evicting = {}
    /\ hist = [t \in Tasks |-> "absent"]
    /\ reported = {}
    /\ process = [t \in Tasks |-> "none"]
    /\ reqPc = [r \in Requests |-> "idle"]
    /\ reqTask = [r \in Requests |-> Nobody]
--------------------------------------------------------------------------------
(* Mutant: the guard for cancelled tasks is missing.                       *)
AcceptsAlways(t, v) == status[t] # "absent"

(* Mutant: the guard forgets COMPLETED.                                    *)
AcceptsCompleted(t, v) ==
    /\ status[t] # "absent"
    /\ ~(status[t] = "cancelled" /\ v \in {"failed", "running"})

(* The guard of update_task: the task is known, and cancelled is final.    *)
Accepts(t, v) ==
    /\ status[t] # "absent"
    /\ ~(status[t] = "cancelled" /\ v \in {"failed", "completed", "running"})

(* Mutant: a failed task gets no eviction timer.                           *)
AssignKeepingFailed(t, v) ==
    /\ status' = [status EXCEPT ![t] = v]
    /\ evicting' = IF v \in {"completed", "cancelled"} THEN evicting \cup {t}
                                                      ELSE evicting
    /\ UNCHANGED handle

(* update_task(t, "status", v): the memory half, under the lock.           *)
Assign(t, v) ==
    /\ status' = [status EXCEPT ![t] = v]
    /\ evicting' = IF v \in Terminal THEN evicting \cup {t} ELSE evicting
    /\ UNCHANGED handle

(* _update_db_status: a blind write of the row, if there is a row.         *)
WriteRow(t, v) ==
    hist' = IF hist[t] = "absent" THEN hist ELSE [hist EXCEPT ![t] = v]

(* The task leaves _tasks.                                                 *)
Forget(t) ==
    /\ status' = [status EXCEPT ![t] = "absent"]
    /\ handle' = handle \ {t}

(* create_task enters the task in memory before it inserts the row.        *)
CreateTask(t) ==
    /\ status' = [status EXCEPT ![t] = "pending"]
    /\ UNCHANGED <<handle, evicting>>

(* Mutant: the timer takes finished tasks only if they were not cancelled. *)
EvictUnlessCancelled(t) ==
    /\ t \in evicting
    /\ evicting' = evicting \ {t}
    /\ IF status[t] \in {"completed", "failed"}
       THEN Forget(t)
       ELSE UNCHANGED <<status, handle>>
    /\ UNCHANGED <<dbVars, process, reqVars>>

(* The _evict timer of _schedule_eviction.                                 *)
Evict(t) ==
    /\ t \in evicting
    /\ evicting' = evicting \ {t}
    /\ IF status[t] \in Terminal
       THEN Forget(t)
       ELSE UNCHANGED <<status, handle>>
    /\ UNCHANGED <<dbVars, process, reqVars>>
--------------------------------------------------------------------------------
(* The DELETE handler and cancel_task.                                     *)

(* process.terminate() on the handle the entry holds, if any.              *)
Terminate(t) ==
    process' = IF t \in handle /\ process[t] = "running"
               THEN [process EXCEPT ![t] = "stopping"]
               ELSE process

(* Mutant: no answer when the task is gone by the time it is marked.       *)
MarkOrHang(r, t) ==
    IF Accepts(t, "cancelled")
    THEN /\ Assign(t, "cancelled")
         /\ reqPc' = [reqPc EXCEPT ![r] = "writing"]
    ELSE UNCHANGED <<memVars, reqPc>>

(* update_task(t, "status", CANCELLED, db), up to the database write.      *)
MarkCancelled(r, t) ==
    IF Accepts(t, "cancelled")
    THEN /\ Assign(t, "cancelled")
         /\ reqPc' = [reqPc EXCEPT ![r] = "writing"]
    ELSE /\ reqPc' = [reqPc EXCEPT ![r] = "cancelled"]
         /\ UNCHANGED memVars

(* Status check, handle read and SIGTERM, then a wait of at most 5 s.      *)
CancelLive(r, t) ==
    /\ status[t] \in Active
    /\ t \in handle
    /\ process[t] \in Alive
    /\ Terminate(t)
    /\ reqPc' = [reqPc EXCEPT ![r] = "stopping"]
    /\ UNCHANGED memVars

(* No process to stop: none registered, or it has exited already.          *)
CancelIdle(r, t) ==
    /\ status[t] \in Active
    /\ t \notin handle \/ process[t] \notin Alive
    /\ MarkCancelled(r, t)
    /\ UNCHANGED process

DeleteFinished(r, t) ==
    /\ status[t] \in Terminal
    /\ Terminate(t)
    /\ Forget(t)
    /\ reqPc' = [reqPc EXCEPT ![r] = "deleted"]
    /\ UNCHANGED evicting

NotFound(r, t) ==
    /\ status[t] = "absent"
    /\ reqPc' = [reqPc EXCEPT ![r] = "error"]
    /\ UNCHANGED <<memVars, process>>

Delete(r, t) ==
    /\ reqPc[r] = "idle"
    /\ reqTask' = [reqTask EXCEPT ![r] = t]
    /\ \/ CancelLive(r, t)
       \/ CancelIdle(r, t)
       \/ DeleteFinished(r, t)
       \/ NotFound(r, t)
    /\ UNCHANGED dbVars

(* wait_for(process.wait(), 5) timed out: SIGKILL.  It is not waited for,  *)
(* but the line that tells of it is broadcast before the task is marked.   *)
Kill(r) ==
    /\ reqPc[r] = "stopping"
    /\ process' = [process EXCEPT ![reqTask[r]] = "killed"]
    /\ reqPc' = [reqPc EXCEPT ![r] = "stopped"]
    /\ UNCHANGED <<memVars, dbVars, reqTask>>

CancelStopped(r) ==
    /\ reqPc[r] = "stopped"
    /\ MarkCancelled(r, reqTask[r])
    /\ UNCHANGED <<dbVars, process, reqTask>>

CommitCancel(r) ==
    /\ reqPc[r] = "writing"
    /\ WriteRow(reqTask[r], "cancelled")
    /\ reqPc' = [reqPc EXCEPT ![r] = "cancelled"]
    /\ UNCHANGED <<memVars, reported, process, reqTask>>

(* The database refuses: a 500 after the memory half took effect.          *)
CommitCancelFails(r) ==
    /\ reqPc[r] = "writing"
    /\ reqPc' = [reqPc EXCEPT ![r] = "error"]
    /\ UNCHANGED <<memVars, dbVars, process, reqTask>>
--------------------------------------------------------------------------------
(* The operating system: a process ends, by itself or because of a signal, *)
(* and every handler that waited for it resumes.                           *)
ProcessExit(t) ==
    /\ process[t] \in Alive
    /\ \E result \in (IF process[t] = "killed" THEN {"bad"} ELSE {"ok", "bad"}) :
          process' = [process EXCEPT ![t] = result]
    /\ reqPc' = [r \in Requests |->
                    IF reqPc[r] = "stopping" /\ reqTask[r] = t
                    THEN "stopped" ELSE reqPc[r]]
    /\ UNCHANGED <<memVars, dbVars, reqTask>>

(* Mutant: the rows of queued builds are forgotten.                        *)
FailRunning ==
    hist' = [t \in Tasks |-> IF hist[t] = "running" THEN "failed" ELSE hist[t]]

(* fail_orphaned_tasks                                                     *)
FailOrphans ==
    hist' = [t \in Tasks |-> IF hist[t] \in Active THEN "failed" ELSE hist[t]]

(* A new server process: memory is empty, children died with the service,  *)
(* and lifespan calls fail_orphaned_tasks before it serves requests.       *)
RestartManager ==
    /\ status' = [t \in Tasks |-> "absent"]
    /\ handle' = {}
    /\ evicting' = {}
    /\ process' = [t \in Tasks |-> "none"]
    /\ reqPc' = [r \in Requests |->
                    IF reqPc[r] \in {"stopping", "stopped", "writing"}
                    THEN "lost" ELSE reqPc[r]]
    /\ FailOrphans
    /\ UNCHANGED <<reported, reqTask>>
--------------------------------------------------------------------------------
ManagerTypeOK ==
    /\ status \in [Tasks -> Status \cup {"absent"}]
    /\ handle \subseteq Tasks
    /\ evicting \subseteq Tasks
    /\ hist \in [Tasks -> Status \cup {"absent"}]
    /\ reported \subseteq Tasks
    /\ process \in [Tasks -> Process]
    /\ reqPc \in [Requests -> RequestPc]
    /\ reqTask \in [Requests -> Tasks \cup {Nobody}]
================================================================================
