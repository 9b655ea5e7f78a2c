------------------------------- MODULE Workspaces -------------------------------
(***************************************************************************)
(* What builds of git tasks leave on the server's disk and who takes it    *)
(* away: the clone directories GIT_WORKSPACE_DIR/<task id>, the exported   *)
(* Docker images, the sweeps of app/services/workspace_cleanup.py, the     *)
(* DELETE .../workspace handler and the clean-up after a build.            *)
(*                                                                         *)
(* `row` stands for the task's status, in memory and in its row at once    *)
(* (BuildDispatcher splits the two).  Time passes in days.  A directory    *)
(* whose task has no row is an orphan: this server found it there.         *)
(***************************************************************************)
EXTENDS Naturals

CONSTANTS Tasks,        \* the git-sourced tasks
          Images,       \* names of image files in DOCKER_IMAGES_DIR
          NoImage,
          ImageOf,      \* [Tasks -> Images \cup {NoImage}]: what a build exports
          SuccessTTL, FailedTTL, OrphanTTL, ImageTTL,   \* settings, in days
          MaxAge,       \* bound: ages are not told apart from here on
          MaxCrashes,   \* bound: server crashes in a behaviour
          MaxFaults     \* bound: failed look-ups of a sweep in a behaviour

ASSUME WorkspacesAssumption ==
    /\ NoImage \notin Images
    /\ ImageOf \in [Tasks -> Images \cup {NoImage}]
    /\ {MaxAge, MaxCrashes, MaxFaults} \subseteq Nat
    /\ {SuccessTTL, FailedTTL, OrphanTTL, ImageTTL} \subseteq 1..(MaxAge - 1)

VARIABLES row,       \* [Tasks -> Row]: the status of the task
          age,       \* [Tasks -> Age]: days since its end_time; while it has
                     \* none, since the mtime of its directory
          dir,       \* [Tasks -> Dir]: workspace/<task id>
          phase,     \* [Tasks -> Phase]: where start_build_task stands
          image,     \* [Images -> Export]: the image files
          imageAge,  \* [Images -> Age]: days since their mtime
          sweepAt,   \* where cleanup_loop stands
          todo,      \* the listed directories it has not judged yet
          found,     \* [Tasks -> Row]: the statuses its look-up returned
          doomed,    \* images whose stat was too old, not unlinked yet
          crashes, faults

taskVars == <<row, age, dir>>
imageVars == <<image, imageAge>>
sweepVars == <<sweepAt, todo, found, doomed>>
boundVars == <<crashes, faults>>
notBuild == <<sweepVars, boundVars>>
notSweep == <<phase, crashes>>
vars == <<taskVars, phase, imageVars, notBuild>>

Active == {"pending", "running"}
Ended == {"completed", "failed", "cancelled"}
Row == {"none"} \cup Active \cup Ended
Prep == {"cloning", "bootstrapping"}
Phase == {"none", "queued", "building", "exporting", "cleanup", "ended"} \cup Prep
Dir == {"absent", "partial", "full", "output"}
Export == {"absent", "writing", "torn"} \cup Tasks   \* a task: its whole image
Age == 0..MaxAge

Init ==
    /\ row = [t \in Tasks |-> "none"]
    /\ age = [t \in Tasks |-> 0]
    /\ phase \in [Tasks -> {"none", "ended"}]   \* ended: of an orphan
    /\ dir = [t \in Tasks |-> IF phase[t] = "none" THEN "absent" ELSE "full"]
    /\ image = [i \in Images |-> "absent"]
    /\ imageAge = [i \in Images |-> 0]
    /\ sweepAt = "idle"
    /\ todo = {}
    /\ found = [t \in Tasks |-> "none"]
    /\ doomed = {}
    /\ crashes = 0
    /\ faults = 0

At(t, at) == phase[t] = at
Goto(t, to) == phase' = [phase EXCEPT ![t] = to]

(* The task's new status, unless it was cancelled (update_task), and what  *)
(* is in its directory from now on.                                        *)
Become(t, status, contents) ==
    /\ row' = [row EXCEPT ![t] = IF @ = "cancelled" THEN @ ELSE status]
    /\ age' = [age EXCEPT ![t] = IF row[t] \in Ended THEN @ ELSE 0]
    /\ dir' = [dir EXCEPT ![t] = contents]

Hold(t, contents) == Become(t, row[t], contents)
--------------------------------------------------------------------------------
(* The build.                                                              *)

Submit(t) ==
    /\ At(t, "none")
    /\ Become(t, "pending", "absent")
    /\ Goto(t, "queued")
    /\ UNCHANGED <<imageVars, notBuild>>

(* The slot is there: the clone starts, unless the task was cancelled.     *)
StartClone(t) ==
    /\ At(t, "queued")
    /\ IF row[t] = "cancelled"
       THEN Goto(t, "ended") /\ UNCHANGED taskVars
       ELSE Goto(t, "cloning") /\ Hold(t, "partial")
    /\ UNCHANGED <<imageVars, notBuild>>

(* clone_repo: a non-zero exit, or the timeout and a kill.                 *)
CloneFails(t) ==
    /\ At(t, "cloning")
    /\ Become(t, "failed", "absent")
    /\ Goto(t, "ended")
    /\ UNCHANGED <<imageVars, notBuild>>

(* git ends well, also when a DELETE came before it made the directory.    *)
CloneEnds(t) ==
    /\ At(t, "cloning")
    /\ Hold(t, "full")
    /\ Goto(t, "bootstrapping")
    /\ UNCHANGED <<imageVars, notBuild>>

(* _prepare_venv raised: the workspace goes before the task is FAILED.     *)
BootstrapFails(t) ==
    /\ At(t, "bootstrapping")
    /\ Become(t, "failed", "absent")
    /\ Goto(t, "ended")
    /\ UNCHANGED <<imageVars, notBuild>>

(* The second look at the task, and dispatch_build's RUNNING.              *)
BootstrapEnds(t) ==
    /\ At(t, "bootstrapping")
    /\ IF row[t] = "cancelled"
       THEN Goto(t, "ended") /\ UNCHANGED taskVars
       ELSE Goto(t, "building") /\ Become(t, "running", dir[t])
    /\ UNCHANGED <<imageVars, notBuild>>

BuildFails(t) ==
    /\ At(t, "building")
    /\ Become(t, "failed", dir[t])
    /\ Goto(t, "cleanup")
    /\ UNCHANGED <<imageVars, notBuild>>

BuildEnds(t) ==
    /\ At(t, "building")
    /\ ImageOf[t] = NoImage
    /\ Become(t, "completed", dir[t])
    /\ Goto(t, "cleanup")
    /\ UNCHANGED <<imageVars, notBuild>>

Exporting(i) == \E t \in Tasks : At(t, "exporting") /\ ImageOf[t] = i

SetImage(i, export) ==
    /\ image' = [image EXCEPT ![i] = export]
    /\ imageAge' = [imageAge EXCEPT ![i] = 0]

(* docker build ended well: open(tar_path, "wb") empties the file, also    *)
(* one that another build is writing.                                      *)
StartExport(t) ==
    /\ At(t, "building")
    /\ ImageOf[t] # NoImage
    /\ SetImage(ImageOf[t], IF Exporting(ImageOf[t]) THEN "torn" ELSE "writing")
    /\ Goto(t, "exporting")
    /\ UNCHANGED <<taskVars, notBuild>>

(* Exported, or not: a failed export is a warning and the build COMPLETED. *)
EndExport(t) ==
    /\ At(t, "exporting")
    /\ \E whole \in BOOLEAN :
          SetImage(ImageOf[t], IF ~whole THEN "absent"
                               ELSE IF image[ImageOf[t]] = "writing" THEN t
                               ELSE image[ImageOf[t]])
    /\ Become(t, "completed", dir[t])
    /\ Goto(t, "cleanup")
    /\ UNCHANGED notBuild

(* _post_build_cleanup: the image is all a completed docker build leaves,  *)
(* the output directory all that another completed build does.             *)
CleanUp(t) ==
    /\ At(t, "cleanup")
    /\ IF row[t] # "completed" \/ dir[t] = "absent"
       THEN UNCHANGED taskVars
       ELSE Hold(t, IF ImageOf[t] = NoImage THEN "output" ELSE "absent")
    /\ Goto(t, "ended")
    /\ UNCHANGED <<imageVars, notBuild>>
--------------------------------------------------------------------------------
(* Requests.                                                               *)

Cancel(t) ==
    /\ row[t] \in Active
    /\ Become(t, "cancelled", dir[t])
    /\ UNCHANGED <<phase, imageVars, notBuild>>

(* DELETE .../workspace and delete_one_workspace.  What it checks is final, *)
(* so the check and the deletion in a thread are one step.                 *)
Remove(t) ==
    /\ row[t] \in Ended
    /\ dir[t] # "absent"
    /\ Hold(t, "absent")
    /\ UNCHANGED <<phase, imageVars, notBuild>>
--------------------------------------------------------------------------------
(* cleanup_loop: a sweep of the workspaces, then one of the images.        *)

Sweeping(at) == sweepAt = at
Onward(to) == sweepAt' = to

(* The cutoffs and the listing, before the look-up.                        *)
List ==
    /\ Sweeping("idle")
    /\ todo' = {t \in Tasks : dir[t] # "absent"}
    /\ Onward("listed")
    /\ UNCHANGED <<taskVars, imageVars, found, doomed, faults, notSweep>>

Fetch ==
    /\ Sweeping("listed")
    /\ found' = [t \in Tasks |-> IF t \in todo THEN row[t] ELSE "none"]
    /\ Onward("workspaces")
    /\ UNCHANGED <<taskVars, imageVars, todo, doomed, faults, notSweep>>

(* Mutant: a failed look-up counts as one that found no rows.              *)
FetchFailsOpen ==
    /\ Sweeping("listed")
    /\ faults < MaxFaults
    /\ faults' = faults + 1
    /\ Onward("workspaces")
    /\ UNCHANGED <<taskVars, imageVars, todo, found, doomed, notSweep>>

(* Mutant: after a failed look-up the loop turns to the images at once, the *)
(* listing still in hand.                                                  *)
FetchFailsHalfway ==
    /\ Sweeping("listed")
    /\ faults < MaxFaults
    /\ faults' = faults + 1
    /\ doomed' = {i \in Images : image[i] # "absent" /\ imageAge[i] > ImageTTL}
    /\ Onward("images")
    /\ UNCHANGED <<taskVars, imageVars, todo, found, notSweep>>

(* "db_failed": the workspaces are left alone this time.                   *)
FetchFails ==
    /\ Sweeping("listed")
    /\ faults < MaxFaults
    /\ faults' = faults + 1
    /\ todo' = {}
    /\ Onward("workspaces")
    /\ UNCHANGED <<taskVars, imageVars, found, doomed, notSweep>>

(* Mutant: the workspaces of cancelled tasks are kept for good.            *)
ExpiredUnlessCancelled(t) ==
    \/ found[t] = "none" /\ age[t] > OrphanTTL
    \/ found[t] = "completed" /\ age[t] > SuccessTTL
    \/ found[t] = "failed" /\ age[t] > FailedTTL

(* The policy, on the status the look-up found.                            *)
Expired(t) ==
    \/ found[t] = "none" /\ age[t] > OrphanTTL
    \/ found[t] = "completed" /\ age[t] > SuccessTTL
    \/ found[t] \in {"failed", "cancelled"} /\ age[t] > FailedTTL

SweepOne(t) ==
    /\ Sweeping("workspaces")
    /\ t \in todo
    /\ todo' = todo \ {t}
    /\ found' = [found EXCEPT ![t] = "none"]
    /\ IF Expired(t) THEN Hold(t, "absent") ELSE UNCHANGED taskVars
    /\ UNCHANGED <<imageVars, sweepAt, doomed, faults, notSweep>>

(* sweep_docker_images, first half: the files whose stat is too old.       *)
StatImages ==
    /\ Sweeping("workspaces")
    /\ todo = {}
    /\ doomed' = {i \in Images : image[i] # "absent" /\ imageAge[i] > ImageTTL}
    /\ Onward("images")
    /\ UNCHANGED <<taskVars, imageVars, todo, found, faults, notSweep>>

(* ... second half: unlink, in a thread.                                   *)
UnlinkImage(i) ==
    /\ i \in doomed
    /\ doomed' = doomed \ {i}
    /\ SetImage(i, "absent")
    /\ UNCHANGED <<taskVars, sweepAt, todo, found, faults, notSweep>>

Sleep ==
    /\ Sweeping("images")
    /\ doomed = {}
    /\ Onward("idle")
    /\ UNCHANGED <<taskVars, imageVars, todo, found, doomed, faults, notSweep>>
--------------------------------------------------------------------------------
(* Clone and bootstrap are killed after minutes, a cancelled build has     *)
(* lost its process, and the clean-up only deletes files.                  *)
Brief(t) ==
    \/ phase[t] \in Prep \cup {"cleanup"}
    \/ At(t, "building") /\ row[t] = "cancelled"

Older(ages, those) ==
    [x \in DOMAIN ages |->
        IF x \in those /\ ages[x] < MaxAge THEN ages[x] + 1 ELSE ages[x]]

(* A day passes: more than what is brief takes, or a sweep.                *)
(* A compile or an export may take longer.  Ages that decide nothing any   *)
(* more stand still.                                                       *)
Day ==
    /\ Sweeping("idle")
    /\ \A t \in Tasks : ~Brief(t)
    /\ age' = Older(age, {t \in Tasks : dir[t] # "absent"})
    /\ imageAge' = Older(imageAge, {i \in Images : image[i] # "absent" /\ ~Exporting(i)})
    /\ UNCHANGED <<row, dir, phase, image, notBuild>>

(* The server dies and starts again: fail_orphaned_tasks closes the rows.  *)
Crash ==
    /\ crashes < MaxCrashes
    /\ crashes' = crashes + 1
    /\ row' = [t \in Tasks |-> IF row[t] \in Active THEN "failed" ELSE row[t]]
    /\ age' = [t \in Tasks |-> IF row[t] \in Active THEN 0 ELSE age[t]]
    /\ phase' = [t \in Tasks |-> IF At(t, "none") THEN "none" ELSE "ended"]
    /\ sweepAt' = "idle"
    /\ todo' = {}
    /\ found' = [t \in Tasks |-> "none"]
    /\ doomed' = {}
    /\ UNCHANGED <<dir, imageVars, faults>>

Build(t) ==
    \/ StartClone(t) \/ CloneFails(t) \/ CloneEnds(t)
    \/ BootstrapFails(t) \/ BootstrapEnds(t)
    \/ BuildFails(t) \/ BuildEnds(t) \/ StartExport(t) \/ EndExport(t)
    \/ CleanUp(t)

Sweep ==
    \/ List \/ Fetch
    \/ \E t \in Tasks : SweepOne(t)
    \/ StatImages
    \/ \E i \in Images : UnlinkImage(i)
    \/ Sleep

Next ==
    \/ \E t \in Tasks :
          Submit(t) \/ Build(t) \/ Cancel(t) \/ Remove(t)
    \/ Sweep
    \/ FetchFails
    \/ Day
    \/ Crash

(* The loop runs, days pass (whether or not a sweep is going on now and    *)
(* then), and what is brief ends.  A compile has no timeout, so nothing is *)
(* asked of it.                                                            *)
Fairness ==
    /\ WF_vars(Sweep)
    /\ SF_vars(Day)
    /\ \A t \in Tasks : WF_vars(Brief(t) /\ Build(t))

Spec == Init /\ [][Next]_vars /\ Fairness
--------------------------------------------------------------------------------
TypeOK ==
    /\ row \in [Tasks -> Row]
    /\ age \in [Tasks -> Age]
    /\ dir \in [Tasks -> Dir]
    /\ phase \in [Tasks -> Phase]
    /\ image \in [Images -> Export]
    /\ imageAge \in [Images -> Age]
    /\ sweepAt \in {"idle", "listed", "workspaces", "images"}
    /\ todo \subseteq IF sweepAt \in {"listed", "workspaces"} THEN Tasks ELSE {}
    /\ found \in [Tasks -> Row]
    /\ doomed \subseteq Images
    /\ crashes \in 0..MaxCrashes
    /\ faults \in 0..MaxFaults

(* A workspace vanishes for one of these reasons only: its own build       *)
(* failed in the clone or the bootstrap; that build is over and its image  *)
(* is all that is wanted; the user asked; or its term, which depends on    *)
(* how the task ended, is over.  No sweep or request ever takes the files  *)
(* from under a task that is pending or running, whatever it read before   *)
(* the builds went on.                                                     *)
KeptForItsTerm ==
    [][\A t \in Tasks :
          dir[t] # "absent" /\ dir'[t] = "absent" =>
             \/ phase[t] \in Prep /\ At(t, "ended")'
             \/ At(t, "cleanup") /\ row[t] = "completed" /\ ImageOf[t] # NoImage
             \/ row[t] \in Ended /\ UNCHANGED sweepVars
             \/ row[t] = "completed" /\ age[t] > SuccessTTL
             \/ row[t] \in {"failed", "cancelled"} /\ age[t] > FailedTTL
             \/ row[t] = "none" /\ age[t] > OrphanTTL]_vars

(* config.py:144-146: the workspace of a completed docker build may go,    *)
(* "the image tar.gz already lives in docker_images_dir".                  *)
RemovedOnceExported ==
    [][\A t \in Tasks :
          At(t, "cleanup") /\ At(t, "ended")' /\ ImageOf[t] # NoImage
          /\ dir[t] # "absent" /\ dir'[t] = "absent" =>
             image[ImageOf[t]] # "absent"]_vars

(* Nothing stays for good: once its build is over, a workspace is deleted  *)
(* whatever became of the build (crashed, cancelled in the clone, failed), *)
(* and so is every image file no build is writing.                         *)
EventuallyReclaimed ==
    /\ \A t \in Tasks : At(t, "ended") ~> dir[t] = "absent"
    /\ \A i \in Images : image[i] # "absent" ~> image[i] = "absent" \/ Exporting(i)
================================================================================
