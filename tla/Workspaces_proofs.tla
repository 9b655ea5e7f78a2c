---------------------------- MODULE Workspaces_proofs ----------------------------
(***************************************************************************)
(* No sweep or request takes files it must not, for any number of tasks    *)
(* and images, any terms, crashes and failing look-ups.                    *)
(***************************************************************************)
EXTENDS Workspaces, TLAPS

(* A task has a row from its submission on; an orphan never gets one.      *)
RowsFollow ==
    \A t \in Tasks :
        /\ At(t, "none") => row[t] = "none" /\ dir[t] = "absent"
        /\ row[t] = "none" => phase[t] \in {"none", "ended"}

(* With a verdict, all that is left of a build is its clean-up.            *)
VerdictsLate ==
    \A t \in Tasks : row[t] \in {"completed", "failed"} => phase[t] \in {"cleanup", "ended"}

(* What a sweep has listed existed, and a status that is final or missing  *)
(* in its snapshot is the status still.                                    *)
SnapshotHolds ==
    \A t \in todo :
        /\ ~At(t, "none")
        /\ Sweeping("workspaces") /\ found[t] \in Ended \cup {"none"} => row[t] = found[t]

WorkInv == TypeOK /\ RowsFollow /\ VerdictsLate /\ SnapshotHolds

LEMMA WorkInvInit == ASSUME Init PROVE WorkInv
BY WorkspacesAssumption
   DEF Init, WorkInv, TypeOK, RowsFollow, VerdictsLate, SnapshotHolds, At, Row, Age, Dir,
       Phase, Export, Ended, Active, Prep

(* A step of one task that has, or gets, a row and leaves the sweep alone. *)
Moves(t) ==
    /\ \A u \in Tasks \ {t} : row'[u] = row[u] /\ dir'[u] = dir[u] /\ phase'[u] = phase[u]
    /\ UNCHANGED sweepVars
    /\ phase'[t] # "none" /\ row'[t] # "none"
    /\ row'[t] = row[t] \/ At(t, "none") \/ row[t] \in Active
    /\ row'[t] \in {"completed", "failed"} => phase'[t] \in {"cleanup", "ended"}

LEMMA OneTask == ASSUME WorkInv, TypeOK', NEW t \in Tasks, Moves(t) PROVE WorkInv'
<1> USE DEF WorkInv, TypeOK, Moves, At, sweepVars, Sweeping
<1>1. RowsFollow'
  BY DEF RowsFollow
<1>2. VerdictsLate'
  BY DEF VerdictsLate
<1>3. SnapshotHolds'
  BY DEF SnapshotHolds, RowsFollow, Ended, Active
<1>4. QED
  BY <1>1, <1>2, <1>3

LEMMA TypeNext == ASSUME TypeOK, [Next]_vars PROVE TypeOK'
<1> USE WorkspacesAssumption DEF TypeOK, taskVars, imageVars, sweepVars, boundVars, notBuild,
        notSweep, At, Goto, Sweeping, Onward, Become, Hold, SetImage, Row, Age, Dir, Phase,
        Export, Ended, Active, Prep
<1>1. ASSUME NEW t \in Tasks, Submit(t) \/ StartClone(t) \/ CloneFails(t) \/ CloneEnds(t)
      PROVE  TypeOK'
  BY <1>1 DEF Submit, StartClone, CloneFails, CloneEnds
<1>2. ASSUME NEW t \in Tasks, BootstrapFails(t) \/ BootstrapEnds(t) \/ BuildFails(t) \/ BuildEnds(t)
      PROVE  TypeOK'
  BY <1>2 DEF BootstrapFails, BootstrapEnds, BuildFails, BuildEnds
<1>3. ASSUME NEW t \in Tasks, StartExport(t) \/ EndExport(t) PROVE TypeOK'
  BY <1>3 DEF StartExport, EndExport
<1>4. ASSUME NEW t \in Tasks, CleanUp(t) \/ Cancel(t) \/ Remove(t) PROVE TypeOK'
  BY <1>4 DEF CleanUp, Cancel, Remove
<1>5. CASE List \/ Fetch \/ FetchFails \/ StatImages \/ Sleep
  BY <1>5 DEF List, Fetch, FetchFails, StatImages, Sleep
<1>6. ASSUME NEW t \in Tasks, SweepOne(t) PROVE TypeOK'
  BY <1>6 DEF SweepOne
<1>7. ASSUME NEW i \in Images, UnlinkImage(i) PROVE TypeOK'
  BY <1>7 DEF UnlinkImage
<1>8. CASE Day
  BY <1>8 DEF Day, Older
<1>9. CASE Crash
  BY <1>9 DEF Crash
<1>10. CASE UNCHANGED vars
  BY <1>10 DEF vars
<1>11. QED
  BY <1>1, <1>2, <1>3, <1>4, <1>5, <1>6, <1>7, <1>8, <1>9, <1>10 DEF Next, Build, Sweep

(* A step that leaves the tasks, and keeps or drops what the sweep knows.  *)
LEMMA SweepElsewhere ==
    ASSUME WorkInv, UNCHANGED <<row, phase>>, \A t \in Tasks : At(t, "none") => dir'[t] = dir[t],
           todo' \subseteq todo \/ todo' \subseteq {t \in Tasks : dir[t] # "absent"},
           \/ sweepAt' # "workspaces"
           \/ \A t \in todo' : found'[t] \in {row[t]} \cup Active
           \/ UNCHANGED sweepAt /\ \A t \in todo' : t \in todo /\ found'[t] = found[t]
    PROVE  RowsFollow' /\ VerdictsLate' /\ SnapshotHolds'
BY DEF WorkInv, TypeOK, RowsFollow, VerdictsLate, SnapshotHolds, At, Sweeping, Ended, Active

LEMMA WorkInvNext == ASSUME WorkInv, [Next]_vars PROVE WorkInv'
<1> USE DEF At, Goto, Hold
<1>0. TypeOK /\ TypeOK' /\ RowsFollow /\ VerdictsLate
  BY TypeNext DEF WorkInv
<1>1. ASSUME NEW t \in Tasks, Submit(t) PROVE WorkInv'
  <2>1. Moves(t)
    BY <1>0, <1>1 DEF Submit, Moves, Become, RowsFollow, VerdictsLate, taskVars, notBuild,
                      TypeOK, Row, Prep, Ended, Active
  <2>2. QED
    BY <1>0, <2>1, OneTask
<1>2. ASSUME NEW t \in Tasks, StartClone(t) PROVE WorkInv'
  <2>1. Moves(t)
    BY <1>0, <1>2 DEF StartClone, Moves, Become, RowsFollow, VerdictsLate, taskVars, notBuild,
                      TypeOK, Row, Prep, Ended, Active
  <2>2. QED
    BY <1>0, <2>1, OneTask
<1>3. ASSUME NEW t \in Tasks, CloneFails(t) PROVE WorkInv'
  <2>1. Moves(t)
    BY <1>0, <1>3 DEF CloneFails, Moves, Become, RowsFollow, VerdictsLate, taskVars, notBuild,
                      TypeOK, Row, Prep, Ended, Active
  <2>2. QED
    BY <1>0, <2>1, OneTask
<1>4. ASSUME NEW t \in Tasks, CloneEnds(t) PROVE WorkInv'
  <2>1. Moves(t)
    BY <1>0, <1>4 DEF CloneEnds, Moves, Become, RowsFollow, VerdictsLate, taskVars, notBuild,
                      TypeOK, Row, Prep, Ended, Active
  <2>2. QED
    BY <1>0, <2>1, OneTask
<1>5. ASSUME NEW t \in Tasks, BootstrapFails(t) PROVE WorkInv'
  <2>1. Moves(t)
    BY <1>0, <1>5 DEF BootstrapFails, Moves, Become, RowsFollow, VerdictsLate, taskVars, notBuild,
                      TypeOK, Row, Prep, Ended, Active
  <2>2. QED
    BY <1>0, <2>1, OneTask
<1>6. ASSUME NEW t \in Tasks, BootstrapEnds(t) PROVE WorkInv'
  <2>1. Moves(t)
    BY <1>0, <1>6 DEF BootstrapEnds, Moves, Become, RowsFollow, VerdictsLate, taskVars, notBuild,
                      TypeOK, Row, Prep, Ended, Active
  <2>2. QED
    BY <1>0, <2>1, OneTask
<1>7. ASSUME NEW t \in Tasks, BuildFails(t) PROVE WorkInv'
  <2>1. Moves(t)
    BY <1>0, <1>7 DEF BuildFails, Moves, Become, RowsFollow, VerdictsLate, taskVars, notBuild,
                      TypeOK, Row, Prep, Ended, Active
  <2>2. QED
    BY <1>0, <2>1, OneTask
<1>8. ASSUME NEW t \in Tasks, BuildEnds(t) PROVE WorkInv'
  <2>1. Moves(t)
    BY <1>0, <1>8 DEF BuildEnds, Moves, Become, RowsFollow, VerdictsLate, taskVars, notBuild,
                      TypeOK, Row, Prep, Ended, Active
  <2>2. QED
    BY <1>0, <2>1, OneTask
<1>9. ASSUME NEW t \in Tasks, StartExport(t) PROVE WorkInv'
  <2>1. Moves(t)
    BY <1>0, <1>9 DEF StartExport, Moves, Become, RowsFollow, VerdictsLate, taskVars, notBuild,
                      TypeOK, Row, Prep, Ended, Active, SetImage
  <2>2. QED
    BY <1>0, <2>1, OneTask
<1>10. ASSUME NEW t \in Tasks, EndExport(t) PROVE WorkInv'
  <2>1. Moves(t)
    BY <1>0, <1>10 DEF EndExport, Moves, Become, RowsFollow, VerdictsLate, taskVars, notBuild,
                      TypeOK, Row, Prep, Ended, Active, SetImage
  <2>2. QED
    BY <1>0, <2>1, OneTask
<1>11. ASSUME NEW t \in Tasks, CleanUp(t) PROVE WorkInv'
  <2>1. Moves(t)
    BY <1>0, <1>11 DEF CleanUp, Moves, Become, RowsFollow, VerdictsLate, taskVars, notBuild,
                      TypeOK, Row, Prep, Ended, Active
  <2>2. QED
    BY <1>0, <2>1, OneTask
<1>12. ASSUME NEW t \in Tasks, Cancel(t) PROVE WorkInv'
  <2>1. Moves(t)
    BY <1>0, <1>12 DEF Cancel, Moves, Become, RowsFollow, VerdictsLate, taskVars, notBuild,
                      TypeOK, Row, Prep, Ended, Active
  <2>2. QED
    BY <1>0, <2>1, OneTask
<1>13. ASSUME NEW t \in Tasks, Remove(t) PROVE WorkInv'
  <2>1. Moves(t)
    BY <1>0, <1>13 DEF Remove, Moves, Become, RowsFollow, VerdictsLate, taskVars, notBuild,
                      TypeOK, Row, Prep, Ended, Active
  <2>2. QED
    BY <1>0, <2>1, OneTask
<1>14. CASE List
  BY <1>0, <1>14, SweepElsewhere DEF List, WorkInv, taskVars, notSweep, Onward
<1>15. CASE Fetch
  BY <1>0, <1>15, SweepElsewhere DEF Fetch, WorkInv, taskVars, notSweep, TypeOK
<1>16. CASE FetchFails \/ StatImages \/ Sleep
  BY <1>0, <1>16, SweepElsewhere
     DEF FetchFails, StatImages, Sleep, WorkInv, taskVars, notSweep, Onward, TypeOK
<1>17. ASSUME NEW t \in Tasks, SweepOne(t) PROVE WorkInv'
  <2>1. UNCHANGED <<row, phase>> /\ \A u \in Tasks : At(u, "none") => dir'[u] = dir[u]
    BY <1>0, <1>17 DEF SweepOne, WorkInv, SnapshotHolds, Become, taskVars, notSweep, TypeOK
  <2>2. UNCHANGED sweepAt /\ \A u \in todo' : u \in todo /\ found'[u] = found[u]
    BY <1>0, <1>17 DEF SweepOne, TypeOK
  <2>3. QED
    BY <1>0, <2>1, <2>2, SweepElsewhere DEF WorkInv
<1>18. ASSUME NEW i \in Images, UnlinkImage(i) PROVE WorkInv'
  BY <1>0, <1>18, SweepElsewhere DEF UnlinkImage, WorkInv, taskVars, notSweep
<1>19. CASE Day
  BY <1>0, <1>19, SweepElsewhere DEF Day, WorkInv, notBuild, sweepVars
<1>20. CASE Crash
  BY <1>0, <1>20
     DEF Crash, WorkInv, RowsFollow, VerdictsLate, SnapshotHolds, TypeOK, Active, Sweeping
<1>21. CASE UNCHANGED vars
  BY <1>0, <1>21, SweepElsewhere DEF vars, WorkInv, taskVars, notBuild, sweepVars
<1>22. QED
  BY <1>1, <1>2, <1>3, <1>4, <1>5, <1>6, <1>7, <1>8, <1>9, <1>10, <1>11, <1>12, <1>13, <1>14,
     <1>15, <1>16, <1>17, <1>18, <1>19, <1>20, <1>21 DEF Next, Build, Sweep

LEMMA WorkInvAlways == Spec => []WorkInv
BY WorkInvInit, WorkInvNext, PTL DEF Spec

(* Rows, ages, directories, images and the sweep's snapshot keep their     *)
(* types.                                                                  *)
THEOREM WorkspaceTypeCorrect == Spec => []TypeOK
<1>1. WorkInv => TypeOK
  BY DEF WorkInv
<1>2. QED
  BY <1>1, WorkInvAlways, PTL

KeptStep ==
    \A t \in Tasks :
       dir[t] # "absent" /\ dir'[t] = "absent" =>
          \/ phase[t] \in Prep /\ At(t, "ended")'
          \/ At(t, "cleanup") /\ row[t] = "completed" /\ ImageOf[t] # NoImage
          \/ row[t] \in Ended /\ UNCHANGED sweepVars
          \/ row[t] = "completed" /\ age[t] > SuccessTTL
          \/ row[t] \in {"failed", "cancelled"} /\ age[t] > FailedTTL
          \/ row[t] = "none" /\ age[t] > OrphanTTL

LEMMA KeptAtEachStep == ASSUME WorkInv, [Next]_vars PROVE [KeptStep]_vars
<1> USE DEF KeptStep, At, Goto, Hold, Become, taskVars, imageVars, notBuild, notSweep
<1>0. TypeOK /\ RowsFollow /\ SnapshotHolds
  BY DEF WorkInv
<1>1. ASSUME NEW t \in Tasks, Submit(t) \/ StartClone(t) \/ CloneEnds(t) \/ BootstrapEnds(t)
      PROVE  KeptStep
  BY <1>0, <1>1 DEF Submit, StartClone, CloneEnds, BootstrapEnds, TypeOK, RowsFollow
<1>2. ASSUME NEW t \in Tasks, CloneFails(t) \/ BootstrapFails(t) PROVE KeptStep
  BY <1>0, <1>2 DEF CloneFails, BootstrapFails, TypeOK, Prep
<1>3. ASSUME NEW t \in Tasks, BuildFails(t) \/ BuildEnds(t) \/ StartExport(t) \/ EndExport(t) \/ Cancel(t)
      PROVE  KeptStep
  BY <1>0, <1>3 DEF BuildFails, BuildEnds, StartExport, EndExport, Cancel, TypeOK
<1>4. ASSUME NEW t \in Tasks, CleanUp(t) PROVE KeptStep
  BY <1>0, <1>4 DEF CleanUp, TypeOK
<1>5. ASSUME NEW t \in Tasks, Remove(t) PROVE KeptStep
  BY <1>0, <1>5 DEF Remove, TypeOK
<1>6. ASSUME NEW t \in Tasks, SweepOne(t) PROVE KeptStep
  BY <1>0, <1>6 DEF SweepOne, Expired, SnapshotHolds, Ended, TypeOK
<1>7. CASE UNCHANGED dir
  BY <1>7
<1>8. ASSUME \/ List \/ Fetch \/ FetchFails \/ StatImages \/ Sleep \/ Day \/ Crash
             \/ \E i \in Images : UnlinkImage(i)
      PROVE  UNCHANGED dir
  BY <1>8 DEF List, Fetch, FetchFails, StatImages, Sleep, Day, Crash, UnlinkImage
<1>9. QED
  BY <1>1, <1>2, <1>3, <1>4, <1>5, <1>6, <1>7, <1>8 DEF Next, Build, Sweep

(* A workspace goes only with its failed preparation, its exported image,  *)
(* by request once its task has ended, or when its term is over: never     *)
(* from under a task that is pending or running, whatever a sweep read     *)
(* before the builds went on.                                              *)
THEOREM WorkspaceKeptForItsTerm == Spec => KeptForItsTerm
<1>1. Spec => [][KeptStep]_vars
  BY WorkInvAlways, KeptAtEachStep, PTL DEF Spec
<1>2. [KeptStep]_vars => [\A t \in Tasks :
          dir[t] # "absent" /\ dir'[t] = "absent" =>
             \/ phase[t] \in Prep /\ At(t, "ended")'
             \/ At(t, "cleanup") /\ row[t] = "completed" /\ ImageOf[t] # NoImage
             \/ row[t] \in Ended /\ UNCHANGED sweepVars
             \/ row[t] = "completed" /\ age[t] > SuccessTTL
             \/ row[t] \in {"failed", "cancelled"} /\ age[t] > FailedTTL
             \/ row[t] = "none" /\ age[t] > OrphanTTL]_vars
  BY DEF KeptStep
<1>3. QED
  BY <1>1, <1>2, PTL DEF KeptForItsTerm
================================================================================
