------------------------------ MODULE MCProject ------------------------------
(* One project directory: the line of builds before its lock (ProjectLock)  *)
(* and the files they edit under it (SourceFiles), side by side; the        *)
(* initial state chooses which one moves.                                   *)
EXTENDS MCSourceFiles, ProjectLock

CONSTANTS shared, own

(* At the lock, three of the four contend for one directory.               *)
MCPaths == {shared, own}
MCPathOf == [b \in MCBuilds |-> IF b = tool THEN own ELSE shared]

VARIABLE part

vars == <<part, filesVars, lockVars>>

Init == part \in {"lock", "files"} /\ FilesInit /\ LockInit

Next ==
    /\ UNCHANGED part
    /\ \/ part = "files" /\ FilesNext /\ UNCHANGED lockVars
       \/ part = "lock" /\ LockNext /\ UNCHANGED filesVars

Spec ==
    /\ Init /\ [][Next]_vars
    /\ \A b \in Tasks : WF_lockVars(part = "lock" /\ LockStep(b))
================================================================================
