------------------------------ MODULE MCBuildLive ------------------------------
(* Two scenes for the liveness of the builds: three builds crowd one        *)
(* directory and two slots, or a DELETE meets two builds at a single slot.  *)
EXTENDS MCBuildDispatcher

VARIABLE slots

OneSlot == INSTANCE BuildDispatcher WITH MaxBuilds <- 1

Scene == slots = 1 => pc[backend] = "none"
DeletesHere == slots = 1 \/ UNCHANGED reqVars

(* Of the specification only Init and Restart depend on MaxBuilds.         *)
LiveSpec ==
    /\ (slots = 2 /\ Init) \/ (slots = 1 /\ OneSlot!Init)
    /\ [][UNCHANGED slots /\ Next /\ Scene' /\ DeletesHere]_<<vars, slots>>
    /\ Fairness
================================================================================
