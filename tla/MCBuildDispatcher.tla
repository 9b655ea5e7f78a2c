--------------------------- MODULE MCBuildDispatcher ---------------------------
(* Three builds: a backend and a fullstack one share a local directory, a   *)
(* docker build comes from git.                                            *)
EXTENDS BuildDispatcher, TLC

CONSTANTS backend, fullstack, image, shared, clone

MCTasks == {backend, fullstack, image}
MCPaths == {shared, clone}
MCPathOf == [t \in MCTasks |-> IF t = image THEN clone ELSE shared]
MCGitTasks == {image}
MCChain == backend :> <<"nuitka">>
        @@ fullstack :> <<"frontend", "nuitka">>
        @@ image :> <<"docker">>

(* All three in one directory.                                             *)
OnePathOf == [t \in MCTasks |-> shared]

(* Bounds.  Without accidents all three build, and a DELETE that meets all  *)
(* three names the fullstack one, which waits for slot and lock and has two *)
(* workers.  With one, the builds, the DELETE and the accidents are four at *)
(* most, and the DELETE meets no more than two builds.                      *)
FewAccidents ==
    LET builds == Cardinality({t \in Tasks : pc[t] # "none"})
        named == {reqTask[r] : r \in Requests} \ {Nobody}
        accidents == crashes + faults
    IN  IF accidents = 0
        THEN builds = 3 => named \subseteq {fullstack}
        ELSE /\ builds + Cardinality(named) + accidents <= 4
             /\ named # {} => builds <= 2

IntoFewAccidents == FewAccidents'
================================================================================
