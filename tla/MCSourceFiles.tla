----------------------------- MODULE MCSourceFiles -----------------------------
(* Every kind of chain that touches files: a fullstack image, a frontend    *)
(* image, a backend, and a FULL backend.                                    *)
EXTENDS SourceFiles, TLC

CONSTANTS image, site, backend, tool

MCBuilds == {image, site, backend, tool}
MCChain == image :> <<"frontend", "nuitka", "docker">> @@ site :> <<"docker">>
        @@ backend :> <<"nuitka">> @@ tool :> <<"nuitka">>
================================================================================
