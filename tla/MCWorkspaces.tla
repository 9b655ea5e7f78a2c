------------------------------ MODULE MCWorkspaces ------------------------------
(* Two git tasks, one with a binary and one with an image.                 *)
EXTENDS Workspaces, TLC

CONSTANTS binary, docker, img, none

OneOfEach == (binary :> none) @@ (docker :> img)
================================================================================
