----------------------------- MODULE BuildRequests -----------------------------
(***************************************************************************)
(* What is fixed about the builds users submit (schemas/task.py).  A task  *)
(* is one submission; one build coroutine runs it, so "task" also names    *)
(* that coroutine.                                                         *)
(***************************************************************************)
CONSTANTS Tasks,    \* task ids: uuid4, so never reused
          Paths,    \* resolved project directories
          PathOf,   \* [Tasks -> Paths]: config.project_path, resolved
          Nobody    \* no task

ASSUME RequestAssumption ==
    /\ PathOf \in [Tasks -> Paths]
    /\ Nobody \notin Tasks
================================================================================
