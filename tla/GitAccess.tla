-------------------------------- MODULE GitAccess --------------------------------
(***************************************************************************)
(* What the server asks of a Git remote before a build                     *)
(* (services/git_service.py): list_refs, scan_tree and preview_frontend.   *)
(* Each runs git processes one after the other, each with a time limit;    *)
(* the last two in a temporary clone of their own.                         *)
(***************************************************************************)
EXTENDS Naturals, Sequences, SequencesExt

CONSTANTS Calls,
          AllowedHosts   \* GIT_ALLOWED_HOSTS

VARIABLES call,     \* [Calls -> the kind of call, or "none"]
          at,       \* [Calls -> number of the process under way, 0: none]
          running,  \* [Calls -> processes still running]
          overdue,  \* [Calls -> processes that outlived their time limit]
          folder,   \* [Calls -> the temporary clone]
          answer    \* [Calls -> "none", "refused", "error" or "result"]

gitVars == <<call, at, running, overdue, folder, answer>>

Processes == [list_refs |-> <<"ls-remote">>,
              scan_tree |-> <<"clone", "ls-tree", "show", "ls-tree-r">>,
              preview_frontend |-> <<"clone">>]

(* A failure of these only leaves a part of the answer empty.              *)
Optional == {"show", "ls-tree-r"}

Hosts == {"localhost", "internal", "gitlab"}  \* "internal": a private address
Urls == [scheme : {"https", "ssh"}, credentials : BOOLEAN, host : Hosts, dots : BOOLEAN]
Refs == {"main", "-upload-pack"}
Asked == [kind : DOMAIN Processes, url : Urls, ref : Refs]

(* validate_git_url, validate_git_ref.                                     *)
ValidUrl(u) ==
    /\ u.scheme = "https" /\ ~u.credentials /\ ~u.dots
    /\ u.host # "localhost"
    /\ IF AllowedHosts # {} THEN u.host \in AllowedHosts ELSE u.host # "internal"
Valid(q) == ValidUrl(q.url) /\ (q.kind # "list_refs" => q.ref = "main")

Current(c) == Processes[call[c]][at[c]]

GitInit ==
    /\ call = [c \in Calls |-> "none"]
    /\ at = [c \in Calls |-> 0]
    /\ running = [c \in Calls |-> {}]
    /\ overdue = [c \in Calls |-> {}]
    /\ folder = [c \in Calls |-> "none"]
    /\ answer = [c \in Calls |-> "none"]
--------------------------------------------------------------------------------
Begin(c) ==
    /\ call[c] = "none"
    /\ \E q \in Asked :
          /\ call' = [call EXCEPT ![c] = q.kind]
          /\ IF Valid(q)
             THEN /\ at' = [at EXCEPT ![c] = 1]
                  /\ running' = [running EXCEPT ![c] = {Head(Processes[q.kind])}]
                  /\ folder' = [folder EXCEPT ![c] =
                                  IF q.kind = "list_refs" THEN "none" ELSE "made"]
                  /\ UNCHANGED answer
             ELSE answer' = [answer EXCEPT ![c] = "refused"] /\ UNCHANGED <<at, running, folder>>
    /\ UNCHANGED overdue

(* The finally clause.  rmtree goes past what it cannot remove: git show   *)
(* fetches its file into the clone, and one that still runs may have put   *)
(* something back.                                                         *)
Removed(c, left) ==
    IF folder[c] = "none" THEN {"none"}
    ELSE IF "show" \in left THEN {"removed", "remains"} ELSE {"removed"}

Answer(c, how, left) ==
    /\ running' = [running EXCEPT ![c] = left]
    /\ answer' = [answer EXCEPT ![c] = how]
    /\ at' = [at EXCEPT ![c] = 0]
    /\ \E f \in Removed(c, left) : folder' = [folder EXCEPT ![c] = f]

(* left: the processes of this call that go on running.                    *)
GoOn(c, left) ==
    IF at[c] = Len(Processes[call[c]]) THEN Answer(c, "result", left)
    ELSE /\ at' = [at EXCEPT ![c] = @ + 1]
         /\ running' = [running EXCEPT ![c] = left \cup {Processes[call[c]][at[c] + 1]}]
         /\ UNCHANGED <<folder, answer>>

Succeeds(c) ==
    /\ at[c] # 0
    /\ GoOn(c, running[c] \ {Current(c)})
    /\ UNCHANGED <<call, overdue>>

Fails(c) ==
    /\ at[c] # 0
    /\ LET left == running[c] \ {Current(c)} IN
       IF Current(c) \in Optional THEN GoOn(c, left) ELSE Answer(c, "error", left)
    /\ UNCHANGED <<call, overdue>>

(* Mutant: nobody kills it.                                                *)
TimesOutUnkilled(c) ==
    /\ at[c] # 0
    /\ overdue' = [overdue EXCEPT ![c] = @ \cup {Current(c)}]
    /\ IF Current(c) \in Optional THEN GoOn(c, running[c]) ELSE Answer(c, "error", running[c])
    /\ UNCHANGED call

(* Killed and waited for, but for git show and ls-tree -r.                 *)
TimesOut(c) ==
    /\ at[c] # 0
    /\ overdue' = [overdue EXCEPT ![c] = @ \cup {Current(c)}]
    /\ IF Current(c) \in Optional THEN GoOn(c, running[c])
       ELSE Answer(c, "error", running[c] \ {Current(c)})
    /\ UNCHANGED call

(* One that was left running ends by itself, or never.                     *)
StrayEnds(c) ==
    /\ \E p \in IF at[c] = 0 THEN running[c] ELSE running[c] \ {Current(c)} :
          running' = [running EXCEPT ![c] = @ \ {p}]
    /\ UNCHANGED <<call, at, overdue, folder, answer>>

GitNext == \E c \in Calls : Begin(c) \/ Succeeds(c) \/ Fails(c) \/ TimesOut(c) \/ StrayEnds(c)

GitSpec == GitInit /\ [][GitNext]_gitVars
--------------------------------------------------------------------------------
GitTypeOK ==
    /\ call \in [Calls -> DOMAIN Processes \cup {"none"}]
    /\ at \in [Calls -> 0..4]
    /\ \A c \in Calls : at[c] # 0 => Current(c) \in running[c] /\ answer[c] = "none"
    /\ overdue \in [Calls -> SUBSET {"clone", "ls-remote", "ls-tree", "show", "ls-tree-r"}]
    /\ folder \in [Calls -> {"none", "made", "removed", "remains"}]
    /\ answer \in [Calls -> {"none", "refused", "error", "result"}]

(* git_service.py:12-13 and 437: an answered call has left no process and  *)
(* no clone behind, unless reading pyproject.toml or the file list took    *)
(* longer than its limit.                                                  *)
NothingLeftBehind ==
    \A c \in Calls : answer[c] # "none" =>
        /\ running[c] \subseteq overdue[c] \cap Optional
        /\ folder[c] # "made"
        /\ folder[c] = "remains" => "show" \in overdue[c]
================================================================================
