------------------------------ MODULE SourceFiles ------------------------------
(***************************************************************************)
(* The files of one project directory that the workers overwrite and are   *)
(* to put back: nuitka_worker.py injects a loader into the entry point,    *)
(* frontend_worker.py and docker_worker.py replace the frontend's env      *)
(* file, docker_worker.py replaces or extends .dockerignore and writes     *)
(* Dockerfile.generated.  Builds of the directory follow each other under  *)
(* the project lock (ProjectLock); the server may die between any two      *)
(* steps, and the user edits the entry point while no build runs.          *)
(*                                                                         *)
(* The content of a file is the set of those whose text is in it; {} is a  *)
(* file that does not exist.                                               *)
(***************************************************************************)
EXTENDS Naturals, Sequences

CONSTANTS Builds,      \* the builds of this directory
          NoBuild,     \* no build
          User,        \* the owner of the project
          Chain,       \* [Builds -> Seq(Worker)]: the workers a build runs
          Full,        \* the builds with pack_mode FULL
          WithEnv,     \* the builds that give their frontend an env file
          MaxCrashes,  \* bound: server crashes in a behaviour
          MaxEdits     \* bound: the user's edits of the entry point

Worker == {"frontend", "nuitka", "docker"}

ASSUME FilesAssumption ==
    /\ NoBuild \notin Builds /\ User \notin Builds
    /\ Chain \in [Builds -> Seq(Worker)]
    /\ \A b \in Builds : Chain[b] # <<>>
    /\ Full \subseteq Builds
    /\ WithEnv \subseteq Builds
    /\ MaxCrashes \in Nat
    /\ MaxEdits \in Nat

VARIABLES entry,       \* the entry point: the user's revision, loaders before it
          backup,      \* entry_point.py.backup: an entry point, or NoBackup
          env,         \* the frontend's env file
          ignore,      \* .dockerignore
          ignoreBak,   \* the copy of .dockerignore
          dockerfile,  \* who wrote Dockerfile.generated, or NoBuild
          holder,      \* the build inside the project lock
          pc,          \* [Builds -> FilesPc]: where its worker stands
          stage,       \* [Builds -> Nat]: the worker of Chain it runs
          kept,        \* [Builds -> Kept]: the worker's local variables
          original,    \* history: [env, ignore], the user's files at the start
          revision,    \* history: the user's last revision of the entry point
          mishaps,     \* history: what went wrong so far
          crashes      \* server crashes so far

diskVars == <<entry, backup, env, ignore, ignoreBak, dockerfile>>
controlVars == <<holder, pc, stage, kept>>
historyVars == <<original, revision, mishaps, crashes>>
filesVars == <<diskVars, controlVars, historyVars>>

FilesPc == {"waiting", "start", "npm", "compile", "env", "dockerfile",
            "imaging", "leaving", "done", "lost"}

Content == SUBSET (Builds \cup {User})
Source == [rev : Nat, loaders : Nat]
NoBackup == [rev |-> 0, loaders |-> 0]

(* A crash; a return before the files are restored; a restored backup that *)
(* an earlier build had left behind.                                       *)
Mishap == {"crash", "early", "stale"}

Kept == [env : Content, wroteEnv : BOOLEAN, backedUp : BOOLEAN,
         ignore : Content, generated : BOOLEAN, extended : BOOLEAN,
         ignoreBak : BOOLEAN]

Nothing == [env |-> {}, wroteEnv |-> FALSE, backedUp |-> FALSE, ignore |-> {},
            generated |-> FALSE, extended |-> FALSE, ignoreBak |-> FALSE]

FilesInit ==
    /\ entry = [rev |-> 1, loaders |-> 0]
    /\ backup = NoBackup
    /\ original \in [env : {{}, {User}}, ignore : {{}, {User}}]
    /\ env = original.env
    /\ ignore = original.ignore
    /\ ignoreBak = {}
    /\ dockerfile = NoBuild
    /\ holder = NoBuild
    /\ pc = [b \in Builds |-> "waiting"]
    /\ stage = [b \in Builds |-> 1]
    /\ kept = [b \in Builds |-> Nothing]
    /\ revision = 1
    /\ mishaps = {}
    /\ crashes = 0

At(b, at) == pc[b] = at
Goto(b, to) == pc' = [pc EXCEPT ![b] = to]
Runs(b, worker) == At(b, "start") /\ Chain[b][stage[b]] = worker
--------------------------------------------------------------------------------
(* Mutant: the docker worker's files were once outside the lock.           *)
EnterUnlocked(b) ==
    /\ At(b, "waiting")
    /\ holder' = b
    /\ Goto(b, "start")
    /\ UNCHANGED <<diskVars, stage, kept, historyVars>>

Enter(b) ==
    /\ At(b, "waiting")
    /\ holder = NoBuild
    /\ holder' = b
    /\ Goto(b, "start")
    /\ UNCHANGED <<diskVars, stage, kept, historyVars>>

LeaveProject(b) ==
    /\ At(b, "leaving")
    /\ holder' = NoBuild
    /\ Goto(b, "done")
    /\ UNCHANGED <<diskVars, stage, kept, historyVars>>

(* Mutant: one worker too many.                                            *)
SucceedLate(b) ==
    /\ kept' = [kept EXCEPT ![b] = Nothing]
    /\ IF stage[b] > Len(Chain[b])
       THEN Goto(b, "leaving") /\ UNCHANGED stage
       ELSE Goto(b, "start") /\ stage' = [stage EXCEPT ![b] = @ + 1]
    /\ UNCHANGED holder

(* A worker returned True: the next one starts with locals of its own.     *)
Succeed(b) ==
    /\ kept' = [kept EXCEPT ![b] = Nothing]
    /\ IF stage[b] = Len(Chain[b])
       THEN Goto(b, "leaving") /\ UNCHANGED stage
       ELSE Goto(b, "start") /\ stage' = [stage EXCEPT ![b] = @ + 1]
    /\ UNCHANGED holder

(* A worker returned False, or raised.                                     *)
Fail(b) ==
    /\ Goto(b, "leaving")
    /\ UNCHANGED <<holder, stage, kept>>

Suffer(mishap) ==
    /\ mishaps' = mishaps \cup {mishap}
    /\ UNCHANGED <<original, revision, crashes>>

(* Every worker has checks before it touches a file.                       *)
Refuse(b) ==
    /\ At(b, "start")
    /\ Fail(b)
    /\ UNCHANGED <<diskVars, historyVars>>
--------------------------------------------------------------------------------
(* run_frontend_build                                                      *)

WriteEnv(b) ==
    /\ env' = {b}
    /\ kept' = [kept EXCEPT ![b].env = env, ![b].wroteEnv = TRUE]

StartFrontend(b) ==
    /\ Runs(b, "frontend")
    /\ IF b \in WithEnv THEN WriteEnv(b) ELSE UNCHANGED <<env, kept>>
    /\ Goto(b, "npm")
    /\ UNCHANGED <<entry, backup, ignore, ignoreBak, dockerfile, holder, stage,
                   historyVars>>

(* The install or the build command fails: no restoration.                 *)
FrontendFails(b) ==
    /\ At(b, "npm")
    /\ Fail(b)
    /\ IF kept[b].wroteEnv THEN Suffer("early") ELSE UNCHANGED historyVars
    /\ UNCHANGED diskVars

(* Mutant: an env file that was there before is not written back.          *)
RestoreEnvIfNew(b) ==
    env' = IF kept[b].wroteEnv /\ kept[b].env = {} THEN {} ELSE env

RestoreEnv(b) == env' = IF kept[b].wroteEnv THEN kept[b].env ELSE env

FrontendBuilt(b) ==
    /\ At(b, "npm")
    /\ RestoreEnv(b)
    /\ Succeed(b)
    /\ UNCHANGED <<entry, backup, ignore, ignoreBak, dockerfile, historyVars>>
--------------------------------------------------------------------------------
(* run_nuitka_build                                                        *)

BackedUp(b) == kept' = [kept EXCEPT ![b].backedUp = TRUE]

(* Mutant: the entry point is not searched for an earlier injection.       *)
InjectAgain(b) ==
    /\ Runs(b, "nuitka")
    /\ IF b \in Full
       THEN UNCHANGED <<entry, backup, kept>>
       ELSE /\ backup' = entry
            /\ entry' = [entry EXCEPT !.loaders = @ + 1]
            /\ BackedUp(b)
    /\ Goto(b, "compile")
    /\ UNCHANGED <<env, ignore, ignoreBak, dockerfile, holder, stage, historyVars>>

(* Mutant: backup_file keeps its value when the injection is skipped.      *)
InjectKeepingName(b) ==
    /\ Runs(b, "nuitka")
    /\ IF b \in Full
       THEN UNCHANGED <<entry, backup, kept>>
       ELSE /\ BackedUp(b)
            /\ IF entry.loaders > 0
               THEN UNCHANGED <<entry, backup>>
               ELSE /\ backup' = entry
                    /\ entry' = [entry EXCEPT !.loaders = @ + 1]
    /\ Goto(b, "compile")
    /\ UNCHANGED <<env, ignore, ignoreBak, dockerfile, holder, stage, historyVars>>

(* The loader goes in front of the entry point, which is copied to the     *)
(* backup first; neither if it already has a loader.                       *)
Inject(b) ==
    /\ Runs(b, "nuitka")
    /\ IF b \in Full \/ entry.loaders > 0
       THEN UNCHANGED <<entry, backup, kept>>
       ELSE /\ backup' = entry
            /\ entry' = [entry EXCEPT !.loaders = @ + 1]
            /\ BackedUp(b)
    /\ Goto(b, "compile")
    /\ UNCHANGED <<env, ignore, ignoreBak, dockerfile, holder, stage, historyVars>>

(* shutil.move(backup, entry), if there is a backup.                       *)
MoveBack ==
    IF backup = NoBackup
    THEN UNCHANGED <<entry, backup>>
    ELSE entry' = backup /\ backup' = NoBackup

(* The entry point cannot be read or copied: the handler restores whatever *)
(* backup it finds under the name.                                         *)
InjectFails(b) ==
    /\ Runs(b, "nuitka")
    /\ b \notin Full
    /\ MoveBack
    /\ Fail(b)
    /\ IF backup = NoBackup THEN UNCHANGED historyVars ELSE Suffer("stale")
    /\ UNCHANGED <<env, ignore, ignoreBak, dockerfile>>

(* The compiler exits, or the worker raises: the entry point is restored,  *)
(* then the bundle is made.                                                *)
Compiled(b) ==
    /\ At(b, "compile")
    /\ IF kept[b].backedUp THEN MoveBack ELSE UNCHANGED <<entry, backup>>
    /\ Succeed(b) \/ Fail(b)
    /\ UNCHANGED <<env, ignore, ignoreBak, dockerfile, historyVars>>
--------------------------------------------------------------------------------
(* run_docker_build                                                        *)

(* `precompiled`: nuitka has run on the host.                              *)
Precompiled(b) == \E i \in 1 .. stage[b] - 1 : Chain[b][i] = "nuitka"

(* With a precompiled binary .dockerignore is always ours.                 *)
ReplaceIgnore(b) ==
    /\ ignore' = {b}
    /\ ignoreBak' = IF ignore = {} THEN ignoreBak ELSE ignore
    /\ kept' = [kept EXCEPT ![b].generated = TRUE,
                            ![b].ignoreBak = (ignore # {})]

(* Otherwise it is generated only when there is none.                      *)
GenerateIgnore(b) ==
    /\ IF ignore = {}
       THEN ignore' = {b} /\ kept' = [kept EXCEPT ![b].generated = TRUE]
       ELSE UNCHANGED <<ignore, kept>>
    /\ UNCHANGED ignoreBak

StartDocker(b) ==
    /\ Runs(b, "docker")
    /\ IF Precompiled(b) THEN ReplaceIgnore(b) ELSE GenerateIgnore(b)
    /\ Goto(b, IF ~Precompiled(b) /\ b \in WithEnv THEN "env" ELSE "dockerfile")
    /\ UNCHANGED <<entry, backup, env, dockerfile, holder, stage, historyVars>>

(* No frontend directory, so no env file either: the task's is left out.   *)
SkipEnv(b) ==
    /\ At(b, "env")
    /\ env = {}
    /\ Goto(b, "dockerfile")
    /\ UNCHANGED <<diskVars, holder, stage, kept, historyVars>>

(* The env file, and the line that lets it into the build context.         *)
AllowEnv(b) ==
    /\ At(b, "env")
    /\ env' = {b}
    /\ ignore' = ignore \cup {b}
    /\ kept' = [kept EXCEPT ![b].env = env, ![b].wroteEnv = TRUE,
                            ![b].ignore = ignore, ![b].extended = TRUE]
    /\ Goto(b, "dockerfile")
    /\ UNCHANGED <<entry, backup, ignoreBak, dockerfile, holder, stage,
                   historyVars>>

(* A file cannot be read or written: the worker raises, with or without    *)
(* the env file in place, and nothing is restored.                         *)
EnvFails(b) ==
    /\ At(b, "env")
    /\ \E wrote \in BOOLEAN :
          /\ env' = IF wrote THEN {b} ELSE env
          /\ IF wrote \/ kept[b].generated THEN Suffer("early") ELSE UNCHANGED historyVars
    /\ Fail(b)
    /\ UNCHANGED <<entry, backup, ignore, ignoreBak, dockerfile>>

WriteDockerfile(b) ==
    /\ At(b, "dockerfile")
    /\ dockerfile' = b
    /\ Goto(b, "imaging")
    /\ UNCHANGED <<entry, backup, env, ignore, ignoreBak, holder, stage, kept,
                   historyVars>>

(* "Error generating Dockerfile": a return before the clean-up.            *)
DockerfileFails(b) ==
    /\ At(b, "dockerfile")
    /\ Fail(b)
    /\ IF kept[b].wroteEnv \/ kept[b].generated
       THEN Suffer("early") ELSE UNCHANGED historyVars
    /\ UNCHANGED diskVars

(* The clean-up of .dockerignore, in its three statements.                 *)
RestoreIgnore(b) ==
    IF kept[b].ignoreBak /\ ignoreBak # {}
    THEN ignore' = ignoreBak /\ ignoreBak' = {}
    ELSE /\ UNCHANGED ignoreBak
         /\ ignore' = IF kept[b].generated THEN {}
                      ELSE IF kept[b].extended THEN kept[b].ignore ELSE ignore

ImageBuilt(b) ==
    /\ At(b, "imaging")
    /\ dockerfile' = NoBuild
    /\ RestoreIgnore(b)
    /\ RestoreEnv(b)
    /\ Succeed(b) \/ Fail(b)
    /\ UNCHANGED <<entry, backup, historyVars>>
--------------------------------------------------------------------------------
(* The server dies: whoever was inside is lost with its local variables.   *)
Crash ==
    /\ crashes < MaxCrashes
    /\ crashes' = crashes + 1
    /\ holder' = NoBuild
    /\ pc' = [b \in Builds |-> IF pc[b] \in {"waiting", "done", "lost"}
                               THEN pc[b] ELSE "lost"]
    /\ kept' = [b \in Builds |-> Nothing]
    /\ mishaps' = mishaps \cup {"crash"}
    /\ UNCHANGED <<diskVars, stage, original, revision>>

(* The user saves a new revision, with or without a loader found in it.    *)
Edit ==
    /\ holder = NoBuild
    /\ revision <= MaxEdits
    /\ revision' = revision + 1
    /\ \E loaders \in {0, entry.loaders} :
          entry' = [rev |-> revision', loaders |-> loaders]
    /\ UNCHANGED <<backup, env, ignore, ignoreBak, dockerfile, controlVars,
                   original, mishaps, crashes>>

WorkerStep(b) ==
    \/ Enter(b) \/ LeaveProject(b) \/ Refuse(b)
    \/ StartFrontend(b) \/ FrontendFails(b) \/ FrontendBuilt(b)
    \/ Inject(b) \/ InjectFails(b) \/ Compiled(b)
    \/ StartDocker(b) \/ SkipEnv(b) \/ AllowEnv(b) \/ EnvFails(b)
    \/ WriteDockerfile(b) \/ DockerfileFails(b) \/ ImageBuilt(b)

FilesNext == (\E b \in Builds : WorkerStep(b)) \/ Crash \/ Edit

FilesSpec == FilesInit /\ [][FilesNext]_filesVars
--------------------------------------------------------------------------------
FilesTypeOK ==
    /\ entry \in Source /\ backup \in Source
    /\ env \in Content /\ ignore \in Content /\ ignoreBak \in Content
    /\ dockerfile \in Builds \cup {NoBuild}
    /\ holder \in Builds \cup {NoBuild}
    /\ pc \in [Builds -> FilesPc]
    /\ stage \in [Builds -> Nat]
    /\ \A b \in Builds : stage[b] \in 1 .. Len(Chain[b])
    /\ kept \in [Builds -> Kept]
    /\ original \in [env : {{}, {User}}, ignore : {{}, {User}}]
    /\ revision \in Nat
    /\ mishaps \subseteq Mishap
    /\ crashes \in Nat

(* Builds that run to their ends, failing or not, one after another, leave *)
(* every file as the user had it, unless one returned early or the server  *)
(* died.                                                                   *)
FilesReturned ==
    holder = NoBuild /\ mishaps = {} =>
        /\ entry = [rev |-> revision, loaders |-> 0] /\ backup = NoBackup
        /\ env = original.env
        /\ ignore = original.ignore /\ ignoreBak = {}
        /\ dockerfile = NoBuild

(* Whatever earlier builds left behind, a build works on what it prepared: *)
(* an image is built from its task's Dockerfile and .dockerignore, with    *)
(* its task's env file, or with none where there is no frontend directory. *)
BuildsFromOwnFiles ==
    \A b \in Builds :
        /\ At(b, "npm") /\ b \in WithEnv => env = {b}
        /\ At(b, "imaging") =>
              /\ dockerfile = b
              /\ Precompiled(b) => ignore = {b}
              /\ ~Precompiled(b) /\ b \in WithEnv => env = {} \/ (env = {b} /\ b \in ignore)

(* The compiler of a build that is not FULL sees exactly one loader, also  *)
(* after a crash that left one in the user's file.                         *)
LoadedOnce ==
    /\ entry.loaders <= 1
    /\ \A b \in Builds : At(b, "compile") /\ b \notin Full => entry.loaders = 1

(* The entry point is never set back to an earlier revision of the user's, *)
(* crashes included, but for the handler of a failed injection.            *)
NewestSource == "stale" \notin mishaps => entry.rev = revision

(* frontend_worker.py: "Write env file if configured (backup original,     *)
(* restore after build)".                                                  *)
EnvRestored == holder = NoBuild /\ crashes = 0 => env = original.env
================================================================================
