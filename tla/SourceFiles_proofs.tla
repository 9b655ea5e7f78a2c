--------------------------- MODULE SourceFiles_proofs ---------------------------
(***************************************************************************)
(* The files of a project directory, for any number of builds, crashes and *)
(* edits.                                                                  *)
(***************************************************************************)
EXTENDS SourceFiles, TLAPS

Inside == {"start", "npm", "compile", "env", "dockerfile", "imaging", "leaving"}

(* The project lock, seen from here.                                       *)
OneInside == \A b \in Builds : pc[b] \in Inside => holder = b

InDocker(b) == pc[b] \in {"env", "dockerfile", "imaging"}

(* A worker starts with the initial values of its locals, and keeps to its *)
(* own files.                                                              *)
LocalsOf(b) ==
    /\ pc[b] \in {"waiting", "start"} => kept[b] = Nothing
    /\ At(b, "npm") =>
          ~kept[b].generated /\ ~kept[b].extended /\ ~kept[b].ignoreBak
    /\ At(b, "env") => ~kept[b].wroteEnv /\ ~kept[b].extended
    /\ InDocker(b) => /\ kept[b].extended => kept[b].wroteEnv
                      /\ kept[b].ignoreBak => kept[b].generated

Locals == \A b \in Builds : LocalsOf(b)

Revisions ==
    /\ revision >= 1
    /\ entry.rev >= 1
    /\ backup = NoBackup \/ backup.rev >= 1

Injected(b) == At(b, "compile") /\ kept[b].backedUp

(* The backup never has a loader, and is the compiled entry point without  *)
(* its loader when the worker made it.                                     *)
Loaders ==
    /\ LoadedOnce
    /\ backup.loaders = 0
    /\ \A b \in Builds :
         Injected(b) => /\ backup = [rev |-> entry.rev, loaders |-> 0]
                        /\ entry.loaders = 1

EntryOwed ==
    mishaps = {} /\ (\A b \in Builds : ~Injected(b)) =>
        entry = [rev |-> revision, loaders |-> 0] /\ backup = NoBackup

EntryInv == Revisions /\ Loaders /\ NewestSource /\ EntryOwed

WroteEnv(b) == pc[b] \in {"npm", "dockerfile", "imaging"} /\ kept[b].wroteEnv

EnvOwed ==
    mishaps = {} =>
        /\ \A b \in Builds : WroteEnv(b) => kept[b].env = original.env
        /\ (\A b \in Builds : ~WroteEnv(b)) => env = original.env

(* What the clean-up of the docker worker finds.                           *)
IgnoreDebt(b) ==
    IF kept[b].ignoreBak
    THEN ignoreBak = original.ignore /\ ignoreBak # {}
    ELSE /\ ignoreBak = {}
         /\ IF kept[b].generated THEN original.ignore = {}
            ELSE IF kept[b].extended THEN kept[b].ignore = original.ignore
            ELSE ignore = original.ignore

IgnoreOwed ==
    mishaps = {} =>
        /\ \A b \in Builds : InDocker(b) => IgnoreDebt(b)
        /\ (\A b \in Builds : ~InDocker(b)) =>
              ignore = original.ignore /\ ignoreBak = {}

DockerfileOwed ==
    mishaps = {} /\ (\A b \in Builds : ~At(b, "imaging")) => dockerfile = NoBuild

(* What a build has prepared by the time its tools read it.                *)
Prepared(b) ==
    /\ At(b, "npm") /\ b \in WithEnv => env = {b}
    /\ At(b, "env") => ~Precompiled(b)
    /\ pc[b] \in {"dockerfile", "imaging"} =>
          /\ Precompiled(b) => ignore = {b}
          /\ ~Precompiled(b) /\ b \in WithEnv => env = {} \/ (env = {b} /\ b \in ignore)
    /\ At(b, "imaging") => dockerfile = b

OwnFiles == \A b \in Builds : Prepared(b)

FInv ==
    /\ FilesTypeOK
    /\ OneInside
    /\ Locals
    /\ EntryInv
    /\ EnvOwed
    /\ IgnoreOwed
    /\ DockerfileOwed
    /\ OwnFiles
--------------------------------------------------------------------------------
LEMMA ChainLength ==
    \A b \in Builds : Len(Chain[b]) \in Nat /\ Len(Chain[b]) >= 1
<1> TAKE b \in Builds
<1>1. Chain[b] \in Seq(Worker) /\ Chain[b] # <<>>
  BY FilesAssumption DEF FilesAssumption
<1>2. QED
  BY <1>1

LEMMA Contents ==
    /\ {} \in Content
    /\ \A b \in Builds : {b} \in Content
    /\ \A c \in Content, b \in Builds : c \cup {b} \in Content
BY DEF Content

LEMMA FInvInit == ASSUME FilesInit PROVE FInv
<1>1. FilesTypeOK
  <2>1. kept \in [Builds -> Kept]
    <3>1. Nothing \in Kept
      BY Contents DEF Nothing, Kept
    <3>2. QED
      BY <3>1 DEF FilesInit
  <2>2. /\ entry \in Source /\ backup \in Source
    BY DEF FilesInit, Source, NoBackup
  <2>3. original.env \in {{}, {User}} /\ original.ignore \in {{}, {User}}
    BY DEF FilesInit
  <2>4. env \in Content /\ ignore \in Content /\ ignoreBak \in Content
    BY <2>3 DEF FilesInit, Content
  <2>5. \A b \in Builds : stage[b] \in 1 .. Len(Chain[b])
    <3>1. stage = [b \in Builds |-> 1]
      BY DEF FilesInit
    <3>2. SUFFICES ASSUME NEW b \in Builds PROVE 1 \in 1 .. Len(Chain[b])
      BY <3>1
    <3>3. QED
      BY ChainLength
  <2>6. QED
    BY <2>1, <2>2, <2>4, <2>5 DEF FilesInit, FilesTypeOK, FilesPc, Mishap
<1>2. OneInside /\ Locals
  BY DEF FilesInit, OneInside, Inside, Locals, LocalsOf, InDocker, At,
         Nothing
<1>3. EntryInv
  BY DEF FilesInit, EntryInv, Revisions, Loaders, LoadedOnce, NewestSource, EntryOwed,
         Injected, At, NoBackup
<1>4. EnvOwed /\ IgnoreOwed /\ DockerfileOwed /\ OwnFiles
  BY DEF FilesInit, OwnFiles, Prepared, EnvOwed, WroteEnv, IgnoreOwed, InDocker, DockerfileOwed, At
<1>5. QED
  BY <1>1, <1>2, <1>3, <1>4 DEF FInv
--------------------------------------------------------------------------------
KeptType == kept \in [Builds -> Kept]

StageType ==
    /\ stage \in [Builds -> Nat]
    /\ \A b \in Builds : stage[b] \in 1 .. Len(Chain[b])

RestType ==
    /\ entry \in Source /\ backup \in Source
    /\ env \in Content /\ ignore \in Content /\ ignoreBak \in Content
    /\ dockerfile \in Builds \cup {NoBuild}
    /\ holder \in Builds \cup {NoBuild}
    /\ pc \in [Builds -> FilesPc]
    /\ original \in [env : {{}, {User}}, ignore : {{}, {User}}]
    /\ revision \in Nat
    /\ mishaps \subseteq Mishap
    /\ crashes \in Nat

LEMMA NothingKept == Nothing \in Kept
BY Contents DEF Nothing, Kept

(* What the workers do to their locals keeps the type.                     *)
LEMMA KeptFields ==
    ASSUME NEW k \in Kept, NEW c \in Content, NEW d \in Content,
           NEW flag \in BOOLEAN
    PROVE  /\ [k EXCEPT !.env = c, !.wroteEnv = TRUE] \in Kept
           /\ [k EXCEPT !.backedUp = TRUE] \in Kept
           /\ [k EXCEPT !.generated = TRUE] \in Kept
           /\ [k EXCEPT !.generated = TRUE, !.ignoreBak = flag] \in Kept
           /\ [k EXCEPT !.env = c, !.wroteEnv = TRUE,
                        !.ignore = d, !.extended = TRUE] \in Kept
BY DEF Kept

LEMMA KeptUpdate ==
    ASSUME KeptType, NEW b \in Builds, NEW k \in Kept,
           kept' = [kept EXCEPT ![b] = k]
    PROVE  KeptType'
BY DEF KeptType

LEMMA KeptNext ==
    ASSUME RestType, KeptType, [FilesNext]_filesVars
    PROVE  KeptType'
<1> USE DEF controlVars
<1>a. env \in Content /\ ignore \in Content
  BY DEF RestType
<1>b. ASSUME UNCHANGED kept PROVE KeptType'
  BY <1>b DEF KeptType
<1>c. ASSUME NEW b \in Builds, Succeed(b) PROVE KeptType'
  BY <1>c, NothingKept, KeptUpdate DEF Succeed
<1>1. ASSUME NEW b \in Builds,
             Enter(b) \/ LeaveProject(b) \/ Refuse(b) \/ FrontendFails(b)
               \/ InjectFails(b) \/ SkipEnv(b) \/ EnvFails(b)
               \/ WriteDockerfile(b) \/ DockerfileFails(b)
      PROVE  KeptType'
  BY <1>1, <1>b DEF Enter, LeaveProject, Refuse, FrontendFails, InjectFails,
                   SkipEnv, EnvFails, WriteDockerfile, DockerfileFails, Fail
<1>2. ASSUME NEW b \in Builds, StartFrontend(b) PROVE KeptType'
  <2>1. CASE UNCHANGED kept
    BY <2>1, <1>b
  <2>2. CASE WriteEnv(b)
    <3>1. kept' = [kept EXCEPT ![b] = [@ EXCEPT !.env = env, !.wroteEnv = TRUE]]
      BY <2>2 DEF WriteEnv, KeptType
    <3>2. [kept[b] EXCEPT !.env = env, !.wroteEnv = TRUE] \in Kept
      BY <1>a, KeptFields DEF KeptType
    <3>3. QED
      BY <3>1, <3>2, KeptUpdate
  <2>3. QED
    BY <1>2, <2>1, <2>2 DEF StartFrontend
<1>3. ASSUME NEW b \in Builds, FrontendBuilt(b) PROVE KeptType'
  BY <1>3, <1>c DEF FrontendBuilt
<1>4. ASSUME NEW b \in Builds, Inject(b) PROVE KeptType'
  <2>1. CASE UNCHANGED kept
    BY <2>1, <1>b
  <2>2. CASE BackedUp(b)
    <3>1. kept' = [kept EXCEPT ![b] = [@ EXCEPT !.backedUp = TRUE]]
      BY <2>2 DEF BackedUp
    <3>2. [kept[b] EXCEPT !.backedUp = TRUE] \in Kept
      BY <1>a, KeptFields DEF KeptType
    <3>3. QED
      BY <3>1, <3>2, KeptUpdate
  <2>3. QED
    BY <1>4, <2>1, <2>2 DEF Inject
<1>5. ASSUME NEW b \in Builds, Compiled(b) PROVE KeptType'
  BY <1>5, <1>b, <1>c DEF Compiled, Fail
<1>6. ASSUME NEW b \in Builds, StartDocker(b) PROVE KeptType'
  <2>1. CASE UNCHANGED kept
    BY <2>1, <1>b
  <2>2. CASE kept' = [kept EXCEPT ![b].generated = TRUE]
    <3>1. [kept[b] EXCEPT !.generated = TRUE] \in Kept
      BY <1>a, KeptFields DEF KeptType
    <3>2. QED
      BY <2>2, <3>1, KeptUpdate
  <2>3. CASE ReplaceIgnore(b)
    <3> DEFINE k == [kept[b] EXCEPT !.generated = TRUE,
                                    !.ignoreBak = (ignore # {})]
    <3>1. kept' = [kept EXCEPT ![b] = k]
      BY <2>3 DEF ReplaceIgnore, KeptType
    <3>2. k \in Kept
      BY <1>a, KeptFields DEF KeptType
    <3>3. QED
      BY <3>1, <3>2, KeptUpdate
  <2>4. QED
    BY <1>6, <2>1, <2>2, <2>3 DEF StartDocker, GenerateIgnore
<1>7. ASSUME NEW b \in Builds, AllowEnv(b) PROVE KeptType'
  <2> DEFINE k == [kept[b] EXCEPT !.env = env, !.wroteEnv = TRUE,
                                  !.ignore = ignore, !.extended = TRUE]
  <2>1. kept' = [kept EXCEPT ![b] = k]
    BY <1>7 DEF AllowEnv, KeptType
  <2>2. k \in Kept
    BY <1>a, KeptFields DEF KeptType
  <2>3. QED
    BY <2>1, <2>2, KeptUpdate
<1>8. ASSUME NEW b \in Builds, ImageBuilt(b) PROVE KeptType'
  BY <1>8, <1>b, <1>c DEF ImageBuilt, Fail
<1>9. CASE Crash
  BY <1>9, NothingKept DEF Crash, KeptType
<1>10. CASE Edit
  BY <1>10, <1>b DEF Edit
<1>11. CASE UNCHANGED filesVars
  BY <1>11, <1>b DEF filesVars
<1>12. QED
  BY <1>1, <1>2, <1>3, <1>4, <1>5, <1>6, <1>7, <1>8, <1>9, <1>10, <1>11
     DEF FilesNext, WorkerStep

LEMMA StageNext ==
    ASSUME StageType, [FilesNext]_filesVars
    PROVE  StageType'
<1> USE DEF At, Goto, diskVars, controlVars, historyVars
<1>1. ASSUME NEW b \in Builds, Enter(b) PROVE StageType'
  BY <1>1, ChainLength DEF Enter, StageType
<1>2. ASSUME NEW b \in Builds, LeaveProject(b) PROVE StageType'
  BY <1>2, ChainLength DEF LeaveProject, StageType
<1>3. ASSUME NEW b \in Builds, Refuse(b) PROVE StageType'
  BY <1>3, ChainLength DEF Refuse, Fail, StageType
<1>4. ASSUME NEW b \in Builds, StartFrontend(b) PROVE StageType'
  BY <1>4, ChainLength DEF StartFrontend, Runs, WriteEnv, StageType
<1>5. ASSUME NEW b \in Builds, FrontendFails(b) PROVE StageType'
  BY <1>5, ChainLength DEF FrontendFails, Fail, Suffer, StageType
<1>6. ASSUME NEW b \in Builds, FrontendBuilt(b) PROVE StageType'
  BY <1>6, ChainLength DEF FrontendBuilt, RestoreEnv, Succeed, StageType
<1>7. ASSUME NEW b \in Builds, Inject(b) PROVE StageType'
  BY <1>7, ChainLength DEF Inject, Runs, BackedUp, StageType
<1>8. ASSUME NEW b \in Builds, InjectFails(b) PROVE StageType'
  BY <1>8, ChainLength DEF InjectFails, Runs, MoveBack, Fail, Suffer,
         StageType
<1>9. ASSUME NEW b \in Builds, Compiled(b) PROVE StageType'
  BY <1>9, ChainLength DEF Compiled, MoveBack, Succeed, Fail, StageType
<1>10. ASSUME NEW b \in Builds, StartDocker(b) PROVE StageType'
  BY <1>10, ChainLength DEF StartDocker, Runs, ReplaceIgnore,
         GenerateIgnore, StageType
<1>11. ASSUME NEW b \in Builds, AllowEnv(b) PROVE StageType'
  BY <1>11, ChainLength DEF AllowEnv, StageType
<1>11a. ASSUME NEW b \in Builds, SkipEnv(b) PROVE StageType'
  BY <1>11a, ChainLength DEF SkipEnv, StageType
<1>11b. ASSUME NEW b \in Builds, EnvFails(b) PROVE StageType'
  BY <1>11b, ChainLength DEF EnvFails, Fail, StageType
<1>12. ASSUME NEW b \in Builds, WriteDockerfile(b) PROVE StageType'
  BY <1>12, ChainLength DEF WriteDockerfile, StageType
<1>13. ASSUME NEW b \in Builds, DockerfileFails(b) PROVE StageType'
  BY <1>13, ChainLength DEF DockerfileFails, Fail, Suffer, StageType
<1>14. ASSUME NEW b \in Builds, ImageBuilt(b) PROVE StageType'
  BY <1>14, ChainLength DEF ImageBuilt, RestoreIgnore, RestoreEnv,
         Succeed, Fail, StageType
<1>15. CASE Crash
  BY <1>15 DEF Crash, StageType
<1>16. CASE Edit
  BY <1>16 DEF Edit, StageType
<1>17. CASE UNCHANGED filesVars
  BY <1>17 DEF filesVars, StageType
<1>18. QED
  BY <1>1, <1>2, <1>3, <1>4, <1>5, <1>6, <1>7, <1>8, <1>9, <1>10, <1>11, <1>11a, <1>11b,
         <1>12, <1>13, <1>14, <1>15, <1>16, <1>17 DEF FilesNext, WorkerStep

LEMMA RestNext ==
    ASSUME KeptType, RestType, [FilesNext]_filesVars
    PROVE  RestType'
<1> USE DEF At, Goto, diskVars, controlVars, historyVars
<1>1. ASSUME NEW b \in Builds, Enter(b) PROVE RestType'
  BY <1>1, Contents DEF Enter, RestType, KeptType, Kept, FilesPc, Source, NoBackup,
         Mishap
<1>2. ASSUME NEW b \in Builds, LeaveProject(b) PROVE RestType'
  BY <1>2, Contents DEF LeaveProject, RestType, KeptType, Kept, FilesPc, Source, NoBackup,
         Mishap
<1>3. ASSUME NEW b \in Builds, Refuse(b) PROVE RestType'
  BY <1>3, Contents DEF Refuse, Fail, RestType, KeptType, Kept, FilesPc, Source,
         NoBackup, Mishap
<1>4. ASSUME NEW b \in Builds, StartFrontend(b) PROVE RestType'
  BY <1>4, Contents DEF StartFrontend, Runs, WriteEnv, RestType, KeptType, Kept,
         FilesPc, Source, NoBackup, Mishap
<1>5. ASSUME NEW b \in Builds, FrontendFails(b) PROVE RestType'
  BY <1>5, Contents DEF FrontendFails, Fail, Suffer, RestType, KeptType, Kept, FilesPc,
         Source, NoBackup, Mishap
<1>6. ASSUME NEW b \in Builds, FrontendBuilt(b) PROVE RestType'
  BY <1>6, Contents DEF FrontendBuilt, RestoreEnv, Succeed, RestType, KeptType, Kept,
         FilesPc, Source, NoBackup, Mishap
<1>7. ASSUME NEW b \in Builds, Inject(b) PROVE RestType'
  BY <1>7, Contents DEF Inject, Runs, BackedUp, RestType, KeptType, Kept, FilesPc,
         Source, NoBackup, Mishap
<1>8. ASSUME NEW b \in Builds, InjectFails(b) PROVE RestType'
  <2>1. entry' \in Source /\ backup' \in Source
    BY <1>8 DEF InjectFails, MoveBack, RestType, Source, NoBackup
  <2>2. pc' \in [Builds -> FilesPc]
    BY <1>8 DEF InjectFails, Fail, RestType, FilesPc
  <2>3. mishaps' \subseteq Mishap
    BY <1>8 DEF InjectFails, Suffer, RestType, Mishap
  <2>4. UNCHANGED <<env, ignore, ignoreBak, dockerfile, holder,
                    original, revision, crashes>>
    BY <1>8 DEF InjectFails, Fail, Suffer
  <2>5. QED
    BY <2>1, <2>2, <2>3, <2>4 DEF RestType
<1>9. ASSUME NEW b \in Builds, Compiled(b) PROVE RestType'
  <2>1. entry' \in Source /\ backup' \in Source
    BY <1>9 DEF Compiled, MoveBack, RestType, Source, NoBackup
  <2>2. pc' \in [Builds -> FilesPc]
    BY <1>9 DEF Compiled, Succeed, Fail, RestType, FilesPc
  <2>3. UNCHANGED <<env, ignore, ignoreBak, dockerfile, holder,
                    original, revision, mishaps, crashes>>
    BY <1>9 DEF Compiled, Succeed, Fail
  <2>4. QED
    BY <2>1, <2>2, <2>3 DEF RestType
<1>10. ASSUME NEW b \in Builds, StartDocker(b) PROVE RestType'
  BY <1>10, Contents DEF StartDocker, Runs, ReplaceIgnore,
         GenerateIgnore, RestType, KeptType, Kept, FilesPc, Source, NoBackup, Mishap
<1>11. ASSUME NEW b \in Builds, AllowEnv(b) PROVE RestType'
  BY <1>11, Contents DEF AllowEnv, RestType, KeptType, Kept, FilesPc, Source, NoBackup,
         Mishap
<1>11a. ASSUME NEW b \in Builds, SkipEnv(b) PROVE RestType'
  BY <1>11a, Contents DEF SkipEnv, RestType, KeptType, Kept, FilesPc
<1>11b. ASSUME NEW b \in Builds, EnvFails(b) PROVE RestType'
  <2>1. env' \in Content
    BY <1>11b, Contents DEF EnvFails, RestType
  <2>2. pc' \in [Builds -> FilesPc]
    BY <1>11b DEF EnvFails, Fail, RestType, FilesPc
  <2>3. mishaps' \subseteq Mishap
    BY <1>11b DEF EnvFails, Suffer, RestType, Mishap
  <2>4. UNCHANGED <<entry, backup, ignore, ignoreBak, dockerfile, holder,
                    original, revision, crashes>>
    BY <1>11b DEF EnvFails, Fail, Suffer
  <2>5. QED
    BY <2>1, <2>2, <2>3, <2>4 DEF RestType
<1>12. ASSUME NEW b \in Builds, WriteDockerfile(b) PROVE RestType'
  BY <1>12, Contents DEF WriteDockerfile, RestType, KeptType, Kept, FilesPc, Source,
         NoBackup, Mishap
<1>13. ASSUME NEW b \in Builds, DockerfileFails(b) PROVE RestType'
  BY <1>13, Contents DEF DockerfileFails, Fail, Suffer, RestType, KeptType, Kept,
         FilesPc, Source, NoBackup, Mishap
<1>14. ASSUME NEW b \in Builds, ImageBuilt(b) PROVE RestType'
  <2>1. env' \in Content
    BY <1>14, Contents DEF ImageBuilt, RestoreEnv, RestType, KeptType, Kept
  <2>2. ignore' \in Content /\ ignoreBak' \in Content
    BY <1>14, Contents DEF ImageBuilt, RestoreIgnore, RestType, KeptType, Kept
  <2>3. pc' \in [Builds -> FilesPc]
    BY <1>14 DEF ImageBuilt, Succeed, Fail, RestType, FilesPc
  <2>4. UNCHANGED <<entry, backup, holder, original, revision, mishaps, crashes>>
        /\ dockerfile' = NoBuild
    BY <1>14 DEF ImageBuilt, Succeed, Fail
  <2>5. QED
    BY <2>1, <2>2, <2>3, <2>4 DEF RestType
<1>15. CASE Crash
  BY <1>15 DEF Crash, RestType, KeptType, Kept, FilesPc, Source, NoBackup, Mishap
<1>16. CASE Edit
  BY <1>16 DEF Edit, RestType, KeptType, Kept, FilesPc, Source, NoBackup, Mishap
<1>17. CASE UNCHANGED filesVars
  BY <1>17 DEF filesVars, RestType, KeptType, Kept, FilesPc, Source, NoBackup, Mishap
<1>18. QED
  BY <1>1, <1>2, <1>3, <1>4, <1>5, <1>6, <1>7, <1>8, <1>9, <1>10, <1>11, <1>11a, <1>11b,
         <1>12, <1>13, <1>14, <1>15, <1>16, <1>17 DEF FilesNext, WorkerStep

LEMMA FilesTypeNext ==
    ASSUME FilesTypeOK, [FilesNext]_filesVars
    PROVE  FilesTypeOK'
<1>1. KeptType /\ StageType /\ RestType
  BY DEF FilesTypeOK, KeptType, StageType, RestType
<1>2. KeptType' /\ StageType' /\ RestType'
  BY <1>1, KeptNext, StageNext, RestNext
<1>3. QED
  BY <1>2 DEF FilesTypeOK, KeptType, StageType, RestType
--------------------------------------------------------------------------------
(* A step of the build that is inside.                                     *)
InsideStep(b) ==
    \/ Refuse(b)
    \/ StartFrontend(b) \/ FrontendFails(b) \/ FrontendBuilt(b)
    \/ Inject(b) \/ InjectFails(b) \/ Compiled(b)
    \/ StartDocker(b) \/ SkipEnv(b) \/ AllowEnv(b) \/ EnvFails(b)
    \/ WriteDockerfile(b) \/ DockerfileFails(b) \/ ImageBuilt(b)

LEMMA InsideMoves ==
    ASSUME FilesTypeOK, NEW b \in Builds, InsideStep(b)
    PROVE  /\ pc[b] \in Inside /\ pc'[b] \in Inside
           /\ pc[b] # "leaving"
           /\ UNCHANGED holder
           /\ \A c \in Builds \ {b} : pc'[c] = pc[c] /\ kept'[c] = kept[c]
<1> DEFINE Moves == /\ pc[b] \in Inside /\ pc'[b] \in Inside
                    /\ pc[b] # "leaving"
                    /\ UNCHANGED holder
                    /\ \A c \in Builds \ {b} : pc'[c] = pc[c] /\ kept'[c] = kept[c]
<1> USE DEF FilesTypeOK, At, Goto, Inside, controlVars
<1>1. CASE Refuse(b)
  BY <1>1 DEF Refuse, Fail
<1>2. CASE StartFrontend(b)
  BY <1>2 DEF StartFrontend, Runs, WriteEnv
<1>3. CASE FrontendFails(b)
  BY <1>3 DEF FrontendFails, Fail
<1>4. CASE FrontendBuilt(b)
  BY <1>4 DEF FrontendBuilt, Succeed
<1>5. CASE Inject(b)
  BY <1>5 DEF Inject, Runs, BackedUp
<1>6. CASE InjectFails(b)
  BY <1>6 DEF InjectFails, Runs, Fail
<1>7. CASE Compiled(b)
  BY <1>7 DEF Compiled, Succeed, Fail
<1>8. CASE StartDocker(b)
  BY <1>8 DEF StartDocker, Runs, ReplaceIgnore, GenerateIgnore
<1>9. CASE AllowEnv(b)
  BY <1>9 DEF AllowEnv
<1>9a. CASE SkipEnv(b)
  BY <1>9a DEF SkipEnv
<1>9b. CASE EnvFails(b)
  BY <1>9b DEF EnvFails, Fail
<1>10. CASE WriteDockerfile(b)
  BY <1>10 DEF WriteDockerfile
<1>11. CASE DockerfileFails(b)
  BY <1>11 DEF DockerfileFails, Fail
<1>12. CASE ImageBuilt(b)
  BY <1>12 DEF ImageBuilt, Succeed, Fail
<1>13. QED
  BY <1>1, <1>2, <1>3, <1>4, <1>5, <1>6, <1>7, <1>8, <1>9, <1>9a, <1>9b, <1>10,
     <1>11, <1>12 DEF InsideStep

(* The others are outside, before and after.                               *)
LEMMA Alone ==
    ASSUME FilesTypeOK, OneInside, NEW b \in Builds, InsideStep(b)
    PROVE  \A c \in Builds \ {b} :
              /\ pc[c] \notin Inside /\ pc'[c] \notin Inside
              /\ UNCHANGED <<pc[c], kept[c]>>
BY InsideMoves DEF OneInside

LEMMA OneInsideNext ==
    ASSUME FilesTypeOK, OneInside, [FilesNext]_filesVars
    PROVE  OneInside'
<1> USE FilesAssumption DEF FilesAssumption
<1>1. ASSUME NEW b \in Builds, Enter(b) PROVE OneInside'
  BY <1>1 DEF Enter, Goto, OneInside, FilesTypeOK
<1>2. ASSUME NEW b \in Builds, LeaveProject(b) PROVE OneInside'
  BY <1>2 DEF LeaveProject, At, Goto, OneInside, Inside, FilesTypeOK
<1>3. ASSUME NEW b \in Builds, InsideStep(b) PROVE OneInside'
  BY <1>3, InsideMoves DEF OneInside
<1>4. CASE Crash
  BY <1>4 DEF Crash, OneInside, Inside
<1>5. CASE Edit
  BY <1>5 DEF Edit, OneInside, controlVars
<1>6. CASE UNCHANGED filesVars
  BY <1>6 DEF filesVars, controlVars, OneInside
<1>7. QED
  BY <1>1, <1>2, <1>3, <1>4, <1>5, <1>6 DEF FilesNext, WorkerStep, InsideStep

LEMMA LocalsNext ==
    ASSUME FilesTypeOK, Locals, [FilesNext]_filesVars
    PROVE  Locals'
<1> USE DEF LocalsOf, InDocker, At, Goto
<1>1. ASSUME NEW b \in Builds, Enter(b) \/ LeaveProject(b) PROVE Locals'
  BY <1>1 DEF Enter, LeaveProject, Locals, FilesTypeOK
<1>2. ASSUME NEW b \in Builds, InsideStep(b) PROVE Locals'
  <2>1. ASSUME NEW c \in Builds \ {b} PROVE LocalsOf(c)'
    BY <1>2, <2>1, InsideMoves DEF Locals
  <2>2. LocalsOf(b) /\ pc \in [Builds -> FilesPc] /\ kept \in [Builds -> Kept]
    BY DEF Locals, FilesTypeOK
  <2> HIDE DEF LocalsOf
  <2> SUFFICES LocalsOf(b)'
    BY <2>1 DEF Locals
  <2>3. ASSUME Succeed(b) PROVE LocalsOf(b)'
    <3>1. kept'[b] = Nothing /\ pc'[b] \in {"start", "leaving"}
      BY <2>2, <2>3 DEF Succeed
    <3>2. QED
      BY <3>1 DEF LocalsOf
  <2>4. ASSUME Fail(b) PROVE LocalsOf(b)'
    BY <2>2, <2>4 DEF Fail, LocalsOf
  <2>5. CASE Refuse(b) \/ FrontendFails(b) \/ InjectFails(b) \/ EnvFails(b) \/ DockerfileFails(b)
    BY <2>4, <2>5 DEF Refuse, FrontendFails, InjectFails, EnvFails, DockerfileFails
  <2>6. CASE FrontendBuilt(b) \/ Compiled(b) \/ ImageBuilt(b)
    BY <2>3, <2>4, <2>6 DEF FrontendBuilt, Compiled, ImageBuilt
  <2>7. CASE StartFrontend(b)
    BY <2>2, <2>7 DEF StartFrontend, Runs, WriteEnv, LocalsOf, Kept, Nothing
  <2>8. CASE Inject(b)
    BY <2>2, <2>8 DEF Inject, Runs, LocalsOf
  <2>9. CASE StartDocker(b)
    BY <2>2, <2>9 DEF StartDocker, Runs, ReplaceIgnore, GenerateIgnore,
                      LocalsOf, Kept, Nothing
  <2>10. CASE AllowEnv(b)
    BY <2>2, <2>10 DEF AllowEnv, LocalsOf, Kept
  <2>11. CASE SkipEnv(b) \/ WriteDockerfile(b)
    BY <2>2, <2>11 DEF SkipEnv, WriteDockerfile, LocalsOf
  <2>12. QED
    BY <1>2, <2>5, <2>6, <2>7, <2>8, <2>9, <2>10, <2>11 DEF InsideStep
<1>3. CASE Crash
  BY <1>3 DEF Crash, Locals
<1>4. CASE Edit
  BY <1>4 DEF Edit, Locals, controlVars
<1>5. CASE UNCHANGED filesVars
  BY <1>5 DEF filesVars, controlVars, Locals
<1>6. QED
  BY <1>1, <1>2, <1>3, <1>4, <1>5 DEF FilesNext, WorkerStep, InsideStep
--------------------------------------------------------------------------------
(* Steps that leave the entry point alone and do not reach the compiler.   *)
LEMMA EntryQuiet ==
    ASSUME EntryInv, UNCHANGED <<entry, backup, revision>>,
           mishaps \subseteq mishaps',
           \A b \in Builds : At(b, "compile")' =>
                             At(b, "compile") /\ UNCHANGED kept[b],
           mishaps' = {} => \A b \in Builds : Injected(b) => Injected(b)'
    PROVE  EntryInv'
<1> USE DEF EntryInv, At, Injected
<1>1. Revisions' /\ NewestSource'
  BY DEF Revisions, NewestSource
<1>2. Loaders'
  BY DEF Loaders, LoadedOnce
<1>3. EntryOwed'
  BY DEF EntryOwed
<1>4. QED
  BY <1>1, <1>2, <1>3

LEMMA EntryNext ==
    ASSUME FilesTypeOK, OneInside, Locals, EntryInv, [FilesNext]_filesVars
    PROVE  EntryInv'
<1> USE DEF controlVars, historyVars, diskVars
<1>1. ASSUME NEW b \in Builds, Enter(b) \/ LeaveProject(b) PROVE EntryInv'
  BY <1>1, EntryQuiet DEF Enter, LeaveProject, At, Goto, Injected, FilesTypeOK
<1>2. ASSUME NEW b \in Builds, InsideStep(b) PROVE EntryInv'
  <2>1. \A c \in Builds \ {b} : /\ ~At(c, "compile") /\ ~At(c, "compile")'
                                /\ ~Injected(c) /\ ~Injected(c)'
    BY <1>2, Alone DEF At, Injected, Inside
  <2>2. pc \in [Builds -> FilesPc] /\ kept \in [Builds -> Kept]
        /\ entry \in Source /\ backup \in Source /\ LocalsOf(b)
    BY DEF FilesTypeOK, Locals
  <2>3. CASE /\ ~At(b, "compile") /\ ~At(b, "compile")'
             /\ UNCHANGED <<entry, backup, revision>>
             /\ mishaps \subseteq mishaps'
    BY <2>1, <2>3, EntryQuiet DEF Injected
  <2>4. CASE Refuse(b)
    BY <2>2, <2>3, <2>4 DEF Refuse, Fail, At, Goto
  <2>5. CASE StartFrontend(b) \/ FrontendFails(b) \/ FrontendBuilt(b)
    BY <2>2, <2>3, <2>5
       DEF StartFrontend, FrontendFails, FrontendBuilt, Runs, Suffer,
           Succeed, Fail, At, Goto
  <2>6. CASE StartDocker(b) \/ SkipEnv(b) \/ AllowEnv(b) \/ EnvFails(b)
    BY <2>2, <2>3, <2>6
       DEF StartDocker, SkipEnv, AllowEnv, EnvFails, Suffer, Fail, Runs, At, Goto
  <2>7. CASE WriteDockerfile(b) \/ DockerfileFails(b) \/ ImageBuilt(b)
    BY <2>2, <2>3, <2>7
       DEF WriteDockerfile, DockerfileFails, ImageBuilt, Suffer, Succeed,
           Fail, At, Goto
  <2>8. CASE Inject(b)
    <3>1. kept[b] = Nothing /\ ~Injected(b) /\ pc'[b] = "compile"
          /\ UNCHANGED <<revision, mishaps>>
      BY <2>2, <2>8 DEF Inject, Runs, At, Goto, LocalsOf, Injected
    <3>2. CASE UNCHANGED <<entry, backup, kept>> /\ (b \in Full \/ entry.loaders > 0)
      <4>1. ~Injected(b)'
        BY <3>1, <3>2 DEF Injected, Nothing
      <4>2. Revisions' /\ NewestSource'
        BY <3>1, <3>2 DEF EntryInv, Revisions, NewestSource
      <4>3. EntryOwed'
        BY <2>1, <3>1, <3>2 DEF EntryInv, EntryOwed
      <4>4. Loaders'
        BY <2>1, <2>2, <3>1, <3>2, <4>1
           DEF EntryInv, Loaders, LoadedOnce, At, Source
      <4>5. QED
        BY <4>2, <4>3, <4>4 DEF EntryInv
    <3>3. CASE /\ entry.loaders = 0
               /\ backup' = entry /\ entry' = [entry EXCEPT !.loaders = @ + 1]
               /\ BackedUp(b)
      <4>1. Injected(b)'
        BY <2>2, <3>1, <3>3 DEF Injected, BackedUp, At, Kept
      <4>2. entry'.rev = entry.rev /\ entry'.loaders = 1
            /\ backup' = [rev |-> entry.rev, loaders |-> 0]
        BY <2>2, <3>3 DEF Source
      <4>3. Revisions' /\ NewestSource'
        BY <3>1, <4>2 DEF EntryInv, Revisions, NewestSource
      <4>4. EntryOwed'
        BY <4>1 DEF EntryOwed
      <4>5. Loaders'
        BY <2>1, <4>2 DEF Loaders, LoadedOnce
      <4>6. QED
        BY <4>3, <4>4, <4>5 DEF EntryInv
    <3>4. entry.loaders = 0 \/ entry.loaders > 0
      BY <2>2 DEF Source
    <3>5. QED
      BY <2>8, <3>2, <3>3, <3>4 DEF Inject
  <2>9. CASE InjectFails(b)
    <3>1. ~Injected(b) /\ pc'[b] = "leaving" /\ UNCHANGED revision
      BY <2>2, <2>9 DEF InjectFails, Runs, Fail, Suffer, At, Goto, Injected
    <3>2. CASE backup = NoBackup
      BY <2>1, <2>3, <2>9, <3>1, <3>2 DEF InjectFails, Runs, MoveBack, At
    <3>3. CASE backup # NoBackup
      <4>1. entry' = backup /\ backup' = NoBackup /\ "stale" \in mishaps'
        BY <2>9, <3>3 DEF InjectFails, MoveBack, Suffer
      <4>2. Revisions' /\ NewestSource' /\ EntryOwed'
        BY <3>1, <3>3, <4>1 DEF EntryInv, Revisions, NewestSource, EntryOwed
      <4>3. Loaders'
        BY <2>1, <3>1, <4>1
           DEF EntryInv, Loaders, LoadedOnce, NoBackup, At, Injected
      <4>4. QED
        BY <4>2, <4>3 DEF EntryInv
    <3>4. QED
      BY <3>2, <3>3
  <2>10. CASE Compiled(b)
    <3>1. At(b, "compile") /\ pc'[b] \in {"start", "leaving"}
          /\ UNCHANGED <<revision, mishaps>>
      BY <2>2, <2>10 DEF Compiled, Succeed, Fail, At, Goto
    <3>2. ~Injected(b)' /\ ~At(b, "compile")'
      BY <3>1 DEF Injected, At
    <3>3. CASE ~kept[b].backedUp
      <4>1. ~Injected(b) /\ UNCHANGED <<entry, backup>>
        BY <2>10, <3>3 DEF Compiled, Injected
      <4>2. QED
        BY <2>1, <3>1, <3>2, <4>1, EntryQuiet
    <3>4. CASE kept[b].backedUp
      <4>1. backup = [rev |-> entry.rev, loaders |-> 0]
        BY <3>1, <3>4 DEF EntryInv, Loaders, Injected
      <4>2. backup # NoBackup
        BY <4>1 DEF EntryInv, Revisions, NoBackup
      <4>3. entry' = [rev |-> entry.rev, loaders |-> 0] /\ backup' = NoBackup
        BY <2>10, <3>4, <4>1, <4>2 DEF Compiled, MoveBack
      <4>4. Revisions' /\ NewestSource'
        BY <3>1, <4>3 DEF EntryInv, Revisions, NewestSource
      <4>5. EntryOwed'
        BY <3>1, <4>3 DEF EntryInv, NewestSource, EntryOwed
      <4>6. Loaders'
        BY <2>1, <3>2, <4>3 DEF Loaders, LoadedOnce, NoBackup
      <4>7. QED
        BY <4>4, <4>5, <4>6 DEF EntryInv
    <3>5. QED
      BY <3>3, <3>4
  <2>11. QED
    BY <1>2, <2>4, <2>5, <2>6, <2>7, <2>8, <2>9, <2>10 DEF InsideStep
<1>3. CASE Crash
  BY <1>3, EntryQuiet DEF Crash, At
<1>4. CASE Edit
  <2>1. \A b \in Builds : ~At(b, "compile") /\ ~At(b, "compile")'
    BY <1>4, FilesAssumption DEF Edit, OneInside, Inside, At, FilesAssumption
  <2>2. PICK loaders \in {0, entry.loaders} :
          entry' = [rev |-> revision', loaders |-> loaders]
    BY <1>4 DEF Edit
  <2>3. revision' = revision + 1 /\ revision \in Nat
        /\ UNCHANGED <<backup, mishaps, kept>>
    BY <1>4 DEF Edit, FilesTypeOK
  <2>4. Revisions' /\ NewestSource'
    BY <2>2, <2>3 DEF EntryInv, Revisions, NewestSource
  <2>5. Loaders'
    BY <2>1, <2>2, <2>3 DEF EntryInv, Loaders, LoadedOnce, Injected
  <2>6. EntryOwed'
    BY <2>1, <2>2, <2>3 DEF EntryInv, EntryOwed, Injected
  <2>7. QED
    BY <2>4, <2>5, <2>6 DEF EntryInv
<1>5. CASE UNCHANGED filesVars
  BY <1>5, EntryQuiet DEF filesVars, At, Injected
<1>6. QED
  BY <1>1, <1>2, <1>3, <1>4, <1>5 DEF FilesNext, WorkerStep, InsideStep
--------------------------------------------------------------------------------
(* Steps that leave the env file alone.                                    *)
LEMMA EnvQuiet ==
    ASSUME EnvOwed, UNCHANGED <<env, original>>, mishaps \subseteq mishaps',
           mishaps' = {} => \A b \in Builds :
              /\ WroteEnv(b)' <=> WroteEnv(b)
              /\ WroteEnv(b) => UNCHANGED kept[b]
    PROVE  EnvOwed'
BY DEF EnvOwed

LEMMA EnvNext ==
    ASSUME FilesTypeOK, OneInside, Locals, EnvOwed, [FilesNext]_filesVars
    PROVE  EnvOwed'
<1> USE DEF controlVars, historyVars, diskVars
<1>1. ASSUME NEW b \in Builds, Enter(b) \/ LeaveProject(b) PROVE EnvOwed'
  BY <1>1, EnvQuiet DEF Enter, LeaveProject, At, Goto, WroteEnv, FilesTypeOK
<1>2. ASSUME NEW b \in Builds, InsideStep(b) PROVE EnvOwed'
  <2>1. \A c \in Builds \ {b} : ~WroteEnv(c) /\ ~WroteEnv(c)'
    BY <1>2, Alone DEF WroteEnv, Inside
  <2>2. pc \in [Builds -> FilesPc] /\ kept \in [Builds -> Kept] /\ LocalsOf(b)
    BY DEF FilesTypeOK, Locals
  <2>3. CASE /\ ~WroteEnv(b) /\ ~WroteEnv(b)'
             /\ UNCHANGED <<env, original>>
             /\ mishaps \subseteq mishaps'
    BY <2>1, <2>3, EnvQuiet
  <2>4. CASE Refuse(b) \/ Inject(b) \/ InjectFails(b) \/ Compiled(b)
    BY <2>2, <2>3, <2>4
       DEF Refuse, Inject, InjectFails, Compiled, Runs, Succeed, Fail, Suffer,
           At, Goto, WroteEnv
  <2>5. CASE StartDocker(b)
    <3>1. kept[b] = Nothing /\ pc[b] = "start"
      BY <2>2, <2>5 DEF StartDocker, Runs, At, LocalsOf
    <3>2. kept'[b].wroteEnv = FALSE
      BY <2>2, <2>5, <3>1
         DEF StartDocker, ReplaceIgnore, GenerateIgnore, Nothing, Kept
    <3>3. QED
      BY <2>3, <2>5, <3>1, <3>2 DEF StartDocker, WroteEnv
  <2>6. CASE FrontendFails(b) \/ DockerfileFails(b)
    <3>1. ~WroteEnv(b)' /\ UNCHANGED <<env, original>>
      BY <2>2, <2>6 DEF FrontendFails, DockerfileFails, Fail, Suffer, Goto,
                        WroteEnv
    <3>2. mishaps \subseteq mishaps' /\ (mishaps' = {} => ~WroteEnv(b))
      BY <2>6 DEF FrontendFails, DockerfileFails, Suffer, WroteEnv, At
    <3>3. QED
      BY <2>1, <3>1, <3>2, EnvQuiet
  <2>6a. CASE SkipEnv(b)
    BY <2>2, <2>3, <2>6a DEF SkipEnv, LocalsOf, At, Goto, WroteEnv
  <2>6b. CASE EnvFails(b)
    <3>1. ~WroteEnv(b) /\ ~WroteEnv(b)' /\ UNCHANGED original
      BY <2>2, <2>6b DEF EnvFails, Fail, Suffer, At, Goto, WroteEnv
    <3>2. mishaps \subseteq mishaps' /\ (mishaps' = {} => UNCHANGED env)
      BY <2>6b DEF EnvFails, Suffer
    <3>3. QED
      BY <2>1, <3>1, <3>2 DEF EnvOwed
  <2>7. CASE WriteDockerfile(b)
    BY <2>1, <2>2, <2>7, EnvQuiet DEF WriteDockerfile, At, Goto, WroteEnv
  <2>8. CASE /\ ~WroteEnv(b)
             /\ WroteEnv(b)' /\ kept'[b].env = env
             /\ UNCHANGED <<original, mishaps>>
    BY <2>1, <2>8 DEF EnvOwed
  <2>9. CASE StartFrontend(b)
    <3>1. kept[b] = Nothing /\ pc[b] = "start" /\ pc'[b] = "npm"
          /\ UNCHANGED <<original, mishaps>>
      BY <2>2, <2>9 DEF StartFrontend, Runs, At, Goto, LocalsOf
    <3>2. CASE b \in WithEnv
      <4>1. kept'[b].env = env /\ kept'[b].wroteEnv
        BY <2>2, <2>9, <3>2 DEF StartFrontend, WriteEnv, Kept
      <4>2. QED
        BY <2>8, <3>1, <4>1 DEF WroteEnv
    <3>3. CASE b \notin WithEnv
      BY <2>3, <2>9, <3>1, <3>3 DEF StartFrontend, WroteEnv, Nothing
    <3>4. QED
      BY <3>2, <3>3
  <2>10. CASE AllowEnv(b)
    <3>1. kept'[b].env = env /\ kept'[b].wroteEnv
      BY <2>2, <2>10 DEF AllowEnv, Kept
    <3>2. QED
      BY <2>2, <2>8, <2>10, <3>1 DEF AllowEnv, At, Goto, WroteEnv
  <2>11. CASE RestoreEnv(b) /\ pc[b] \in {"npm", "imaging"} /\ ~WroteEnv(b)'
              /\ UNCHANGED <<original, mishaps>>
    BY <2>1, <2>11 DEF RestoreEnv, WroteEnv, EnvOwed
  <2>12. CASE FrontendBuilt(b) \/ ImageBuilt(b)
    BY <2>2, <2>11, <2>12
       DEF FrontendBuilt, ImageBuilt, Succeed, Fail, At, Goto, WroteEnv
  <2>13. QED
    BY <1>2, <2>4, <2>5, <2>6, <2>6a, <2>6b, <2>7, <2>9, <2>10, <2>12 DEF InsideStep
<1>3. CASE Crash
  BY <1>3, EnvQuiet DEF Crash
<1>4. CASE Edit
  BY <1>4, EnvQuiet DEF Edit, WroteEnv
<1>5. CASE UNCHANGED filesVars
  BY <1>5, EnvQuiet DEF filesVars, WroteEnv
<1>6. QED
  BY <1>1, <1>2, <1>3, <1>4, <1>5 DEF FilesNext, WorkerStep, InsideStep
--------------------------------------------------------------------------------
(* Steps that leave .dockerignore and its copy alone.                      *)
LEMMA IgnoreQuiet ==
    ASSUME IgnoreOwed, UNCHANGED <<ignore, ignoreBak, original>>,
           mishaps \subseteq mishaps',
           mishaps' = {} => \A b \in Builds :
              /\ InDocker(b)' <=> InDocker(b)
              /\ InDocker(b) => UNCHANGED kept[b]
    PROVE  IgnoreOwed'
BY DEF IgnoreOwed, IgnoreDebt

LEMMA IgnoreNext ==
    ASSUME FilesTypeOK, OneInside, Locals, IgnoreOwed, [FilesNext]_filesVars
    PROVE  IgnoreOwed'
<1> USE DEF controlVars, historyVars, diskVars
<1>1. ASSUME NEW b \in Builds, Enter(b) \/ LeaveProject(b) PROVE IgnoreOwed'
  BY <1>1, IgnoreQuiet DEF Enter, LeaveProject, At, Goto, InDocker, FilesTypeOK
<1>2. ASSUME NEW b \in Builds, InsideStep(b) PROVE IgnoreOwed'
  <2>1. \A c \in Builds \ {b} : ~InDocker(c) /\ ~InDocker(c)'
    BY <1>2, Alone DEF InDocker, Inside
  <2>2. pc \in [Builds -> FilesPc] /\ kept \in [Builds -> Kept] /\ LocalsOf(b)
    BY DEF FilesTypeOK, Locals
  <2>3. CASE /\ ~InDocker(b) /\ ~InDocker(b)'
             /\ UNCHANGED <<ignore, ignoreBak, original>>
             /\ mishaps \subseteq mishaps'
    BY <2>1, <2>3, IgnoreQuiet
  <2>4. CASE Refuse(b) \/ Inject(b) \/ InjectFails(b) \/ Compiled(b)
    BY <2>2, <2>3, <2>4
       DEF Refuse, Inject, InjectFails, Compiled, Runs, Succeed, Fail, Suffer,
           At, Goto, InDocker
  <2>5. CASE StartFrontend(b) \/ FrontendFails(b) \/ FrontendBuilt(b)
    BY <2>2, <2>3, <2>5
       DEF StartFrontend, FrontendFails, FrontendBuilt, Runs, Succeed, Fail,
           Suffer, At, Goto, InDocker
  <2>6. CASE SkipEnv(b) \/ WriteDockerfile(b)
    BY <2>1, <2>2, <2>6, IgnoreQuiet DEF SkipEnv, WriteDockerfile, At, Goto, InDocker
  <2>6a. CASE EnvFails(b)
    <3>1. InDocker(b) /\ ~InDocker(b)' /\ UNCHANGED <<ignore, ignoreBak, original>>
          /\ mishaps \subseteq mishaps'
      BY <2>2, <2>6a DEF EnvFails, Fail, Suffer, At, Goto, InDocker
    <3>2. mishaps' = {} => ~kept[b].generated
      BY <2>6a DEF EnvFails, Suffer
    <3>3. mishaps' = {} => ~kept[b].ignoreBak /\ ~kept[b].extended
      BY <2>2, <2>6a, <3>1, <3>2 DEF EnvFails, LocalsOf
    <3>4. QED
      BY <2>1, <3>1, <3>2, <3>3 DEF IgnoreOwed, IgnoreDebt
  <2>7. CASE DockerfileFails(b)
    <3>1. InDocker(b) /\ ~InDocker(b)' /\ UNCHANGED <<ignore, ignoreBak, original>>
          /\ mishaps \subseteq mishaps'
      BY <2>2, <2>7 DEF DockerfileFails, Fail, Suffer, At, Goto, InDocker
    <3>2. mishaps' = {} => ~kept[b].generated /\ ~kept[b].wroteEnv
      BY <2>7 DEF DockerfileFails, Suffer
    <3>3. mishaps' = {} => ~kept[b].ignoreBak /\ ~kept[b].extended
      BY <2>2, <3>1, <3>2 DEF LocalsOf
    <3>4. QED
      BY <2>1, <3>1, <3>2, <3>3 DEF IgnoreOwed, IgnoreDebt
  <2>8. CASE StartDocker(b)
    <3>1. kept[b] = Nothing /\ ~InDocker(b) /\ InDocker(b)'
          /\ UNCHANGED <<original, mishaps>>
      BY <2>2, <2>8 DEF StartDocker, Runs, At, Goto, InDocker, LocalsOf
    <3>2. mishaps = {} => ignore = original.ignore /\ ignoreBak = {}
      BY <2>1, <3>1 DEF IgnoreOwed
    <3>3. mishaps = {} => IgnoreDebt(b)'
      <4>1. CASE ReplaceIgnore(b)
        <5>1. kept'[b].generated = TRUE /\ kept'[b].ignoreBak = (ignore # {})
          BY <2>2, <4>1 DEF ReplaceIgnore, Kept
        <5>2. QED
          BY <3>1, <3>2, <4>1, <5>1 DEF ReplaceIgnore, IgnoreDebt
      <4>2. CASE GenerateIgnore(b)
        <5>1. CASE ignore = {}
          <6>1. kept'[b].generated = TRUE /\ kept'[b].ignoreBak = FALSE
            BY <2>2, <3>1, <4>2, <5>1 DEF GenerateIgnore, Kept, Nothing
          <6>2. QED
            BY <3>1, <3>2, <4>2, <5>1, <6>1 DEF GenerateIgnore, IgnoreDebt
        <5>2. CASE ignore # {}
          BY <3>1, <3>2, <4>2, <5>2 DEF GenerateIgnore, IgnoreDebt, Nothing
        <5>3. QED
          BY <5>1, <5>2
      <4>3. QED
        BY <2>8, <4>1, <4>2 DEF StartDocker
    <3>4. QED
      BY <2>1, <3>1, <3>3 DEF IgnoreOwed
  <2>9. CASE AllowEnv(b)
    <3>1. InDocker(b) /\ InDocker(b)' /\ ~kept[b].extended
          /\ UNCHANGED <<ignoreBak, original, mishaps>>
      BY <2>2, <2>9 DEF AllowEnv, At, Goto, InDocker, LocalsOf
    <3>2. kept'[b].extended /\ kept'[b].ignore = ignore
          /\ UNCHANGED <<kept[b].ignoreBak, kept[b].generated>>
      BY <2>2, <2>9 DEF AllowEnv, Kept
    <3>3. mishaps = {} => IgnoreDebt(b)
      BY <3>1 DEF IgnoreOwed
    <3>4. mishaps = {} => IgnoreDebt(b)'
      BY <3>1, <3>2, <3>3 DEF IgnoreDebt
    <3>5. QED
      BY <2>1, <3>1, <3>4 DEF IgnoreOwed
  <2>10. CASE ImageBuilt(b)
    <3>1. InDocker(b) /\ ~InDocker(b)' /\ UNCHANGED <<original, mishaps>>
      BY <2>2, <2>10 DEF ImageBuilt, Succeed, Fail, At, Goto, InDocker
    <3>2. mishaps = {} => IgnoreDebt(b)
      BY <3>1 DEF IgnoreOwed
    <3>3. mishaps = {} => ignore' = original.ignore /\ ignoreBak' = {}
      BY <2>10, <3>2 DEF ImageBuilt, RestoreIgnore, IgnoreDebt
    <3>4. QED
      BY <2>1, <3>1, <3>3 DEF IgnoreOwed
  <2>11. QED
    BY <1>2, <2>4, <2>5, <2>6, <2>6a, <2>7, <2>8, <2>9, <2>10 DEF InsideStep
<1>3. CASE Crash
  BY <1>3, IgnoreQuiet DEF Crash
<1>4. CASE Edit
  BY <1>4, IgnoreQuiet DEF Edit, InDocker
<1>5. CASE UNCHANGED filesVars
  BY <1>5, IgnoreQuiet DEF filesVars, InDocker
<1>6. QED
  BY <1>1, <1>2, <1>3, <1>4, <1>5 DEF FilesNext, WorkerStep, InsideStep
--------------------------------------------------------------------------------
LEMMA DockerfileNext ==
    ASSUME FilesTypeOK, OneInside, DockerfileOwed, [FilesNext]_filesVars
    PROVE  DockerfileOwed'
<1> USE DEF controlVars, historyVars, diskVars, DockerfileOwed
<1>1. ASSUME NEW b \in Builds, Enter(b) \/ LeaveProject(b) PROVE DockerfileOwed'
  BY <1>1 DEF Enter, LeaveProject, At, Goto, FilesTypeOK
<1>2. ASSUME NEW b \in Builds, InsideStep(b) PROVE DockerfileOwed'
  <2>1. \A c \in Builds \ {b} : ~At(c, "imaging")
    BY <1>2, Alone DEF At, Inside
  <2>2. pc \in [Builds -> FilesPc]
    BY DEF FilesTypeOK
  <2>3. CASE ~At(b, "imaging") /\ UNCHANGED dockerfile
             /\ mishaps \subseteq mishaps'
    BY <2>1, <2>3
  <2>4. CASE Refuse(b) \/ Inject(b) \/ InjectFails(b) \/ Compiled(b)
    BY <2>3, <2>4
       DEF Refuse, Inject, InjectFails, Compiled, Runs, Suffer, At
  <2>5. CASE StartFrontend(b) \/ FrontendFails(b) \/ FrontendBuilt(b)
    BY <2>3, <2>5
       DEF StartFrontend, FrontendFails, FrontendBuilt, Runs, Suffer, At
  <2>6. CASE StartDocker(b) \/ SkipEnv(b) \/ AllowEnv(b) \/ EnvFails(b) \/ DockerfileFails(b)
    BY <2>3, <2>6
       DEF StartDocker, SkipEnv, AllowEnv, EnvFails, DockerfileFails, Runs, Suffer, At
  <2>7. CASE WriteDockerfile(b)
    BY <2>2, <2>7 DEF WriteDockerfile, At, Goto
  <2>8. CASE ImageBuilt(b)
    BY <2>8 DEF ImageBuilt
  <2>9. QED
    BY <1>2, <2>4, <2>5, <2>6, <2>7, <2>8 DEF InsideStep
<1>3. CASE Crash
  BY <1>3 DEF Crash
<1>4. CASE Edit
  BY <1>4 DEF Edit, At
<1>5. CASE UNCHANGED filesVars
  BY <1>5 DEF filesVars, At
<1>6. QED
  BY <1>1, <1>2, <1>3, <1>4, <1>5 DEF FilesNext, WorkerStep, InsideStep

LEMMA OwnFilesNext ==
    ASSUME FilesTypeOK, OneInside, OwnFiles, [FilesNext]_filesVars
    PROVE  OwnFiles'
<1> USE DEF controlVars, historyVars, diskVars
<1>1. ASSUME NEW b \in Builds, Enter(b) \/ LeaveProject(b) PROVE OwnFiles'
  BY <1>1 DEF Enter, LeaveProject, At, Goto, FilesTypeOK, OwnFiles, Prepared,
              Precompiled
<1>2. ASSUME NEW b \in Builds, InsideStep(b) PROVE OwnFiles'
  <2>1. \A c \in Builds \ {b} : Prepared(c)'
    BY <1>2, Alone DEF Prepared, At, Inside
  <2> SUFFICES Prepared(b)'
    BY <2>1 DEF OwnFiles
  <2>2. pc \in [Builds -> FilesPc] /\ Prepared(b)
    BY DEF FilesTypeOK, OwnFiles
  <2>3. CASE pc'[b] \in {"start", "compile", "leaving"}
    BY <2>3 DEF Prepared, At
  <2>4. CASE Refuse(b) \/ FrontendFails(b) \/ InjectFails(b) \/ EnvFails(b) \/ DockerfileFails(b)
    BY <2>2, <2>3, <2>4
       DEF Refuse, FrontendFails, InjectFails, EnvFails, DockerfileFails, Fail, Goto
  <2>5. CASE FrontendBuilt(b) \/ Inject(b) \/ Compiled(b) \/ ImageBuilt(b)
    BY <2>2, <2>3, <2>5
       DEF FrontendBuilt, Inject, Compiled, ImageBuilt, Succeed, Fail, Goto
  <2>6. CASE StartFrontend(b)
    BY <2>2, <2>6 DEF StartFrontend, WriteEnv, Goto, Prepared, At
  <2>7. CASE StartDocker(b)
    <3>1. Precompiled(b)' <=> Precompiled(b)
      BY <2>7 DEF StartDocker, Precompiled
    <3>2. CASE Precompiled(b)
      BY <2>2, <2>7, <3>1, <3>2
         DEF StartDocker, ReplaceIgnore, Goto, Prepared, At
    <3>3. CASE ~Precompiled(b)
      BY <2>2, <2>7, <3>1, <3>3 DEF StartDocker, Goto, Prepared, At
    <3>4. QED
      BY <3>2, <3>3
  <2>8. CASE AllowEnv(b)
    <3>1. Precompiled(b)' <=> Precompiled(b)
      BY <2>8 DEF AllowEnv, Precompiled
    <3>2. QED
      BY <2>2, <2>8, <3>1 DEF AllowEnv, Goto, Prepared, At
  <2>8a. CASE SkipEnv(b)
    <3>1. Precompiled(b)' <=> Precompiled(b)
      BY <2>8a DEF SkipEnv, Precompiled
    <3>2. QED
      BY <2>2, <2>8a, <3>1 DEF SkipEnv, Goto, Prepared, At
  <2>9. CASE WriteDockerfile(b)
    <3>1. Precompiled(b)' <=> Precompiled(b)
      BY <2>9 DEF WriteDockerfile, Precompiled
    <3>2. QED
      BY <2>2, <2>9, <3>1 DEF WriteDockerfile, Goto, Prepared, At
  <2>10. QED
    BY <1>2, <2>4, <2>5, <2>6, <2>7, <2>8, <2>8a, <2>9 DEF InsideStep
<1>3. CASE Crash
  BY <1>3 DEF Crash, OwnFiles, Prepared, At
<1>4. CASE Edit
  BY <1>4 DEF Edit, OwnFiles, Prepared, Precompiled, At
<1>5. CASE UNCHANGED filesVars
  BY <1>5 DEF filesVars, OwnFiles, Prepared, Precompiled, At
<1>6. QED
  BY <1>1, <1>2, <1>3, <1>4, <1>5 DEF FilesNext, WorkerStep, InsideStep
--------------------------------------------------------------------------------
LEMMA FInvNext == ASSUME FInv, [FilesNext]_filesVars PROVE FInv'
<1> USE DEF FInv
<1>1. FilesTypeOK' /\ OneInside' /\ Locals'
  BY FilesTypeNext, OneInsideNext, LocalsNext
<1>2. EntryInv' /\ EnvOwed' /\ IgnoreOwed'
  BY EntryNext, EnvNext, IgnoreNext
<1>3. DockerfileOwed' /\ OwnFiles'
  BY DockerfileNext, OwnFilesNext
<1>4. QED
  BY <1>1, <1>2, <1>3

LEMMA FInvAlways == FilesSpec => []FInv
<1>1. FilesInit => FInv
  BY FInvInit
<1>2. FInv /\ [FilesNext]_filesVars => FInv'
  BY FInvNext
<1>3. QED
  BY <1>1, <1>2, PTL DEF FilesSpec

(* The project's files, the workers' positions and their local variables   *)
(* keep their types.                                                       *)
THEOREM FilesTypeCorrect == FilesSpec => []FilesTypeOK
<1>1. FInv => FilesTypeOK
  BY DEF FInv
<1>2. QED
  BY <1>1, FInvAlways, PTL

(* When nobody is inside and no worker returned early or was lost in a     *)
(* crash, every file is as the user had it: what the workers owe the user  *)
(* is owed by the one that is inside.                                      *)
THEOREM FilesReturnedToUser == FilesSpec => []FilesReturned
<1>1. FInv => FilesReturned
  <2> SUFFICES ASSUME FInv, holder = NoBuild, mishaps = {} PROVE FilesReturned
    BY DEF FilesReturned
  <2>1. \A b \in Builds : pc[b] \notin Inside
    BY FilesAssumption DEF FInv, OneInside, FilesAssumption
  <2>2. \A b \in Builds : ~Injected(b) /\ ~WroteEnv(b) /\ ~InDocker(b)
                         /\ ~At(b, "imaging")
    BY <2>1 DEF Inside, Injected, WroteEnv, InDocker, At
  <2>3. QED
    BY <2>2 DEF FInv, EntryInv, EntryOwed, EnvOwed, IgnoreOwed, DockerfileOwed,
                FilesReturned
<1>2. QED
  BY <1>1, FInvAlways, PTL

(* The tools of a build read the files that build prepared, whatever was   *)
(* left in the directory by others.                                        *)
THEOREM FilesBuildFromOwn == FilesSpec => []BuildsFromOwnFiles
<1>1. FInv => BuildsFromOwnFiles
  BY DEF FInv, OwnFiles, Prepared, BuildsFromOwnFiles, At
<1>2. QED
  BY <1>1, FInvAlways, PTL

(* The compiler sees exactly one loader in the entry point of a build that *)
(* is not FULL, and no entry point ever has two.                           *)
THEOREM FilesLoadedOnce == FilesSpec => []LoadedOnce
<1>1. FInv => LoadedOnce
  BY DEF FInv, EntryInv, Loaders
<1>2. QED
  BY <1>1, FInvAlways, PTL

(* No build sets the entry point back to an earlier revision of the        *)
(* user's, unless the handler of a failed injection found an old backup.   *)
THEOREM FilesNewestSource == FilesSpec => []NewestSource
<1>1. FInv => NewestSource
  BY DEF FInv, EntryInv
<1>2. QED
  BY <1>1, FInvAlways, PTL
================================================================================
