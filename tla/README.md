# Build Center: TLA+ models

Build Center (`src/app`, `src/frontend`) is a FastAPI server that packages Python
and web projects: users submit builds from a browser, the server runs Nuitka, npm
and Docker on a local directory or on a git clone, streams the log, keeps a
history, and offers the result for download. One process with one event loop runs
everything (`deploy/build-center.service`: "A single process is intentional"); the
build slots, the task map, the project locks and the WebSocket sets live in its
memory, the history and the accounts in a SQL database, and compilers run as
child processes.

What makes it hard is therefore not parallel code but *suspension*: a coroutine
stops at an `await` that may suspend, others run, and it goes on with what it read
before. On top of that come SIGTERM and SIGKILL sent to compilers, failing
commits, and restarts that lose the memory and keep the database and the files.

## 1. Inventory

Line counts are those of the source file.

| component | source | state | operations | hard behaviour |
|---|---|---|---|---|
| project lock | `services/project_lock.py` (72) | path -> `asyncio.Lock` | get, release (drop) | entry dropped or replaced while someone still refers to it; barging |
| task manager | `services/task_manager.py` (497) | `_tasks`, `_eviction_tasks`, WebSocket sets; history rows | create, update, cancel, delete, set_process, evict, reconcile orphans | memory and row written in two steps; cancellation racing a verdict; SIGTERM, wait, SIGKILL |
| build dispatcher | `services/build_dispatcher.py` (744) | semaphore, one coroutine per build | queue, clone, lock, run workers, report, clean up | early returns and exceptions through two locks; cancellation seen late |
| workers | `nuitka_worker.py` (1599), `docker_worker.py` (779), `frontend_worker.py` (377) | child process; overwritten project files and their backups | spawn, poll, restore, bundle | fork-to-register window; failure between overwrite and restore |
| workspaces | `services/workspace_cleanup.py` (426), download routes in `routes/tasks.py` | `data/workspace/<id>` | sweep, shrink, delete, download | sweep decides from a snapshot; deletion under a download |
| sessions | `services/auth.py` (651), `routes/auth.py` (719) | refresh tokens, reset tokens, users | login, refresh, logout, revoke, reset, register | check-then-act between two requests |
| roles | `services/permission.py` (337), `routes/users.py` (639), `seed.py` | roles, parent links, assignments | create, update, delete, assign, resolve | parent cycles; escalation by a sequence of legal edits |
| rate limiter | `middleware/rate_limiter.py` (252) | window counters per address and path | check, clean up | window boundaries |
| streaming | `api/websocket.py` (136), `hooks/useWebSocket.ts` | connection sets; reconnect timers | register, snapshot, broadcast, reconnect | updates between snapshot and registration; reconnect after expiry |
| browser session | `api/client.ts`, `AuthContext.tsx`, `useIdleTimeout.ts` | tokens, in-flight refresh | single-flight refresh, logout | refresh of one tab against another's |
| git access | `git_service.py` (887), `git_credentials.py` | clone directory | validate, clone, scan | partial clone after a crash |
| diagnosis, analysis, monitoring, audit, SSO bridge, crypto, config, pages | the remaining services | none, or append-only | - | - |

How they interact on the path of a build:

1. `POST /api/tasks` enters the task in `_tasks`, inserts its row and starts
   `start_build_task` as a background task.
2. `start_build_task` waits for a slot of the semaphore, looks whether the task
   was cancelled, clones (git tasks), looks again, and calls `dispatch_build`.
3. `dispatch_build` commits RUNNING, takes the project's lock and runs the chain of
   workers for the kind of build; each worker returns a verdict.
4. The verdict goes to memory and to the row; the lock is released; a failed build
   gets a report; a completed git build's clone is shrunk or removed; the slot is
   released.
5. `DELETE /api/tasks/{id}` may come at any moment: it stops the process of an
   active task and marks it cancelled, or forgets a finished one.
6. Finished tasks leave memory on a timer. A restart empties the memory and
   closes the rows that were open.

Around that path: an hourly loop sweeps workspaces, images and refresh tokens; a page
watches a build through snapshots and a WebSocket, and downloads what it left;
every request passes the rate limiter and is made under a session with the
permissions of a role.

What makes each component correct is stated in section 4; what can go wrong, line
by line, is the `hazards` list of `PROJECT.json`.

## 2. Plan

The order in which the system was modelled, the behaviour that matters most first.
All steps are done.

| step | modules | abstract specification, theorems |
|---|---|---|
| 1 | `BuildRequests`, `ProjectLock` | `ProjectLock` implements `SerialBuilds`; proved |
| 2 | `TaskManager`, `BuildDispatcher`, which composes it with 1 | all safety properties of its passing runs proved |
| 3 | `SourceFiles`: the project's files that workers overwrite and put back | safety proved |
| 4 | `Workspaces`: clones, images and the sweeps; `Downloads` | `KeptForItsTerm`, `StreamComplete` proved |
| 5 | `Sessions`: issue, rotation and revocation of refresh tokens and the page's single refresh; `RateLimiter` | safety proved |
| 6 | `TaskStream`: snapshot, WebSocket, broadcast, poll | types proved; `EndShown` is liveness |
| 7 | `Roles`: inheritance, assignment, first registration | safety proved; `ResolveIsReach` compares the walk with a reference definition |
| 8 | `GitAccess`: the git processes and temporary clones of the pre-build requests | proved |

## 3. The modules

| module | models | notes |
|---|---|---|
| `BuildRequests` | what is fixed about submitted builds | constants and `RequestAssumption` |
| `SerialBuilds` | what `project_lock.py` promises | abstract: one build per directory, first come first served |
| `ProjectLock` | `project_lock.py` and the `async with lock` of `dispatch_build` | implements `SerialBuilds` |
| `TaskManager` | `_tasks`, rows, eviction timers, processes, DELETE handlers | actions without a `Next` of their own |
| `BuildDispatcher` | `start_build_task`, `dispatch_build`, the workers' control, crashes | EXTENDS both, owns `Init`, `Next`, `Spec` |
| `SourceFiles` | the entry point, env file, `.dockerignore` and `Dockerfile.generated` under a sequence of builds | stands alone: the lock is one variable, `holder`, which `ProjectLock` justifies |
| `Workspaces` | clone directories, exported images, `cleanup_loop`, the clean-up after a build, DELETE of a workspace | time in days; `row` is the status in memory and database at once, which `BuildDispatcher` splits |
| `Downloads` | the ticket, archiving thread, bounded queue and response of a folder download | |
| `Sessions` | `refresh_tokens` rows, the handlers that issue, rotate, revoke and sweep them, and the browser's side | each handler is a read and a commit |
| `Roles` | roles and users, the handlers that edit, assign and register, the inheritance walk | each handler is a read and a commit |
| `RateLimiter` | the fixed windows per minute, hour and path, and their clean-up | |
| `TaskStream` | one page that watches one task | |
| `GitAccess` | `list_refs`, `scan_tree`, `preview_frontend` | the clone of a build is in `Workspaces` |

Theorems: `ProjectLock_proofs`, `BuildDispatcher_proofs`, `BuildHistory_proofs` (also of
`BuildDispatcher`), `SourceFiles_proofs`, `Workspaces_proofs`, `Sessions_proofs`,
`Accounts_proofs` (of `Roles` and `MCAccounts`), `Services_proofs` (of `TaskStream`,
`Downloads`, `RateLimiter`, `GitAccess` and `MCServices`).

Instances: `MCBuildDispatcher` and `MCBuildLive` (builds), `MCSourceFiles`, `MCWorkspaces`,
`MCRoles`, and three that put components *side by side*: `MCProject` (`ProjectLock` and
`SourceFiles`), `MCAccounts` (`Sessions` and `Roles`), `MCServices` (`TaskStream`,
`Downloads`, `RateLimiter`, `GitAccess`). The components of such an instance share no
state, so nothing is gained from interleaving them: a variable `part` fixes in the
initial state which one moves.

**Steps.** One action is the code between two awaits that may suspend.
`TaskManager._lock` is held only around bodies that do not suspend, so it is never
contended and each body is one step. A status update with a database session is
two steps: the memory half (`SetStatus`, `MarkCancelled`) and the commit
(`Commit`, `CommitCancel`), with `pending` holding what will be written. Both the
build and the DELETE handler do this, which is where they cross.

**Correspondence.**

| model | code |
|---|---|
| `table`, `ref`, `owner`, `waiters` | `_project_locks`, `dispatch_build`'s `lock`, and the lock object's holder and futures. A lock object is named after the build whose `setdefault` made it |
| `lockPc` | before the look-up / in the "Another build is running" log line / waiting / inside / after |
| `status`, `handle`, `evicting` | `_tasks[t]["status"]` (`absent`: no entry), tasks whose entry has a process, `_eviction_tasks` |
| `hist`, `reported` | the row's `status`, whether `result` carries a failure report |
| `process` | the compile or docker process; `stopping`: SIGTERM sent, `killed`: SIGKILL sent, `ok`/`bad`: exited |
| `reqPc`, `reqTask` | each DELETE request and the task it names |
| `pc` | where `start_build_task` stands, from `inserting` (between memory and row) to `ended`; `lost`: a crash took it |
| `free`, `slotQueue` | the semaphore's value and waiters. `release()` hands the slot to the oldest waiter, which is then `admitted` and resumes later, waking as many more as there are slots free (`Woken`). `locked()` is true also while somebody waits or was woken (`Contended`) |
| `stage`, `Chain` | which worker of the build runs; a fullstack image is `<<"frontend", "nuitka", "docker">>` |
| `workspace` | `data/workspace/<id>`: absent, partial (a crash hit the clone), full, shrunk to its output, removed |

Abstracted: log lines, progress and status messages; configuration values; what a
worker computes (each outcome is a choice between success and failure at the point
where the code can fail); the five seconds, the retention minutes and the npm
deadline are choices of when the step happens. An exception that interrupts a
worker's polling loop while the process still lives is left out: nothing in the
loop is expected to raise.

**Files.** In `SourceFiles` the content of a file is the set of those whose text is
in it (`{User}`, `{b}`, both, or `{}` for a file that does not exist), and the entry
point is a revision of the user's and the number of loaders before it.

| model | code |
|---|---|
| `entry`, `backup` | the entry point and `entry_point.py.backup` |
| `env`, `ignore`, `ignoreBak`, `dockerfile` | the frontend's env file, `.dockerignore`, its copy, `Dockerfile.generated` |
| `kept[b].env`, `.wroteEnv` | `env_backup_content`, `env_file_path is not None` |
| `kept[b].backedUp` | `backup_file is not None` |
| `kept[b].ignore`, `.extended` | `original_dockerignore_content`, `dockerignore_modified` |
| `kept[b].generated`, `.ignoreBak` | `generated_dockerignore`, `dockerignore_backup is not None` |
| `original`, `revision`, `mishaps` | history variables: the user's files, the last revision saved, and what has gone wrong |

`SkipEnv` is the branch for a project whose frontend directory does not exist.
`mishaps` names the three ways a file is not put back: a crash, a return or an exception
before the restoration (`FrontendFails`, `EnvFails`, `DockerfileFails`), and the handler of
a failed injection, which moves back whatever it finds under the backup's name. The last
one, after a crash and a repair by hand, overwrites the user's newest source with an
old one: nothing in the repository says otherwise, so it is the exception that
`NewestSource` names and not a counterexample. The user edits only while no build
is inside; a torn write is not modelled.

**Workspaces.** A worker of a git build is one step here; what matters is which files
are there when somebody else looks.

| model | code |
|---|---|
| `row` | the task's status; `none`: the task has no row, its directory is an orphan |
| `age`, `imageAge`, `Day` | days since `end_time` or the directory's mtime; since the image file's mtime |
| `dir` | `workspace/<id>`: absent, partial (being cloned), full, only its output |
| `image` | the file in `docker_images_dir`: absent, being written, torn by a second writer, or whole and from that task |
| `sweepAt`, `todo`, `found`, `doomed` | `cleanup_loop`: the listing not judged yet, the statuses its one look-up returned, images whose age was read and which are not unlinked yet |

**Downloads.** `queue` holds chunk numbers, `Eof` (`None` in the code) or `Error` (the
exception); `late` is the thread's last word while the queue is full; `torn` says that
reading a file failed, after which closing the archive still writes its trailer. The
response is closed once the thread has ended, or at once when the client is gone: a
cancelled `gather` does not wait.

**Sessions.** A token is a number; `family` names the login it descends from. `fate`
tells apart what `revoked_at` was set by (`rotated` by a refresh, `ended` by a logout,
a reset or the sessions page), which only the properties read. `req` holds requests
under way: `sent`, `looked` (the row was read, nothing is committed), `done` or
`refused` (the answer is under way). A request nobody waits for any more, because its page
was reloaded or its connection broke, goes on with `Nobody` as its sender. `overtaken`
and `strays` are history variables for the two exceptions the properties name.

**Roles.** `parent`, `grants`, `enabled`, `role` and `on` are the columns. `Chain` is
`resolve_role_permissions`, `Guarded` the walk `update_user_role` does on its own, which counts
the role itself even when it is inactive. Both are `Walk`, a recursive function of the
roles seen, which has the loop's own exit: an inactive role, or one met before. `pending`
holds, for each of `Handlers`, what a request read and checked and has yet to commit;
`limit` in it records what its author held then. Commits obey the foreign keys (`SET NULL`) and the
unique names. `Covering[p]` are the permissions that include `p`: itself, the wildcards of
its resource and of its action, and the one that grants everything. `Bootstrap` is
`seed.py`'s administrator, who is there or not in the initial state.

**RateLimiter.** `served` is a history variable: what was let through, counted in the
same windows and never cleaned. Requests are method and path; a path is cut into
pieces wherever a configured path or prefix ends, so that `IsPrefix` is `startswith`
(`/auth/login2` is `<<"/auth/login", "2">>`). `Excluded` is compared whole, `Free` and
`Surfaces` as prefixes; with no `Surfaces` configured every path is limited.

**TaskStream.** `course` is how far the build is: `waiting` for its slot and clone, then
`building`, or `over` if its clone failed or a DELETE was first. A build that is over writes no
more; one that got to build may log after its verdict too. `status` and `lines` change
under the lock; `out` holds the message each
of the two writers has yet to broadcast; `wire` the messages between server and page.
`joined` comes after `socket = "open"`: the browser sees the socket open when the
server accepts it, and the registration follows.

**GitAccess.** `Processes` lists what each call runs, in order; `running` the processes
that are alive, `overdue` those that outlived their limit, `folder` the temporary clone.

## 4. Runs

| run | instance | shows |
|---|---|---|
| `project` | 4 builds, 3 on one path; 4 kinds of builds in one directory, 2 crashes, 2 edits | `MutualExclusion`, `OneLockPerPath`, `NoBarging`, `EveryBuildServed`, the refinement of `SerialBuilds`; `FilesReturned`, `BuildsFromOwnFiles`, `LoadedOnce`, `NewestSource` |
| `builds` | 3 builds, 2 slots, 1 DELETE, 1 crash, 2 failing commits; with an accident, four of these in a behaviour | cancellation at every moment: `CancelAnswerTruthful`, `CancelledIsFinal`, `ProcessReachable`; crashes and failing commits: `SlotAccounting`, `WorkersDisjoint`, `FinishedScheduled`, `LostRowsClosed`, `FailedKeepsWorkspace`; `HistoryAgrees` for the builds that no DELETE found active and no failing commit met |
| `build_live` | 3 builds in one directory on 2 slots, or 2 builds on 1 slot with a DELETE | `EveryBuildEnds`, `EveryDeleteAnswered`, `CancelledInLineNeverRuns`, `MemoryReclaimed` |
| `workspaces` | 2 git builds, one with an image, 1 crash, 1 failed look-up | `KeptForItsTerm`, `EventuallyReclaimed` |
| `accounts` | 1 browser, 2 requests at once, 3 tokens, 1 fault; 3 roles, 2 users, 2 requests at once, 2 edits | `OneLivePerLogin`, `EndedForGood`, `ThrownOutForCause`; `ResolveIsReach`, `NothingBeyondOwn` |
| `services` | a page, 1 line of the build and 1 of the DELETE, 2 losses; an archive of 5 chunks through a queue of 2; 4 ticks of requests; 2 git calls | `EndShown`; `StreamComplete`, `ThreadFreed`; `NeverOverLimit`; `NothingLeftBehind` |

Each passing run checks the type invariants of its modules too.

Six runs end in a counterexample, each against a sentence of the repository:

| run | the sentence | what happens |
|---|---|---|
| `row_reopens` | `task_manager.py:168`: "Ordering is unaffected: a task's updates come from one coroutine" | the DELETE handler is a second one: CANCELLED is committed, then the build's RUNNING |
| `bare_failed` | `schemas/task.py:446-448`: the diagnosis is "Always non-empty for a failed build", "so a user is never shown a bare "failed"" | a clone fails and `start_build_task` returns (`build_dispatcher.py:636`) before the report that every other failed build gets (`:649-671`); the reason is in `status_msg` only |
| `env_lost` | `frontend_worker.py:163`: "backup original, restore after build" | a failed install or build returns before the restoration; the user's env file was only in a local variable |
| `workspaces_image` | `config.py:144-146`: the workspace of a docker build may go, "the image tar.gz already lives in docker_images_dir" | `docker save` fails, which is only a warning; the task is COMPLETED and the clean-up deletes the workspace as well |
| `stream_lines` | `websocket.py:101-106`: the poll "reconciles any lines missed in the connect window" | the page already shows an end, so it polls no more; a line the build logs after its verdict ("Frontend build completed!" and the place of the output, `build_dispatcher.py:268-272`, what the clean-up did, `:721-744`, or the handler's "Error:", `:120`) is broadcast between the snapshot and the registration |
| `first_admin` | `routes/auth.py:102-105`: "SQLite serializes writes itself (single writer), so the lock is skipped" | a single writer orders the two inserts, not the two counts before them: both registrations come in as the first |

**Bounds.** Three builds are the least that let one hold a directory, one wait for
it and one contend for a slot from elsewhere; four let two wait on one lock while a
third arrives. A waiter beside a free slot of the semaphore, the case that tells `Contended`
from `free = 0`, takes four builds on two slots too, which `builds` does not have; the
theorem `BuildSlotAccounting` covers it. One slot forces the queue, two let builds of one directory meet at
the project lock. One DELETE meets every step of a build. One crash is enough for the
builds because a restart resets all memory and only `hist`, `reported` and `workspace`
persist; two failing commits are what it takes to fail a verdict and its rescue.
`builds` has the bound `FewAccidents`. With no crash and no failing commit, two builds and a
DELETE are free, and with three builds the DELETE names the fullstack one, which waits for a
slot and for the lock and has two workers; otherwise the builds submitted, the DELETE, the crash and the failures are four at
most, and a DELETE then meets at most two builds. So any two accidents meet two builds,
and three builds meet any one. The theorems of section 5 hold without it. The
instances with a crash or a DELETE do not use symmetry because the builds differ in
kind.

`SourceFiles` needs one build of each chain that touches files, two of them with an
env file; two crashes, because the second hits a directory the first left dirty, and
two edits, one on either side of a build (`MaxEdits`).

`Workspaces`: the terms are one day, two for a failed build, so that they differ;
`MaxAge` is one more than the longest, past which ages are not told apart. Two builds that
export the same image are not in the instance.

`Sessions`: two requests under way are the least that cross; `MaxTokens = 3` is a
login, its rotation and a second login or rotation. `Roles`: three roles give every
chain of two hops, loops included, two edits while an assignment is under way, and
`Users` and `Handlers` are symmetric because no definition tells their members apart.
`TaskStream`: one line of each writer; two losses, because the second refusal of a token
stops the socket for good. `stream_lines` has two lines and one loss. `Downloads`:
more chunks than twice the capacity, so that the thread parks both before and after the
response leaves. `RateLimiter`: `MaxTime` spans two hours of the scaled clock, and the
clean-up's period falls within an hour. `GitAccess`: the calls share nothing; two show that.
`MaxCrashes`, `MaxFaults`, `MaxEdits`, `MaxTokens`, `MaxLines`, `MaxDrops`, `MaxTime` and
`MaxAge` are all the counters.

**Deadlock** is checked in the runs of `Workspaces`, whose sweep never stops. In the others
builds, tokens, edits, ticks and requests are finite in number and a state in which all are
spent is final. That nothing gets stuck before is what `EveryBuildServed`, `EveryBuildEnds`,
`EveryDeleteAnswered`, `EndShown` and `ThreadFreed` say.

**Fairness.** `WF` of a build's steps, of a process's exit, of an eviction timer
and of a DELETE handler's steps, each per actor. The event loop resumes every
coroutine whose future is done, locks and semaphores serve in FIFO order, so weak
fairness of each actor is what the scheduler gives. git, pip and npm run under
timeouts. That Nuitka and `docker build` come to an end is assumed in `build_live`: their
workers set no deadline. A crash, a failing commit and a new request are never forced.

`Workspaces` asks for less: `WF` of the sweep and of what is brief (clone and
bootstrap, which have limits, the clean-up, a cancelled build whose process is gone), and
`SF` of the days, since a day only passes between two sweeps and is enabled again
after each. `TaskStream` asks for the event loop (the DELETE's second half, broadcasts), delivery
of what is on the wire and the poll's timer, not that a socket is ever accepted
again: the poll alone must bring the end. `Downloads` asks for the archiving thread, which runs in a
pool, and the response's clean-up; not that the client reads on. Safety properties are
checked of `Spec` or of `SafetySpec`, which has no fairness.

## 5. What is proved

For every value of the constants (any number of builds, paths, requests, slots,
crashes, days, chunks and ticks), from the modules' own assumptions only
(`RequestAssumption`, `DispatcherAssumption`, `FilesAssumption`, `WorkspacesAssumption`,
`SessionsAssumption`, `RolesAssumption`, `StreamAssumption`, `DownloadAssumption`,
`LimiterAssumption`; `GitAccess` needs none).

* `ProjectLock_proofs`: `LockTypeCorrect`, `LockMutualExclusion`,
  `LockUniquePerPath`, `LockNoBarging`, `LockImplementsSerialBuilds`. The
  inductive invariant `LockInv` strengthens mutual exclusion by what makes it
  true: a lock object is held exactly by the build that is inside with a reference
  to it; its waiters are distinct builds that are waiting with that reference; and
  the reference of an engaged build is the table's entry for its path. The last
  part is needed because two builds of one directory with *different* lock objects
  would both get in; it is kept because `DropEntry` never drops a lock
  that is locked, and `Leave` calls it before the release. The refinement follows:
  each step maps to a step of `SerialBuilds` or changes nothing it sees.
* `BuildDispatcher_proofs`: `BuildTypeCorrect`, `BuildSlotAccounting`,
  `BuildWorkersDisjoint`, `BuildCancelAnswerTruthful`, `BuildFinishedScheduled`,
  `BuildLostRowsClosed`, `BuildCancelledIsFinal`, all of `SafetySpec`. `IInv`
  conjoins the type invariant, `LockInv` of the composed lock, and one named part
  per argument: `LockMatches` ties `pc` to `lockPc` (a build is in its workers only
  while inside its lock), `QueueLines` says every build in the semaphore's queue is
  `lining` and is there once, so that handing over a slot keeps the count; `CancelTaken`
  and `RequestsNamed` say that a DELETE past its marking step
  names a task that is cancelled or gone; `Fresh` that a task not yet submitted is
  in no structure. `SlotAccounting` needs cardinality facts of the set of
  holders, from `FiniteSetTheorems`.
* `BuildHistory_proofs`, on top of `IInv`: `BuildProcessReachable` (a process is alive
  only while its build is at the two steps that start and watch it, `LivePlace`, and
  a DELETE that stops one holds its task, `StoppingLive`);
  `BuildFailedKeepsWorkspace` (`Keep`: a workspace is shrunk only after COMPLETED was written
  to memory *and* committed, and no later write turns that row into FAILED); `BuildHistoryAgrees`
  (`Course`: for each build that no DELETE found active and no failing commit meets, what
  memory and the row say at each place of its course, and that the verdict being committed
  is the one in memory or memory has forgotten the task); `BuildOnlyClonesFailBare`, the other
  half of the run `bare_failed`: among those builds a failed one without a report is a git
  build that has no full clone. Its part of `Course` is `CloneTold`: past the report, a
  failed build that had a clone or needed none is in `reported`.
* `SourceFiles_proofs`: `FilesTypeCorrect`, `FilesReturnedToUser`,
  `FilesBuildFromOwn`, `FilesLoadedOnce`, `FilesNewestSource`, all of `FilesSpec`.
  `FilesReturned` speaks of moments when nobody is inside; the invariant `FInv` says
  for the moments between what is *owed*: `EntryOwed`, `EnvOwed`, `IgnoreOwed` and
  `DockerfileOwed` tie the local variables of the build that is inside to the files
  it must put back, with `OneInside` making sure there is only one such build.
  `Loaders` says the backup is the compiled entry point without its loader exactly
  while a build that made it is compiling; that is why a backup left by a crash is
  never moved over a newer source. `LocalsOf` says what a worker's variables can be
  at each step, which the early returns of `DockerfileFails` and `EnvFails` need.
* `Workspaces_proofs`: `WorkspaceTypeCorrect`, `WorkspaceKeptForItsTerm`. The sweep
  judges by statuses it read before. `SnapshotHolds` says why that is safe: a status it
  found that is final or missing, and only those doom a directory, is the task's status
  still when the directory goes. It holds because a listed directory's task was submitted
  or is an orphan, which never gets a row (`RowsFollow`), and because a task with a verdict
  has only its clean-up left (`VerdictsLate`).
* `Sessions_proofs`: `SessionsTyped`, `NobodyIsThrownOutByRotation`, `RotationNeverForks`,
  `EndedStaysOver`. None of the properties is inductive, nor are they together; the
  invariant `TightInv` has four layers, each proved with the ones before.
  - `Basics`: types; a row whose token exists has a family; what a request carries and what an
    answer will bring fits its row.
  - `Holders`: a new token is in one place, an answer or a storage, and a page has one
    refresh under way.
  - `Excuses`: a stored token that somebody else presents, or that was rotated while its
    successor is not on its way to that page, belongs to a login a reload left a refresh of.
    This is `ThrownOutForCause` before the fact: a page that is thrown out had such a token.
  - `Tight`: the *claims* of a login are its live tokens and the refreshes that have read one,
    or will, and issue its successor; a token a refresh presents counts once, unless a page
    has it to present again. A refresh only hands its claim on (`Swaps`), a reload adds one and one stray with it, so
    `FewClaims` bounds them by `1 + strays`. `Settled` says what is left once a token was
    ended (no claim at all) or has expired (only the refresh that read it before).
    `OneLivePerLogin` and `EndedForGood` are bounds on claims.
* `Accounts_proofs`: `RolesTyped`, `RolesResolveToTheirReach`, `NobodyLendsMoreThanTheyHold`,
  `LockMakesOneFirstAdmin`, and for the two parts side by side `AccountsTyped` and
  `AccountsImplementParts`.
  - The walk: `Walk` is defined by recursion over a growing set of roles, and no induction
    theorem of the library can be used for it. The sets of roles are finite, so strict
    inclusion is well-founded on them and a property that fails for some set fails for a
    *maximal* one (`MaximalSet`). Twice used, that gives the equation of `Walk`
    (`WalkEquation`: a solution exists and there is only one) and `WalkCollects`: from what was
    seen, the walk adds the least set closed under active parents. `ChainIsReach` and
    `GuardCoversChain` follow: the guard of an assignment looks at no less than the new role
    will resolve to.
  - The invariant `RolesInv` adds to the types `Limited` (what an assignment under way would
    hand out is within its limit, which a committed edit lifts), `EditsFit` (edits made and
    under way stay within the bound) and `SeededStay` (no request deletes a seeded role, so that the
    registrations find their role).
  - `LockMakesOneFirstAdmin` is the other half of the run `first_admin`: on PostgreSQL, as long
    as nobody *first* signs in through SSO (which takes no lock), at most one registration makes an
    administrator. `LockInv` says that whoever is registering is alone and has counted right.
* `Services_proofs`, one part after the other, and `ServicesTyped` for the four together:
  - `StreamTypeCorrect`: of the bound of `lines`, `StreamInv` says that only the DELETE's own
    line, written last, exceeds `MaxLines`.
  - `DownloadTypeCorrect`, `DownloadStreamComplete`. `Unbroken`: while the response sends an
    archive that was read well, what is sent and what is queued are together the first chunks
    in order, and the last word comes right behind them; a torn archive never has `Eof` as its
    last word.
  - `LimiterNeverOverLimit`. The clean-up forgets windows, so the counters cannot equal the
    tally; `CountsTrue` says they agree *from the window under way on*, which is all a request
    looks at, and which passing time only weakens.
  - `GitTypeCorrect`, `GitNothingLeftBehind`. `CallInv`: of the processes of a call, only the
    current one and overdue optional ones run.

The assumptions of `Sessions` and `Roles` ask for finitely many browsers, requests at once and
roles, which counting and the walk need and a database grants. Nothing is assumed about how
many, nor about the shape of the parent chains: a loop of parents is a reachable state.

Every safety property that a passing run checks is thereby proved. Only model-checked:
liveness (`EveryBuildServed`, `EveryBuildEnds`, `EveryDeleteAnswered`, `MemoryReclaimed`,
`CancelledInLineNeverRuns`, `EventuallyReclaimed`, `EndShown`, `ThreadFreed`), which the
prover cannot handle, and the six counterexamples.

## 6. Exceptions and what is not modelled

Four properties name an exception where the code makes no promise, and so do not cover it:
`ProcessReachable` the moment between a process's fork and `set_process`; `EndedForGood` a
refresh that read its row before the logout committed (`overtaken`); `NothingBeyondOwn` an
edit of a role that commits between the check and the commit of an assignment;
`NothingLeftBehind` `git show` and `git ls-tree -r`, which outlive their limit, and the clone
they run in.

Whole components, because they keep no state or none that decides anything: project
analysis, error diagnosis beyond whether a failed build gets its report, monitoring,
the audit log, which nothing reads back, the SSO redirect flow, encryption of stored
tokens, configuration and migrations, page rendering.

Parts of modelled components:

* Builds: command lines, parsing of output, bundling, generated Dockerfile text, log
  trimming, progress; a file write that stops half way; restorations that fail
  silently; files under output directories. `project_lock.py`'s entries are never dropped,
  because `release_project_lock` is only called while the lock is held
  (`build_dispatcher.py:79`): the model shows it as it is, and no property demands
  otherwise. A cancellation that arrives while the build completes overwrites
  COMPLETED, as the code does.
* Workspaces: a retention of zero days, which `WorkspacesAssumption` excludes; the
  instant between an image's stat and its unlink in which a new export of the same
  name may begin and lose its file is in the model, and no property forbids it; disk
  usage and listings only read.
* Downloads: single files and images, which the framework's FileResponse sends; git
  builds downloaded with an empty `project_path` (`routes/tasks.py:1049-1051`).
* Sessions: two tabs of one browser, which share a storage and do not know of each other's
  refresh; the idle timeout, which is a logout at another moment; the single use of a
  reset link; access tokens and passwords. A refusal for an inactive account is a choice.
* Roles: `get_user_permissions` of `services/auth.py`, which puts a role's own
  permissions without the inherited ones into the token and the answer of a login for the page to
  show; ownership checks of tasks.
* Rate limiter: which address a request counts for (`client_ip.py`), response headers.
* Streaming: the list of all tasks and its socket, eviction while a page watches.
* Git access: masking of tokens, classification of files, the stored credentials.
