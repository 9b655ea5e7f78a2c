------------------------------ MODULE ProjectLock ------------------------------
(***************************************************************************)
(* app/services/project_lock.py and its one caller, the `async with lock`  *)
(* of dispatch_build.  A table maps each resolved project path to an       *)
(* asyncio.Lock; a build looks its lock up, may be suspended while it logs *)
(* that the project is busy, acquires the lock, works, calls               *)
(* release_project_lock and leaves the `async with` block.                 *)
(*                                                                         *)
(* asyncio.Lock is external: it hands itself to its waiters in FIFO order, *)
(* is unlocked for a moment between release() and the resumption of the    *)
(* waiter release() woke, and lets nobody else in meanwhile.               *)
(***************************************************************************)
EXTENDS BuildRequests, Sequences, FiniteSets

(* A lock object is named after the build whose setdefault created it.     *)
VARIABLES table,    \* [Paths -> Tasks \cup {Nobody}]: _project_locks
          ref,      \* [Tasks -> Tasks \cup {Nobody}]: dispatch_build's `lock`
          owner,    \* [Tasks -> Tasks \cup {Nobody}]: who locked this lock object
          waiters,  \* [Tasks -> Seq(Tasks)]: its futures, oldest first
          lockPc    \* [Tasks -> LockPc]: where dispatch_build stands

lockVars == <<table, ref, owner, waiters, lockPc>>

LockPc == {"before", "logging", "waiting", "inside", "after"}

LockInit ==
    /\ table = [p \in Paths |-> Nobody]
    /\ ref = [b \in Tasks |-> Nobody]
    /\ owner = [l \in Tasks |-> Nobody]
    /\ waiters = [l \in Tasks |-> <<>>]
    /\ lockPc = [b \in Tasks |-> "before"]

(* A new server process has an empty table.                                *)
ForgetLocks ==
    /\ table' = [p \in Paths |-> Nobody]
    /\ ref' = [b \in Tasks |-> Nobody]
    /\ owner' = [l \in Tasks |-> Nobody]
    /\ waiters' = [l \in Tasks |-> <<>>]
    /\ lockPc' = [b \in Tasks |-> "before"]

Locked(l) == owner[l] # Nobody

(* Mutant: only locked() is consulted, so a newcomer overtakes the waiter  *)
(* that release() has just woken.                                          *)
TakeIfUnlocked(b, l) ==
    \/ /\ ~Locked(l)
       /\ owner' = [owner EXCEPT ![l] = b]
       /\ lockPc' = [lockPc EXCEPT ![b] = "inside"]
       /\ UNCHANGED waiters
    \/ /\ Locked(l)
       /\ waiters' = [waiters EXCEPT ![l] = Append(@, b)]
       /\ lockPc' = [lockPc EXCEPT ![b] = "waiting"]
       /\ UNCHANGED owner

(* Mutant: the newest waiter is served first.                              *)
TakeOrJump(b, l) ==
    \/ /\ ~Locked(l)
       /\ waiters[l] = <<>>
       /\ owner' = [owner EXCEPT ![l] = b]
       /\ lockPc' = [lockPc EXCEPT ![b] = "inside"]
       /\ UNCHANGED waiters
    \/ /\ Locked(l) \/ waiters[l] # <<>>
       /\ waiters' = [waiters EXCEPT ![l] = <<b>> \o @]
       /\ lockPc' = [lockPc EXCEPT ![b] = "waiting"]
       /\ UNCHANGED owner

(* asyncio.Lock.acquire: at once when the lock is free and nobody waits,   *)
(* otherwise at the end of the line.                                       *)
TakeOrQueue(b, l) ==
    \/ /\ ~Locked(l)
       /\ waiters[l] = <<>>
       /\ owner' = [owner EXCEPT ![l] = b]
       /\ lockPc' = [lockPc EXCEPT ![b] = "inside"]
       /\ UNCHANGED waiters
    \/ /\ Locked(l) \/ waiters[l] # <<>>
       /\ waiters' = [waiters EXCEPT ![l] = Append(@, b)]
       /\ lockPc' = [lockPc EXCEPT ![b] = "waiting"]
       /\ UNCHANGED owner

(* get_project_lock is a setdefault on the path's entry.                   *)
LockFor(b) == IF table[PathOf[b]] = Nobody THEN b ELSE table[PathOf[b]]

(* The look-up, up to the first suspension: the log line when the lock is  *)
(* held, the acquisition otherwise.                                        *)
GetLock(b) ==
    /\ lockPc[b] = "before"
    /\ table' = [table EXCEPT ![PathOf[b]] = LockFor(b)]
    /\ ref' = [ref EXCEPT ![b] = LockFor(b)]
    /\ \/ /\ Locked(LockFor(b))
          /\ lockPc' = [lockPc EXCEPT ![b] = "logging"]
          /\ UNCHANGED <<owner, waiters>>
       \/ /\ ~Locked(LockFor(b))
          /\ TakeOrQueue(b, LockFor(b))

AcquireAfterLog(b) ==
    /\ lockPc[b] = "logging"
    /\ TakeOrQueue(b, ref[b])
    /\ UNCHANGED <<table, ref>>

(* The first waiter resumes after the holder's release().                  *)
Resume(b) ==
    /\ lockPc[b] = "waiting"
    /\ ~Locked(ref[b])
    /\ waiters[ref[b]] # <<>>
    /\ Head(waiters[ref[b]]) = b
    /\ owner' = [owner EXCEPT ![ref[b]] = b]
    /\ waiters' = [waiters EXCEPT ![ref[b]] = Tail(@)]
    /\ lockPc' = [lockPc EXCEPT ![b] = "inside"]
    /\ UNCHANGED <<table, ref>>

(* Mutant: the entry is dropped whoever holds the lock.                    *)
DropAlways(tbl, own, p) == [tbl EXCEPT ![p] = Nobody]

(* Mutant: the path is forgotten altogether.                               *)
DropPath(tbl, own, p) == [q \in DOMAIN tbl \ {p} |-> tbl[q]]

(* release_project_lock: forget the path's lock unless it is locked.       *)
DropEntry(tbl, own, p) ==
    IF tbl[p] # Nobody /\ own[tbl[p]] = Nobody
    THEN [tbl EXCEPT ![p] = Nobody]
    ELSE tbl

(* Mutant: release_project_lock runs after the `async with` block, as its  *)
(* docstring reads; the woken waiter has not resumed yet.                  *)
LeaveThenDrop(b) ==
    /\ lockPc[b] = "inside"
    /\ owner' = [owner EXCEPT ![ref[b]] = Nobody]
    /\ table' = DropEntry(table, owner', PathOf[b])
    /\ lockPc' = [lockPc EXCEPT ![b] = "after"]
    /\ UNCHANGED <<ref, waiters>>

(* Mutant: an exception path that skips the release.                       *)
LeaveLocked(b) ==
    /\ lockPc[b] = "inside"
    /\ lockPc' = [lockPc EXCEPT ![b] = "after"]
    /\ UNCHANGED <<table, ref, owner, waiters>>

(* The `finally` clause runs release_project_lock while the build is still *)
(* inside `async with lock`; only then is the lock released.               *)
Leave(b) ==
    /\ lockPc[b] = "inside"
    /\ table' = DropEntry(table, owner, PathOf[b])
    /\ owner' = [owner EXCEPT ![ref[b]] = Nobody]
    /\ lockPc' = [lockPc EXCEPT ![b] = "after"]
    /\ UNCHANGED <<ref, waiters>>

LockStep(b) == GetLock(b) \/ AcquireAfterLog(b) \/ Resume(b) \/ Leave(b)

LockNext == \E b \in Tasks : LockStep(b)

LockSafetySpec == LockInit /\ [][LockNext]_lockVars

(* A coroutine the event loop can resume is resumed, and a worker returns: *)
(* the workers' own duration is not modelled here.                         *)
LockSpec == LockSafetySpec /\ \A b \in Tasks : WF_lockVars(LockStep(b))
--------------------------------------------------------------------------------
LockTypeOK ==
    /\ table \in [Paths -> Tasks \cup {Nobody}]
    /\ ref \in [Tasks -> Tasks \cup {Nobody}]
    /\ owner \in [Tasks -> Tasks \cup {Nobody}]
    /\ waiters \in [Tasks -> Seq(Tasks)]
    /\ lockPc \in [Tasks -> LockPc]

Inside(b) == lockPc[b] = "inside"
Engaged(b) == lockPc[b] \in {"logging", "waiting", "inside"}

(* Two builds of one directory are never both between acquire and release: *)
(* the backup/restore cycles of the workers cannot interleave.             *)
MutualExclusion ==
    \A b, c \in Tasks : Inside(b) /\ Inside(c) /\ PathOf[b] = PathOf[c] => b = c

(* Every build that holds a reference to a lock it has yet to release      *)
(* holds a reference to the one the table still has for its path, however  *)
(* long it was suspended between get_project_lock and acquire.             *)
OneLockPerPath ==
    \A b \in Tasks : Engaged(b) => ref[b] = table[PathOf[b]]

(* No barging: a build enters only when nobody was waiting on that lock    *)
(* before it, in particular not in the instant between release() and the   *)
(* resumption of the waiter, when lock.locked() is false.                  *)
NoBarging ==
    [][\A b \in Tasks :
         ~Inside(b) /\ Inside(b)' =>
            LET l == ref'[b]
            IN waiters[l] = <<>> \/ Head(waiters[l]) = b]_lockVars

(* A build that reached its lock gets through it, although same-directory  *)
(* builds keep arriving.                                                   *)
EveryBuildServed == \A b \in Tasks : Engaged(b) ~> lockPc[b] = "after"

(* The detailed lock implements the abstract one-at-a-time line.           *)
EntryOf(p, f, none) == IF table[p] = Nobody THEN none ELSE f[table[p]]

Serial == INSTANCE SerialBuilds WITH
    Builds <- Tasks,
    holder <- [p \in Paths |-> EntryOf(p, owner, Nobody)],
    line <- [p \in Paths |-> EntryOf(p, waiters, <<>>)],
    finished <- {b \in Tasks : lockPc[b] = "after"}

SerialSpec == Serial!SerialSpec
================================================================================
