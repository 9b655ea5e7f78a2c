--------------------------- MODULE ProjectLock_proofs ---------------------------

(***************************************************************************)
(* The project lock for any set of builds and directories: its type        *)
(* invariant, mutual exclusion, one lock object per directory, no barging, *)
(* and that it implements the abstract line of SerialBuilds.               *)
(***************************************************************************)
EXTENDS ProjectLock, Integers, TLAPS

(* A lock object is known to the table under its creator's path.           *)
TableNamesPath ==
    \A p \in Paths : table[p] # Nobody => PathOf[table[p]] = p

(* A build between get_project_lock and release uses its path's object.    *)
RefIsCurrent ==
    \A b \in Tasks : Engaged(b) => ref[b] # Nobody /\ ref[b] = table[PathOf[b]]

(* Being inside and owning the lock are the same thing.                    *)
InsideOwns == \A b \in Tasks : Inside(b) => owner[ref[b]] = b
OwnerInside ==
    \A l \in Tasks : owner[l] # Nobody => Inside(owner[l]) /\ ref[owner[l]] = l

(* An object the table does not know is free and has no line.              *)
UnknownIsIdle ==
    \A l \in Tasks :
        table[PathOf[l]] # l => owner[l] = Nobody /\ waiters[l] = <<>>

(* Who is in a line waits for that lock, and stands in it once.            *)
LineWaits ==
    \A l \in Tasks : \A i \in DOMAIN waiters[l] :
        lockPc[waiters[l][i]] = "waiting" /\ ref[waiters[l][i]] = l
LineOnce ==
    \A l \in Tasks : \A i, j \in DOMAIN waiters[l] :
        waiters[l][i] = waiters[l][j] => i = j

LockInv ==
    /\ LockTypeOK
    /\ TableNamesPath
    /\ RefIsCurrent
    /\ InsideOwns
    /\ OwnerInside
    /\ UnknownIsIdle
    /\ LineWaits
    /\ LineOnce
--------------------------------------------------------------------------------

LEMMA LockInvInit == ASSUME LockInit PROVE LockInv
BY RequestAssumption
   DEF LockInit, LockInv, LockTypeOK, LockPc, TableNamesPath, RefIsCurrent,
       InsideOwns, OwnerInside, UnknownIsIdle, LineWaits, LineOnce,
       Engaged, Inside

LEMMA LockInvForget == ASSUME ForgetLocks PROVE LockInv'
BY RequestAssumption
   DEF ForgetLocks, LockInv, LockTypeOK, LockPc, TableNamesPath, RefIsCurrent,
       InsideOwns, OwnerInside, UnknownIsIdle, LineWaits, LineOnce,
       Engaged, Inside

LEMMA LockInvStutter == ASSUME LockInv, UNCHANGED lockVars PROVE LockInv'
BY DEF lockVars, LockInv, LockTypeOK, TableNamesPath, RefIsCurrent,
       InsideOwns, OwnerInside, UnknownIsIdle, LineWaits, LineOnce,
       Engaged, Inside

(* A build that comes to lock l, which the table knows, or now learns, as  *)
(* the lock of the build's path.                                           *)
Comes(b, l) ==
    /\ lockPc[b] \in {"before", "logging"}
    /\ l \in Tasks
    /\ PathOf[l] = PathOf[b]
    /\ table' = [table EXCEPT ![PathOf[b]] = l]
    /\ table[PathOf[b]] \in {l, Nobody}
    /\ ref' = [ref EXCEPT ![b] = l]

LEMMA GetLockComes ==
    ASSUME LockInv, NEW b \in Tasks, GetLock(b)
    PROVE  Comes(b, LockFor(b))
BY RequestAssumption
   DEF LockInv, LockTypeOK, TableNamesPath, GetLock, LockFor, Comes

LEMMA LogComes ==
    ASSUME LockInv, NEW b \in Tasks, AcquireAfterLog(b)
    PROVE  Comes(b, ref[b])
BY RequestAssumption
   DEF LockInv, LockTypeOK, TableNamesPath, RefIsCurrent, Engaged,
       AcquireAfterLog, Comes

(* What coming to a lock does to the table, whatever follows.              *)
LEMMA ComesTable ==
    ASSUME LockInv, NEW b \in Tasks, NEW l, Comes(b, l)
    PROVE  /\ table' \in [Paths -> Tasks \cup {Nobody}]
           /\ ref' \in [Tasks -> Tasks \cup {Nobody}]
           /\ TableNamesPath'
           /\ table'[PathOf[b]] = l /\ ref'[b] = l /\ l # Nobody
           /\ \A c \in Tasks \ {b} : ref'[c] = ref[c]
           /\ \A c \in Tasks \ {b} : Engaged(c) => ref[c] # Nobody
                                                /\ ref[c] = table'[PathOf[c]]
           /\ \A m \in Tasks : table'[PathOf[m]] # m => table[PathOf[m]] # m \/ m = l
           /\ \A m \in Tasks : table'[PathOf[m]] # m => m # l
BY RequestAssumption
   DEF LockInv, LockTypeOK, TableNamesPath, RefIsCurrent, Comes

LEMMA LoggingInv ==
    ASSUME LockInv, NEW b \in Tasks, NEW l, Comes(b, l),
           lockPc' = [lockPc EXCEPT ![b] = "logging"],
           UNCHANGED <<owner, waiters>>
    PROVE  LockInv'
<1> USE ComesTable
<1>1. LockTypeOK'
  BY DEF LockInv, LockTypeOK, LockPc
<1>2. RefIsCurrent'
  BY RequestAssumption DEF LockInv, LockTypeOK, RefIsCurrent, Engaged
<1>3. InsideOwns' /\ OwnerInside'
  BY DEF LockInv, LockTypeOK, InsideOwns, OwnerInside, Inside, Comes
<1>4. UnknownIsIdle'
  BY DEF LockInv, UnknownIsIdle
<1>5. LineWaits' /\ LineOnce'
  BY DEF LockInv, LockTypeOK, LineWaits, LineOnce, Comes
<1>6. QED
  BY <1>1, <1>2, <1>3, <1>4, <1>5 DEF LockInv

LEMMA TakeInv ==
    ASSUME LockInv, NEW b \in Tasks, NEW l, Comes(b, l),
           owner[l] = Nobody,
           owner' = [owner EXCEPT ![l] = b],
           lockPc' = [lockPc EXCEPT ![b] = "inside"],
           UNCHANGED waiters
    PROVE  LockInv'
<1> USE ComesTable
<1>0. l \in Tasks
  BY DEF Comes
<1>1. LockTypeOK'
  BY <1>0 DEF LockInv, LockTypeOK, LockPc
<1>2. RefIsCurrent'
  BY RequestAssumption DEF LockInv, LockTypeOK, RefIsCurrent, Engaged
<1>3. InsideOwns' /\ OwnerInside'
  BY <1>0, RequestAssumption
     DEF LockInv, LockTypeOK, InsideOwns, OwnerInside, Inside, Comes
<1>4. UnknownIsIdle'
  BY <1>0 DEF LockInv, LockTypeOK, UnknownIsIdle
<1>5. LineWaits' /\ LineOnce'
  BY DEF LockInv, LockTypeOK, LineWaits, LineOnce, Comes
<1>6. QED
  BY <1>1, <1>2, <1>3, <1>4, <1>5 DEF LockInv

LEMMA QueueInv ==
    ASSUME LockInv, NEW b \in Tasks, NEW l, Comes(b, l),
           waiters' = [waiters EXCEPT ![l] = Append(@, b)],
           lockPc' = [lockPc EXCEPT ![b] = "waiting"],
           UNCHANGED owner
    PROVE  LockInv'
<1> USE ComesTable
<1>0. l \in Tasks
  BY DEF Comes
<1>1. LockTypeOK'
  BY <1>0 DEF LockInv, LockTypeOK, LockPc
<1>2. RefIsCurrent'
  BY RequestAssumption DEF LockInv, LockTypeOK, RefIsCurrent, Engaged
<1>3. InsideOwns' /\ OwnerInside'
  BY <1>0, RequestAssumption
     DEF LockInv, LockTypeOK, InsideOwns, OwnerInside, Inside, Comes
<1>4. UnknownIsIdle'
  BY <1>0 DEF LockInv, LockTypeOK, UnknownIsIdle
<1>5. LineWaits' /\ LineOnce'
  BY <1>0 DEF LockInv, LockTypeOK, LineWaits, LineOnce, Comes
<1>6. QED
  BY <1>1, <1>2, <1>3, <1>4, <1>5 DEF LockInv

LEMMA ResumeInv ==
    ASSUME LockInv, NEW b \in Tasks, Resume(b)
    PROVE  LockInv'
<1> DEFINE l == ref[b]
<1>0. l \in Tasks /\ owner[l] = Nobody /\ l = table[PathOf[b]]
  BY RequestAssumption
     DEF LockInv, LockTypeOK, RefIsCurrent, Engaged, Resume, Locked
<1>00. PathOf[l] = PathOf[b]
  BY <1>0, RequestAssumption DEF LockInv, LockTypeOK, TableNamesPath
<1>1. LockTypeOK'
  BY <1>0 DEF LockInv, LockTypeOK, LockPc, Resume
<1>2. TableNamesPath' /\ RefIsCurrent'
  BY <1>0 DEF LockInv, LockTypeOK, TableNamesPath, RefIsCurrent, Engaged, Resume
<1>3. InsideOwns' /\ OwnerInside'
  BY <1>0, RequestAssumption
     DEF LockInv, LockTypeOK, InsideOwns, OwnerInside, Inside, Resume
<1>4. UnknownIsIdle'
  BY <1>0, <1>00 DEF LockInv, LockTypeOK, UnknownIsIdle, Resume
<1>5. LineWaits' /\ LineOnce'
  <2> DEFINE line == waiters[l]
  <2>1. /\ line \in Seq(Tasks) /\ line # <<>> /\ line[1] = b
        /\ waiters' = [waiters EXCEPT ![l] = Tail(line)]
        /\ lockPc' = [lockPc EXCEPT ![b] = "inside"]
        /\ UNCHANGED ref
    BY <1>0 DEF LockInv, LockTypeOK, Resume
  <2>2. \A i \in DOMAIN Tail(line) : i + 1 \in DOMAIN line
                                   /\ Tail(line)[i] = line[i + 1]
                                   /\ line[i + 1] # b
    <3>1. \A i \in DOMAIN Tail(line) :
             /\ i \in Nat /\ i + 1 \in DOMAIN line /\ i + 1 # 1 /\ 1 \in DOMAIN line
             /\ Tail(line)[i] = line[i + 1]
      BY <2>1
    <3>2. \A i, j \in DOMAIN line : line[i] = line[j] => i = j
      BY <1>0 DEF LockInv, LineOnce
    <3>3. QED
      BY <2>1, <3>1, <3>2
  <2>3. \A m \in Tasks \ {l} : /\ waiters'[m] = waiters[m]
                              /\ \A i \in DOMAIN waiters[m] : waiters[m][i] # b
    BY <1>0, <2>1 DEF LockInv, LockTypeOK, LineWaits
  <2>4. waiters'[l] = Tail(line) /\ \A c \in Tasks \ {b} : lockPc'[c] = lockPc[c]
    BY <1>0, <2>1 DEF LockInv, LockTypeOK
  <2>5. \A m \in Tasks : \A i \in DOMAIN waiters[m] : waiters[m][i] \in Tasks
    BY DEF LockInv, LockTypeOK
  <2>6. ASSUME NEW m \in Tasks, NEW i \in DOMAIN waiters'[m]
        PROVE  lockPc'[waiters'[m][i]] = "waiting" /\ ref'[waiters'[m][i]] = m
    <3>1. CASE m = l
      <4>1. /\ waiters'[m][i] = line[i + 1] /\ i + 1 \in DOMAIN line
            /\ line[i + 1] # b /\ line[i + 1] \in Tasks
        BY <1>0, <2>2, <2>4, <2>5, <2>6, <3>1
      <4>2. QED
        BY <1>0, <2>1, <2>4, <3>1, <4>1 DEF LockInv, LineWaits
    <3>2. CASE m # l
      BY <2>1, <2>3, <2>4, <2>5, <2>6, <3>2 DEF LockInv, LineWaits
    <3>3. QED
      BY <3>1, <3>2
  <2>7. ASSUME NEW m \in Tasks, NEW i \in DOMAIN waiters'[m],
               NEW j \in DOMAIN waiters'[m], waiters'[m][i] = waiters'[m][j]
        PROVE  i = j
    <3>1. CASE m = l
      <4>1. i \in Int /\ j \in Int
        BY <1>0, <2>1, <2>4, <2>7, <3>1
      <4>2. line[i + 1] = line[j + 1] /\ i + 1 \in DOMAIN line /\ j + 1 \in DOMAIN line
        BY <2>2, <2>4, <2>7, <3>1
      <4>3. QED
        BY <1>0, <4>1, <4>2 DEF LockInv, LineOnce
    <3>2. CASE m # l
      BY <2>3, <2>7, <3>2 DEF LockInv, LineOnce
    <3>3. QED
      BY <3>1, <3>2
  <2>8. QED
    BY <2>6, <2>7 DEF LineWaits, LineOnce
<1>6. QED
  BY <1>1, <1>2, <1>3, <1>4, <1>5 DEF LockInv

(* release_project_lock runs inside the lock and finds it locked: it never *)
(* drops the entry.                                                        *)
LEMMA LeaveKeepsEntry ==
    ASSUME LockInv, NEW b \in Tasks, Leave(b)
    PROVE  table' = table /\ owner[ref[b]] = b /\ ref[b] \in Tasks
BY RequestAssumption
   DEF LockInv, LockTypeOK, RefIsCurrent, InsideOwns, Engaged, Inside, Leave,
       DropEntry

LEMMA LeaveInv ==
    ASSUME LockInv, NEW b \in Tasks, Leave(b)
    PROVE  LockInv'
<1> USE LeaveKeepsEntry
<1>1. LockTypeOK'
  BY DEF LockInv, LockTypeOK, LockPc, Leave
<1>2. TableNamesPath' /\ RefIsCurrent'
  BY DEF LockInv, LockTypeOK, TableNamesPath, RefIsCurrent, Engaged, Leave
<1>3. InsideOwns' /\ OwnerInside'
  BY RequestAssumption
     DEF LockInv, LockTypeOK, InsideOwns, OwnerInside, Inside, Leave
<1>4. UnknownIsIdle'
  BY DEF LockInv, LockTypeOK, UnknownIsIdle, Leave
<1>5. LineWaits' /\ LineOnce'
  BY DEF LockInv, LockTypeOK, LineWaits, LineOnce, Leave
<1>6. QED
  BY <1>1, <1>2, <1>3, <1>4, <1>5 DEF LockInv

LEMMA LockInvStep ==
    ASSUME LockInv, NEW b \in Tasks, LockStep(b)
    PROVE  LockInv'
<1>1. CASE GetLock(b)
  <2>1. Comes(b, LockFor(b))
    BY <1>1, GetLockComes
  <2>2. QED
    BY <1>1, <2>1, LoggingInv, TakeInv, QueueInv
       DEF GetLock, TakeOrQueue, Locked
<1>2. CASE AcquireAfterLog(b)
  <2>1. Comes(b, ref[b])
    BY <1>2, LogComes
  <2>2. QED
    BY <1>2, <2>1, TakeInv, QueueInv
       DEF AcquireAfterLog, TakeOrQueue, Locked
<1>3. QED
  BY <1>1, <1>2, ResumeInv, LeaveInv DEF LockStep

LEMMA LockInvariant == LockSafetySpec => []LockInv
<1>1. LockInv /\ [LockNext]_lockVars => LockInv'
  BY LockInvStep, LockInvStutter DEF LockNext
<1>2. QED
  BY LockInvInit, <1>1, PTL DEF LockSafetySpec
--------------------------------------------------------------------------------

(* The variables of the lock have their types at every step.               *)
THEOREM LockTypeCorrect == LockSafetySpec => []LockTypeOK
<1>1. LockInv => LockTypeOK
  BY DEF LockInv
<1>2. QED
  BY <1>1, LockInvariant, PTL

LEMMA InvMutualExclusion == LockInv => MutualExclusion
BY RequestAssumption
   DEF LockInv, LockTypeOK, RefIsCurrent, InsideOwns, Engaged, Inside,
       MutualExclusion

(* Two builds of one directory are never both inside its lock.             *)
THEOREM LockMutualExclusion == LockSafetySpec => []MutualExclusion
BY LockInvariant, InvMutualExclusion, PTL

(* Every build that uses a lock uses the one the table has for its path.   *)
THEOREM LockUniquePerPath == LockSafetySpec => []OneLockPerPath
<1>1. LockInv => OneLockPerPath
  BY DEF LockInv, RefIsCurrent, OneLockPerPath
<1>2. QED
  BY <1>1, LockInvariant, PTL

(* Who enters finds no line, or is its head.                               *)
THEOREM LockNoBarging == LockSafetySpec => NoBarging
<1> DEFINE Enters(b) == ~Inside(b) /\ Inside(b)'
           Fair(b) == LET l == ref'[b]
                      IN waiters[l] = <<>> \/ Head(waiters[l]) = b
<1>1. ASSUME LockInv, NEW b \in Tasks, LockStep(b), NEW c \in Tasks, Enters(c)
      PROVE  Fair(c)
  <2>1. c = b
    BY <1>1 DEF LockInv, LockTypeOK, LockStep, GetLock, AcquireAfterLog, Resume,
                Leave, TakeOrQueue, Inside
  <2>2. QED
    BY <1>1, <2>1
       DEF LockInv, LockTypeOK, LockStep, GetLock, AcquireAfterLog, Resume,
           Leave, TakeOrQueue, Inside
<1>2. LockInv /\ [LockNext]_lockVars =>
         [\A b \in Tasks : Enters(b) => Fair(b)]_lockVars
  BY <1>1 DEF LockNext
<1>3. QED
  BY <1>2, LockInvariant, PTL DEF LockSafetySpec, NoBarging
--------------------------------------------------------------------------------

(* The refinement.  What the lock of a path shows as its holder and line.  *)
AbsHolder == [p \in Paths |-> EntryOf(p, owner, Nobody)]
AbsLine == [p \in Paths |-> EntryOf(p, waiters, <<>>)]
AbsFinished == {b \in Tasks : lockPc[b] = "after"}

LEMMA SerialStart == LockInit => Serial!SerialInit
BY DEF LockInit, Serial!SerialInit, EntryOf

(* Only the path of the build that steps can look different.               *)
LEMMA OtherPaths ==
    ASSUME LockInv, NEW b \in Tasks, NEW l \in Tasks, PathOf[l] = PathOf[b],
           \A q \in Paths \ {PathOf[b]} : table'[q] = table[q],
           \A m \in Tasks \ {l} : owner'[m] = owner[m] /\ waiters'[m] = waiters[m]
    PROVE  \A q \in Paths \ {PathOf[b]} :
              /\ EntryOf(q, owner, Nobody)' = EntryOf(q, owner, Nobody)
              /\ EntryOf(q, waiters, <<>>)' = EntryOf(q, waiters, <<>>)
BY RequestAssumption DEF LockInv, LockTypeOK, TableNamesPath, EntryOf

LEMMA TakeAdmits ==
    ASSUME LockInv, NEW b \in Tasks, NEW l, Comes(b, l),
           owner[l] = Nobody, waiters[l] = <<>>,
           owner' = [owner EXCEPT ![l] = b],
           lockPc' = [lockPc EXCEPT ![b] = "inside"],
           UNCHANGED waiters
    PROVE  Serial!Admit(b)
<1> DEFINE p == PathOf[b]
<1>0. l \in Tasks /\ p \in Paths /\ PathOf[l] = p /\ l # Nobody
  BY RequestAssumption DEF Comes
<1>1. /\ EntryOf(p, owner, Nobody) = Nobody /\ EntryOf(p, waiters, <<>>) = <<>>
      /\ EntryOf(p, owner, Nobody)' = b /\ EntryOf(p, waiters, <<>>)' = <<>>
  BY <1>0 DEF LockInv, LockTypeOK, Comes, EntryOf
<1>2. \A q \in Paths \ {p} :
         /\ EntryOf(q, owner, Nobody)' = EntryOf(q, owner, Nobody)
         /\ EntryOf(q, waiters, <<>>)' = EntryOf(q, waiters, <<>>)
  BY <1>0, OtherPaths DEF LockInv, LockTypeOK, Comes
<1>3. AbsHolder' = [AbsHolder EXCEPT ![p] = b] /\ AbsLine' = AbsLine
  BY <1>0, <1>1, <1>2 DEF AbsHolder, AbsLine
<1>4. AbsFinished' = AbsFinished /\ b \notin AbsFinished
  BY DEF LockInv, LockTypeOK, Comes, AbsFinished
<1>5. QED
  BY <1>0, <1>1, <1>3, <1>4 DEF Serial!Admit, AbsHolder, AbsLine, AbsFinished

(* A lock that is held or waited for is the one the table knows.           *)
LEMMA BusyIsKnown ==
    ASSUME LockInv, NEW b \in Tasks, NEW l, Comes(b, l),
           owner[l] # Nobody \/ waiters[l] # <<>>
    PROVE  table[PathOf[b]] = l /\ table' = table
BY RequestAssumption DEF LockInv, LockTypeOK, UnknownIsIdle, Comes

LEMMA QueueJoins ==
    ASSUME LockInv, NEW b \in Tasks, NEW l, Comes(b, l),
           owner[l] # Nobody \/ waiters[l] # <<>>,
           waiters' = [waiters EXCEPT ![l] = Append(@, b)],
           lockPc' = [lockPc EXCEPT ![b] = "waiting"],
           UNCHANGED owner
    PROVE  Serial!Join(b)
<1> DEFINE p == PathOf[b]
<1>0. l \in Tasks /\ p \in Paths /\ PathOf[l] = p /\ l # Nobody
  BY RequestAssumption DEF Comes
<1>1. /\ EntryOf(p, owner, Nobody) = owner[l]
      /\ EntryOf(p, waiters, <<>>) = waiters[l]
      /\ EntryOf(p, owner, Nobody)' = owner[l]
      /\ EntryOf(p, waiters, <<>>)' = Append(waiters[l], b)
  BY <1>0, BusyIsKnown DEF LockInv, LockTypeOK, EntryOf
<1>2. \A q \in Paths \ {p} :
         /\ EntryOf(q, owner, Nobody)' = EntryOf(q, owner, Nobody)
         /\ EntryOf(q, waiters, <<>>)' = EntryOf(q, waiters, <<>>)
  BY <1>0, OtherPaths DEF LockInv, LockTypeOK, Comes
<1>3. AbsHolder' = AbsHolder /\ AbsLine' = [AbsLine EXCEPT ![p] = Append(@, b)]
  BY <1>0, <1>1, <1>2 DEF AbsHolder, AbsLine
<1>4. AbsFinished' = AbsFinished /\ b \notin AbsFinished
  BY DEF LockInv, LockTypeOK, Comes, AbsFinished
<1>5. owner[l] # b /\ \A i \in DOMAIN waiters[l] : waiters[l][i] # b
  BY <1>0, RequestAssumption
     DEF LockInv, OwnerInside, LineWaits, Comes, Inside
<1>6. ~Serial!InLine(b)
  BY <1>0, <1>1, <1>5 DEF Serial!InLine
<1>7. QED
  BY <1>0, <1>1, <1>3, <1>4, <1>5, <1>6
     DEF Serial!Join, AbsHolder, AbsLine, AbsFinished

LEMMA LoggingStutters ==
    ASSUME LockInv, NEW b \in Tasks, NEW l, Comes(b, l), owner[l] # Nobody,
           lockPc' = [lockPc EXCEPT ![b] = "logging"],
           UNCHANGED <<owner, waiters>>
    PROVE  UNCHANGED Serial!serialVars
<1>1. AbsFinished' = AbsFinished
  BY DEF LockInv, LockTypeOK, Comes, AbsFinished
<1>2. QED
  BY <1>1, BusyIsKnown DEF Serial!serialVars, EntryOf, AbsFinished

LEMMA ResumeAdvances ==
    ASSUME LockInv, NEW b \in Tasks, Resume(b)
    PROVE  Serial!Advance(PathOf[b])
<1> DEFINE p == PathOf[b]
           l == ref[b]
<1>0. l \in Tasks /\ p \in Paths /\ table[p] = l /\ PathOf[l] = p /\ l # Nobody
  BY RequestAssumption
     DEF LockInv, LockTypeOK, TableNamesPath, RefIsCurrent, Engaged, Resume
<1>1. /\ EntryOf(p, owner, Nobody) = Nobody
      /\ EntryOf(p, waiters, <<>>) = waiters[l]
      /\ EntryOf(p, owner, Nobody)' = b
      /\ EntryOf(p, waiters, <<>>)' = Tail(waiters[l])
      /\ waiters[l] # <<>> /\ Head(waiters[l]) = b
  BY <1>0 DEF LockInv, LockTypeOK, EntryOf, Resume, Locked
<1>2. \A q \in Paths \ {p} :
         /\ EntryOf(q, owner, Nobody)' = EntryOf(q, owner, Nobody)
         /\ EntryOf(q, waiters, <<>>)' = EntryOf(q, waiters, <<>>)
  <2>1. \A q \in Paths \ {p} : table'[q] = table[q]
    BY DEF Resume
  <2>2. \A m \in Tasks \ {l} : owner'[m] = owner[m] /\ waiters'[m] = waiters[m]
    BY <1>0 DEF LockInv, LockTypeOK, Resume
  <2>3. QED
    BY <1>0, <2>1, <2>2, OtherPaths
<1>3. /\ AbsHolder' = [AbsHolder EXCEPT ![p] = b]
      /\ AbsLine' = [AbsLine EXCEPT ![p] = Tail(@)]
  BY <1>0, <1>1, <1>2 DEF AbsHolder, AbsLine
<1>4. AbsFinished' = AbsFinished
  BY DEF LockInv, LockTypeOK, Resume, AbsFinished
<1>5. QED
  BY <1>0, <1>1, <1>3, <1>4 DEF Serial!Advance, AbsHolder, AbsLine, AbsFinished

LEMMA LeaveFinishes ==
    ASSUME LockInv, NEW b \in Tasks, Leave(b)
    PROVE  Serial!Finish(b)
<1> DEFINE p == PathOf[b]
           l == ref[b]
<1>0. /\ l \in Tasks /\ p \in Paths /\ table[p] = l /\ PathOf[l] = p /\ l # Nobody
      /\ owner[l] = b /\ table' = table
  BY RequestAssumption, LeaveKeepsEntry
     DEF LockInv, LockTypeOK, TableNamesPath, RefIsCurrent, Engaged, Leave
<1>1. EntryOf(p, owner, Nobody) = b /\ EntryOf(p, owner, Nobody)' = Nobody
  BY <1>0 DEF LockInv, LockTypeOK, EntryOf, Leave
<1>2. \A q \in Paths \ {p} :
         EntryOf(q, owner, Nobody)' = EntryOf(q, owner, Nobody)
  <2>1. \A m \in Tasks \ {l} : owner'[m] = owner[m] /\ waiters'[m] = waiters[m]
    BY <1>0 DEF LockInv, LockTypeOK, Leave
  <2>2. QED
    BY <1>0, <2>1, OtherPaths
<1>3. AbsHolder' = [AbsHolder EXCEPT ![p] = Nobody] /\ AbsLine' = AbsLine
  BY <1>0, <1>1, <1>2 DEF AbsHolder, AbsLine, EntryOf, Leave
<1>4. AbsFinished' = AbsFinished \cup {b}
  BY DEF LockInv, LockTypeOK, Leave, AbsFinished
<1>5. QED
  BY <1>0, <1>1, <1>3, <1>4 DEF Serial!Finish, AbsHolder, AbsLine, AbsFinished

LEMMA SerialStep ==
    ASSUME LockInv, NEW b \in Tasks, LockStep(b)
    PROVE  [Serial!SerialNext]_Serial!serialVars
<1>0. PathOf[b] \in Paths
  BY RequestAssumption
<1>1. CASE GetLock(b)
  <2>1. Comes(b, LockFor(b))
    BY <1>1, GetLockComes
  <2>2. QED
    BY <1>1, <2>1, LoggingStutters, TakeAdmits, QueueJoins
       DEF GetLock, TakeOrQueue, Locked, Serial!SerialNext
<1>2. CASE AcquireAfterLog(b)
  <2>1. Comes(b, ref[b])
    BY <1>2, LogComes
  <2>2. QED
    BY <1>2, <2>1, TakeAdmits, QueueJoins
       DEF AcquireAfterLog, TakeOrQueue, Locked, Serial!SerialNext
<1>3. CASE Resume(b)
  BY <1>0, <1>3, ResumeAdvances DEF Serial!SerialNext
<1>4. CASE Leave(b)
  BY <1>4, LeaveFinishes DEF Serial!SerialNext
<1>5. QED
  BY <1>1, <1>2, <1>3, <1>4 DEF LockStep

(* The table of asyncio locks implements the line of SerialBuilds: one     *)
(* build at a time per directory, in the order of arrival.                 *)
THEOREM LockImplementsSerialBuilds == LockSafetySpec => SerialSpec
<1>1. LockInv /\ [LockNext]_lockVars => [Serial!SerialNext]_Serial!serialVars
  <2>1. ASSUME UNCHANGED lockVars
        PROVE  UNCHANGED Serial!serialVars
    BY <2>1 DEF lockVars, Serial!serialVars, EntryOf
  <2>2. QED
    BY <2>1, SerialStep DEF LockNext
<1>2. QED
  BY SerialStart, LockInvariant, <1>1, PTL
     DEF LockSafetySpec, SerialSpec, Serial!SerialSpec
================================================================================
