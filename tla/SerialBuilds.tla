----------------------------- MODULE SerialBuilds -----------------------------
(***************************************************************************)
(* What project_lock.py promises, without its table of asyncio locks:      *)
(* builds of one project directory are admitted one at a time, in the      *)
(* order in which they joined that directory's line.                       *)
(***************************************************************************)
EXTENDS Sequences

CONSTANTS Builds, Paths, PathOf, Nobody

VARIABLES holder,   \* [Paths -> Builds \cup {Nobody}]: the build working there
          line,     \* [Paths -> Seq(Builds)]: the builds waiting, in order
          finished  \* the builds that have left their directory

serialVars == <<holder, line, finished>>

SerialInit ==
    /\ holder = [p \in Paths |-> Nobody]
    /\ line = [p \in Paths |-> <<>>]
    /\ finished = {}

InLine(b) ==
    \E i \in DOMAIN line[PathOf[b]] : line[PathOf[b]][i] = b

Admit(b) ==
    /\ b \notin finished
    /\ holder[PathOf[b]] = Nobody
    /\ line[PathOf[b]] = <<>>
    /\ holder' = [holder EXCEPT ![PathOf[b]] = b]
    /\ UNCHANGED <<line, finished>>

Join(b) ==
    /\ b \notin finished
    /\ ~InLine(b)
    /\ holder[PathOf[b]] # b
    /\ \/ holder[PathOf[b]] # Nobody
       \/ line[PathOf[b]] # <<>>
    /\ line' = [line EXCEPT ![PathOf[b]] = Append(@, b)]
    /\ UNCHANGED <<holder, finished>>

Advance(p) ==
    /\ holder[p] = Nobody
    /\ line[p] # <<>>
    /\ holder' = [holder EXCEPT ![p] = Head(line[p])]
    /\ line' = [line EXCEPT ![p] = Tail(@)]
    /\ UNCHANGED finished

Finish(b) ==
    /\ holder[PathOf[b]] = b
    /\ holder' = [holder EXCEPT ![PathOf[b]] = Nobody]
    /\ finished' = finished \cup {b}
    /\ UNCHANGED line

SerialNext ==
    \/ \E b \in Builds : Admit(b) \/ Join(b) \/ Finish(b)
    \/ \E p \in Paths : Advance(p)

SerialSpec == SerialInit /\ [][SerialNext]_serialVars
===============================================================================
