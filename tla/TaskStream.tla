------------------------------- MODULE TaskStream -------------------------------
(***************************************************************************)
(* One task and one page that watches it (TaskDetail.tsx): snapshots over  *)
(* HTTP, increments over a WebSocket (api/websocket.py), a poll that runs  *)
(* until the page shows an end.  On the server the build and a DELETE      *)
(* write the task and broadcast after they have let go of the lock.        *)
(***************************************************************************)
EXTENDS Naturals, Sequences

CONSTANTS MaxLines,  \* bound: lines the build logs
          MaxDrops   \* bound: sockets lost, tokens refused and polls failed

ASSUME StreamAssumption == MaxLines \in Nat /\ MaxDrops \in Nat

VARIABLES status,     \* the task's status in memory
          lines,      \* how many lines its log has; the n-th is the number n
          out,        \* [Writers -> message to be broadcast, or None]
          course,     \* how far the build is: waiting for its slot and clone,
                      \* building, or over because there was nothing to build
          canceller,  \* how far the DELETE is
          page,       \* what the page shows: status and lines; before it: None
          poll,       \* the HTTP request under way
          socket,     \* the page's socket, as the browser sees it
          joined,     \* the server has registered the socket
          retried,    \* a refused token has had its one retry
          wire,       \* messages sent and not yet delivered
          drops

serverVars == <<status, lines, out, course, canceller>>
pageVars == <<page, poll>>
linkVars == <<socket, joined, retried, wire>>
streamVars == <<serverVars, pageVars, linkVars, drops>>

Running == {"pending", "running"}
Ends == {"completed", "failed", "cancelled"}
Writers == {"build", "delete"}
None == [type |-> "none"]
LastLine == MaxLines + 1  \* and the one the DELETE adds

Message == [type : {"status"}, data : Running \cup Ends]
           \cup [type : {"log"}, data : 1..LastLine]
Shown == [status : Running \cup Ends, lines : Seq(1..LastLine)]

StreamInit ==
    /\ status = "pending" /\ lines = 0
    /\ out = [w \in Writers |-> None]
    /\ course = "waiting" /\ canceller = "none"
    /\ page = None
    /\ poll = [at |-> "asked"]
    /\ socket = "connecting" /\ joined = FALSE /\ retried = FALSE
    /\ wire = <<>>
    /\ drops = 0
--------------------------------------------------------------------------------
(* The server writes under the lock ...                                    *)

SetStatus(w, s) ==
    /\ status' = s
    /\ out' = [out EXCEPT ![w] = [type |-> "status", data |-> s]]

AppendLog(w) ==
    /\ lines' = lines + 1
    /\ out' = [out EXCEPT ![w] = [type |-> "log", data |-> lines + 1]]

(* The build's updates come one after the other; one that meets a cancelled*)
(* task changes nothing and sends nothing.                                 *)
Announce(s) == IF status \in Running THEN SetStatus("build", s) ELSE UNCHANGED <<status, out>>

BuildStarts ==
    /\ course = "waiting" /\ out["build"] = None
    /\ Announce("running")
    /\ course' = "building"
    /\ UNCHANGED <<lines, canceller, pageVars, linkVars, drops>>

(* A clone that failed, or a task found cancelled: FAILED (or nothing) is  *)
(* the last it writes.                                                     *)
BuildSkipped ==
    /\ course = "waiting" /\ out["build"] = None
    /\ Announce("failed")
    /\ course' = "over"
    /\ UNCHANGED <<lines, canceller, pageVars, linkVars, drops>>

BuildEnds ==
    /\ course = "building" /\ out["build"] = None
    /\ status = "running"
    /\ \E s \in {"completed", "failed"} : SetStatus("build", s)
    /\ UNCHANGED <<lines, course, canceller, pageVars, linkVars, drops>>

(* In the queue, at work, and also after its last status: the error that   *)
(* ended it, where its output went, what became of its workspace.          *)
BuildLogs ==
    /\ course # "over" /\ out["build"] = None
    /\ lines < MaxLines
    /\ AppendLog("build")
    /\ UNCHANGED <<status, course, canceller, pageVars, linkVars, drops>>

(* The DELETE looks, waits for the process, and writes without looking.    *)
DeleteLooks ==
    /\ canceller = "none" /\ status \in Running
    /\ canceller' = "killing"
    /\ UNCHANGED <<status, lines, out, course, pageVars, linkVars, drops>>

DeleteWrites ==
    /\ canceller = "killing"
    /\ SetStatus("delete", "cancelled")
    /\ canceller' = "written"
    /\ UNCHANGED <<lines, course, pageVars, linkVars, drops>>

DeleteLogs ==
    /\ canceller = "written" /\ out["delete"] = None
    /\ AppendLog("delete")
    /\ canceller' = "logged"
    /\ UNCHANGED <<status, course, pageVars, linkVars, drops>>

(* ... and broadcasts to the sockets registered by then.                   *)
Broadcast(w) ==
    /\ out[w] # None
    /\ wire' = IF joined THEN Append(wire, out[w]) ELSE wire
    /\ out' = [out EXCEPT ![w] = None]
    /\ UNCHANGED <<status, lines, course, canceller, pageVars, socket, joined, retried,
                   drops>>
--------------------------------------------------------------------------------
(* The browser sees the socket open when the server accepts it, which      *)
(* registers it only afterwards.                                           *)
Accept ==
    /\ socket = "connecting"
    /\ socket' = "open" /\ retried' = FALSE
    /\ UNCHANGED <<serverVars, pageVars, joined, wire, drops>>

Register ==
    /\ socket = "open" /\ ~joined
    /\ joined' = TRUE
    /\ UNCHANGED <<serverVars, pageVars, socket, retried, wire, drops>>

Deliver ==
    /\ wire # <<>>
    /\ wire' = Tail(wire)
    /\ LET m == Head(wire) IN
       page' = CASE page = None -> None
                 [] page # None /\ m.type = "status" -> [page EXCEPT !.status = m.data]
                 [] OTHER -> [page EXCEPT !.lines = Append(@, m.data)]
    /\ UNCHANGED <<serverVars, poll, socket, joined, retried, drops>>

Drop ==
    /\ socket = "open" /\ drops < MaxDrops
    /\ socket' = "waiting" /\ joined' = FALSE /\ wire' = <<>>
    /\ drops' = drops + 1
    /\ UNCHANGED <<serverVars, pageVars, retried>>

(* An expired access token: one more try, then none until the page is      *)
(* loaded anew.                                                            *)
Refuse ==
    /\ socket = "connecting" /\ drops < MaxDrops
    /\ socket' = IF retried THEN "stopped" ELSE "waiting"
    /\ retried' = TRUE
    /\ drops' = drops + 1
    /\ UNCHANGED <<serverVars, pageVars, joined, wire>>

Reconnect ==
    /\ socket = "waiting"
    /\ socket' = "connecting"
    /\ UNCHANGED <<serverVars, pageVars, joined, retried, wire, drops>>
--------------------------------------------------------------------------------
(* Mutant: the page polls only while its socket is down.                   *)
PollsOffline == page # None => page.status \in Running /\ socket # "open"

(* refetchInterval.                                                        *)
Polls == page # None => page.status \in Running

Ask ==
    /\ poll.at = "none" /\ Polls
    /\ poll' = [at |-> "asked"]
    /\ UNCHANGED <<serverVars, page, linkVars, drops>>

Snapshot ==
    /\ poll.at = "asked"
    /\ poll' = [at |-> "answered",
                shown |-> [status |-> status, lines |-> [n \in 1..lines |-> n]]]
    /\ UNCHANGED <<serverVars, page, linkVars, drops>>

Load ==
    /\ poll.at = "answered"
    /\ page' = poll.shown
    /\ poll' = [at |-> "none"]
    /\ UNCHANGED <<serverVars, linkVars, drops>>

PollFails ==
    /\ poll.at = "asked" /\ drops < MaxDrops
    /\ poll' = [at |-> "none"]
    /\ drops' = drops + 1
    /\ UNCHANGED <<serverVars, page, linkVars>>
--------------------------------------------------------------------------------
Building == BuildStarts \/ BuildSkipped \/ BuildEnds \/ BuildLogs
Deleting == DeleteLooks \/ DeleteWrites \/ DeleteLogs
Server == Building \/ Deleting \/ \E w \in Writers : Broadcast(w)
Link == Accept \/ Register \/ Deliver \/ Drop \/ Refuse \/ Reconnect
Polling == Ask \/ Snapshot \/ Load \/ PollFails

StreamNext == Server \/ Link \/ Polling

StreamSpec == StreamInit /\ [][StreamNext]_streamVars

(* The DELETE's and a write's second half run on the event loop; what is   *)
(* on the wire is delivered; the poll's timer fires and the server answers.*)
StreamFairness ==
    /\ WF_streamVars(DeleteWrites) /\ WF_streamVars(DeleteLogs)
    /\ \A w \in Writers : WF_streamVars(Broadcast(w))
    /\ WF_streamVars(Deliver)
    /\ WF_streamVars(Ask) /\ WF_streamVars(Snapshot) /\ WF_streamVars(Load)
--------------------------------------------------------------------------------
StreamTypeOK ==
    /\ status \in Running \cup Ends
    /\ lines \in 0..LastLine
    /\ out \in [Writers -> Message \cup {None}]
    /\ course \in {"waiting", "building", "over"}
    /\ canceller \in {"none", "killing", "written", "logged"}
    /\ page \in Shown \cup {None}
    /\ \/ poll \in [at : {"none", "asked"}]
       \/ poll.at = "answered" /\ poll.shown \in Shown
    /\ socket \in {"connecting", "open", "waiting", "stopped"}
    /\ joined \in BOOLEAN /\ (joined => socket = "open")
    /\ wire # <<>> => joined
    /\ wire \in Seq(Message)
    /\ retried \in BOOLEAN
    /\ drops \in 0..MaxDrops

(* TaskDetail.tsx:97-104: once a build has ended its page comes to show an *)
(* end and goes on showing one, whatever the socket lost and however the   *)
(* broadcasts and the snapshots overtake each other.                       *)
EndShown ==
    status \in Ends ~> [](page # None /\ page.status \in Ends)

(* websocket.py:101-105: "a low-frequency HTTP poll reconciles any lines   *)
(* missed in the connect window": when nothing is left to be sent or       *)
(* loaded and the socket was never lost, the page has every line.          *)
MissedLinesReconciled ==
    /\ status \in Ends /\ \A w \in Writers : out[w] = None
    /\ canceller \in {"none", "logged"}
    /\ joined /\ wire = <<>> /\ drops = 0
    /\ page # None /\ poll.at = "none" /\ ~Polls
    => \A n \in 1..lines : \E i \in DOMAIN page.lines : page.lines[i] = n
================================================================================
