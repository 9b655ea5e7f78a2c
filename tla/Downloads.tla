-------------------------------- MODULE Downloads --------------------------------
(***************************************************************************)
(* One download of a build's output (api/routes/tasks.py): the ticket the  *)
(* browser exchanges its session for, and the archive that a worker thread *)
(* writes through a bounded queue while the response sends it.             *)
(***************************************************************************)
EXTENDS Integers, Sequences

CONSTANTS Chunks,   \* the chunks of a whole archive; the last is its trailer
          Capacity  \* the queue's size, 8 in the code

ASSUME DownloadAssumption == Chunks \in Nat \ {0} /\ Capacity \in Nat \ {0}

VARIABLES ticket,    \* "none", "valid" or "expired"
          allowed,   \* the account is active and may see the task
          response,  \* where the response's generator is
          outcome,   \* how it ended, as the browser can tell
          sent,      \* the chunks sent
          thread,    \* where the archiving thread is
          next,      \* the chunk it writes next
          torn,      \* reading the output failed
          queue, late,  \* what was put, and the last word not yet put
          abort

ticketVars == <<ticket, allowed>>
threadVars == <<thread, next, torn, late>>
downloadVars == <<ticketVars, response, outcome, sent, threadVars, queue, abort>>

(* The thread's last word: None or the exception.                         *)
Eof == Chunks + 1
Error == 0
Nothing == -1

DownloadInit ==
    /\ ticket = "none" /\ allowed = TRUE
    /\ response = "none" /\ outcome = "none" /\ sent = <<>>
    /\ thread = "none" /\ next = 1 /\ torn = FALSE
    /\ queue = <<>> /\ late = Nothing /\ abort = FALSE
--------------------------------------------------------------------------------
Mint ==
    /\ ticket # "valid" /\ allowed /\ response = "none"
    /\ ticket' = "valid"
    /\ UNCHANGED <<allowed, response, outcome, sent, threadVars, queue, abort>>

TicketExpires ==
    /\ ticket = "valid"
    /\ ticket' = "expired"
    /\ UNCHANGED <<allowed, response, outcome, sent, threadVars, queue, abort>>

(* An administrator disables the account or takes the permission, or gives *)
(* it back.                                                                *)
AccessChanges ==
    /\ response = "none"
    /\ allowed' = ~allowed
    /\ UNCHANGED <<ticket, response, outcome, sent, threadVars, queue, abort>>

(* The ticket is looked at against the account as it is by then.           *)
Redeem ==
    /\ response = "none" /\ ticket # "none"
    /\ IF ticket = "valid" /\ allowed
       THEN response' = "sending" /\ thread' = "archiving" /\ UNCHANGED outcome
       ELSE response' = "closed" /\ outcome' = "refused" /\ UNCHANGED thread
    /\ UNCHANGED <<ticketVars, sent, next, torn, queue, late, abort>>
--------------------------------------------------------------------------------
(* The thread.  A write looks at abort and then parks until its chunk is   *)
(* in the queue.                                                           *)

(* Mutant: the archive's failure is swallowed.                             *)
LastWordAlwaysEof == Eof

ItsLastWord == IF torn \/ next <= Chunks THEN Error ELSE Eof

Stop ==
    /\ thread' = "ended"
    /\ late' = ItsLastWord
    /\ UNCHANGED <<next, torn>>

Write ==
    /\ thread = "archiving"
    /\ IF abort \/ next > Chunks THEN Stop
       ELSE thread' = "parked" /\ UNCHANGED <<next, torn, late>>
    /\ UNCHANGED <<ticketVars, response, outcome, sent, queue, abort>>

(* A file is gone or unreadable: closing the archive still writes the      *)
(* trailer.                                                                *)
ReadFails ==
    /\ thread = "archiving" /\ next < Chunks /\ ~torn
    /\ torn' = TRUE
    /\ next' = Chunks
    /\ UNCHANGED <<ticketVars, response, outcome, sent, thread, queue, late, abort>>

(* Mutant: the queue has no bound.                                         *)
PutAnyway ==
    /\ thread = "parked"
    /\ queue' = Append(queue, next)
    /\ next' = next + 1
    /\ thread' = "archiving"
    /\ UNCHANGED <<ticketVars, response, outcome, sent, torn, late, abort>>

Put ==
    /\ thread = "parked" /\ Len(queue) < Capacity
    /\ queue' = Append(queue, next)
    /\ next' = next + 1
    /\ thread' = "archiving"
    /\ UNCHANGED <<ticketVars, response, outcome, sent, torn, late, abort>>

PutLastWord ==
    /\ late # Nothing /\ Len(queue) < Capacity
    /\ queue' = Append(queue, late)
    /\ late' = Nothing
    /\ UNCHANGED <<ticketVars, response, outcome, sent, thread, next, torn, abort>>
--------------------------------------------------------------------------------
(* The response.                                                           *)

Send ==
    /\ response = "sending" /\ queue # <<>>
    /\ queue' = Tail(queue)
    /\ LET item == Head(queue) IN
       IF item \in {Eof, Error}
       THEN /\ response' = "leaving"
            /\ outcome' = IF item = Eof THEN "complete" ELSE "broken"
            /\ UNCHANGED sent
       ELSE /\ sent' = Append(sent, item)
            /\ UNCHANGED <<response, outcome>>
    /\ UNCHANGED <<ticketVars, threadVars, abort>>

Disconnect ==
    /\ response = "sending"
    /\ response' = "leaving" /\ outcome' = "gone"
    /\ UNCHANGED <<ticketVars, sent, threadVars, queue, abort>>

(* Mutant: a full queue stays full.                                        *)
LeaveUndrained ==
    /\ response = "leaving"
    /\ response' = "waiting" /\ abort' = TRUE
    /\ UNCHANGED <<ticketVars, outcome, sent, threadVars, queue>>

Leave ==
    /\ response = "leaving"
    /\ response' = "waiting" /\ abort' = TRUE /\ queue' = <<>>
    /\ UNCHANGED <<ticketVars, outcome, sent, threadVars>>

(* The response waits for the thread; when the client is gone the wait may *)
(* be cancelled as well.                                                   *)
Close ==
    /\ response = "waiting"
    /\ thread = "ended" \/ outcome = "gone"
    /\ response' = "closed"
    /\ UNCHANGED <<ticketVars, outcome, sent, threadVars, queue, abort>>
--------------------------------------------------------------------------------
DownloadNext ==
    \/ Mint \/ TicketExpires \/ AccessChanges \/ Redeem
    \/ Write \/ ReadFails \/ Put \/ PutLastWord
    \/ Send \/ Disconnect \/ Leave \/ Close

DownloadSpec == DownloadInit /\ [][DownloadNext]_downloadVars

(* The thread and the event loop run; the client may stop reading for good.*)
DownloadFairness ==
    /\ WF_downloadVars(Write) /\ WF_downloadVars(Put)
    /\ WF_downloadVars(Leave) /\ WF_downloadVars(Close)
--------------------------------------------------------------------------------
DownloadTypeOK ==
    /\ ticket \in {"none", "valid", "expired"}
    /\ allowed \in BOOLEAN
    /\ response \in {"none", "sending", "leaving", "waiting", "closed"}
    /\ outcome \in {"none", "refused", "complete", "broken", "gone"}
    /\ sent \in Seq(1..Chunks)
    /\ thread \in {"none", "archiving", "parked", "ended"}
    /\ (thread = "none") <=> (response = "none" \/ outcome = "refused")
    /\ next \in 1..(Chunks + 1)
    /\ torn \in BOOLEAN /\ abort \in BOOLEAN
    /\ late \in {Nothing, Error, Eof}
    /\ queue \in Seq(Error..Eof)
    /\ Len(queue) <= Capacity

(* tasks.py:1093-1100, 1150-1160: a response that ends as complete has sent*)
(* every chunk of the archive in order, whatever went wrong under way.     *)
StreamComplete ==
    outcome = "complete" => sent = [n \in 1..Chunks |-> n]

(* tasks.py:1161-1169: the thread of a response that is over ends, even if *)
(* it was parked on a full queue.                                          *)
ThreadFreed == response = "leaving" ~> thread = "ended" /\ response = "closed"
================================================================================
