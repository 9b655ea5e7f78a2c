---------------------------- MODULE Services_proofs ----------------------------
(***************************************************************************)
(* Proofs about the parts that share no state with the builds: the page    *)
(* that watches a task (TaskStream), a download (Downloads), the rate      *)
(* limiter (RateLimiter) and the requests to a Git remote (GitAccess),     *)
(* each for every value of its constants; and the types of the four side   *)
(* by side (MCServices).                                                   *)
(***************************************************************************)
EXTENDS MCServices, TLAPS

(* The page that watches a task.                                           *)

(* Only the DELETE's own line, its last write, exceeds MaxLines.           *)
StreamInv == StreamTypeOK /\ (canceller # "logged" => lines <= MaxLines)

LEMMA StreamInvInit == StreamInit => StreamInv
<1> SUFFICES ASSUME StreamInit
             PROVE  StreamInv
  OBVIOUS
<1>1. MaxLines \in Nat /\ MaxDrops \in Nat
  BY StreamAssumption
<1>2. wire = <<>> /\ wire \in Seq(Message)
  BY DEF StreamInit
<1>3. poll \in [at : {"none", "asked"}]
  BY DEF StreamInit
<1>4. /\ status = "pending" /\ lines = 0 /\ out = [w \in Writers |-> None]
      /\ course = "waiting" /\ canceller = "none"
      /\ page = None /\ socket = "connecting" /\ joined = FALSE /\ retried = FALSE /\ drops = 0
  BY DEF StreamInit
<1>5. lines \in 0..LastLine /\ lines <= MaxLines /\ drops \in 0..MaxDrops
  BY <1>1, <1>4 DEF LastLine
<1>6. /\ joined \in BOOLEAN /\ (joined => socket = "open") /\ retried \in BOOLEAN
      /\ socket \in {"connecting", "open", "waiting", "stopped"}
  BY <1>4
<1> QED BY <1>2, <1>3, <1>4, <1>5, <1>6 DEF StreamInv, StreamTypeOK, Running

LEMMA ServerKeeps ==
  ASSUME StreamInv, Server
  PROVE  StreamInv'
<1>1. /\ MaxLines \in Nat /\ LastLine = MaxLines + 1 /\ lines \in 0..LastLine
      /\ out \in [Writers -> Message \cup {None}] /\ wire \in Seq(Message)
  BY StreamAssumption DEF StreamInv, StreamTypeOK, LastLine
<1>2. \A s \in Running \cup Ends : [type |-> "status", data |-> s] \in Message
  BY DEF Message
<1>3. \A n \in 1..LastLine : [type |-> "log", data |-> n] \in Message
  BY DEF Message
<1>4. "build" \in Writers /\ "delete" \in Writers
  BY DEF Writers
<1>5. ASSUME NEW w \in Writers, NEW s \in Running \cup Ends, SetStatus(w, s)
      PROVE  status' \in Running \cup Ends /\ out' \in [Writers -> Message \cup {None}]
  BY <1>1, <1>2, <1>5 DEF SetStatus
<1>6. ASSUME NEW w \in Writers, AppendLog(w), lines <= MaxLines
      PROVE  /\ lines' = lines + 1 /\ lines' \in 0..LastLine
             /\ out' \in [Writers -> Message \cup {None}]
  <2>1. lines + 1 \in 1..LastLine /\ lines' = lines + 1
    BY <1>1, <1>6 DEF AppendLog
  <2>2. [type |-> "log", data |-> lines + 1] \in Message
    BY <1>3, <2>1
  <2> QED BY <1>1, <1>6, <2>1, <2>2 DEF AppendLog
<1>7. ASSUME BuildStarts \/ BuildSkipped \/ BuildEnds
      PROVE  StreamInv'
  <2>1. UNCHANGED <<lines, canceller, page, poll, socket, joined, retried, wire, drops>>
    BY <1>7 DEF BuildStarts, BuildSkipped, BuildEnds, pageVars, linkVars
  <2>2. course' \in {"waiting", "building", "over"}
    BY <1>7 DEF BuildStarts, BuildSkipped, BuildEnds, StreamInv, StreamTypeOK
  <2>3. \/ \E s \in {"running", "completed", "failed"} : SetStatus("build", s)
        \/ UNCHANGED <<status, out>>
    BY <1>7 DEF BuildStarts, BuildSkipped, BuildEnds, Announce
  <2>4. status' \in Running \cup Ends /\ out' \in [Writers -> Message \cup {None}]
    <3>1. CASE UNCHANGED <<status, out>>
      BY <1>1, <3>1 DEF StreamInv, StreamTypeOK
    <3>2. CASE \E s \in {"running", "completed", "failed"} : SetStatus("build", s)
      <4>1. PICK s \in Running \cup Ends : SetStatus("build", s)
        BY <3>2 DEF Running, Ends
      <4> QED BY <1>4, <1>5, <4>1
    <3> QED BY <2>3, <3>1, <3>2
  <2> QED BY <2>1, <2>2, <2>4 DEF StreamInv, StreamTypeOK
<1>8. CASE BuildLogs
  <2>1. /\ AppendLog("build") /\ lines < MaxLines
        /\ UNCHANGED <<status, course, canceller, page, poll, socket, joined, retried, wire, drops>>
    BY <1>8 DEF BuildLogs, pageVars, linkVars
  <2>2. lines <= MaxLines /\ lines + 1 <= MaxLines
    BY <1>1, <2>1
  <2> QED BY <1>4, <1>6, <2>1, <2>2 DEF StreamInv, StreamTypeOK
<1>9. CASE DeleteLooks
  BY <1>9 DEF DeleteLooks, pageVars, linkVars, StreamInv, StreamTypeOK
<1>10. CASE DeleteWrites
  <2>1. /\ SetStatus("delete", "cancelled") /\ canceller = "killing" /\ canceller' = "written"
        /\ UNCHANGED <<lines, course, page, poll, socket, joined, retried, wire, drops>>
    BY <1>10 DEF DeleteWrites, pageVars, linkVars
  <2>2. "cancelled" \in Running \cup Ends
    BY DEF Ends
  <2> QED BY <1>4, <1>5, <2>1, <2>2 DEF StreamInv, StreamTypeOK
<1>11. CASE DeleteLogs
  <2>1. /\ AppendLog("delete") /\ canceller = "written" /\ canceller' = "logged"
        /\ UNCHANGED <<status, course, page, poll, socket, joined, retried, wire, drops>>
    BY <1>11 DEF DeleteLogs, pageVars, linkVars
  <2>2. lines <= MaxLines
    BY <2>1 DEF StreamInv
  <2> QED BY <1>4, <1>6, <2>1, <2>2 DEF StreamInv, StreamTypeOK
<1>12. ASSUME NEW w \in Writers, Broadcast(w)
       PROVE  StreamInv'
  <2>1. /\ out[w] \in Message /\ out' = [out EXCEPT ![w] = None]
        /\ UNCHANGED <<status, lines, course, canceller, page, poll, socket, joined, retried, drops>>
        /\ wire' = IF joined THEN Append(wire, out[w]) ELSE wire
    BY <1>1, <1>12 DEF Broadcast, pageVars
  <2>2. wire' \in Seq(Message) /\ (wire' # <<>> => joined)
    BY <1>1, <2>1 DEF StreamInv, StreamTypeOK
  <2>3. out' \in [Writers -> Message \cup {None}]
    BY <1>1, <2>1
  <2> QED BY <2>1, <2>2, <2>3 DEF StreamInv, StreamTypeOK
<1> QED BY <1>7, <1>8, <1>9, <1>10, <1>11, <1>12 DEF Server, Building, Deleting

LEMMA LinkKeeps ==
  ASSUME StreamInv, Link
  PROVE  StreamInv'
<1>1. drops \in 0..MaxDrops /\ MaxDrops \in Nat /\ wire \in Seq(Message)
  BY StreamAssumption DEF StreamInv, StreamTypeOK
<1>2. CASE Accept \/ Register \/ Reconnect
  <2>1. UNCHANGED <<status, lines, out, course, canceller, page, poll, wire, drops>>
    BY <1>2 DEF Accept, Register, Reconnect, serverVars, pageVars
  <2>2. /\ socket \in {"connecting", "open", "waiting", "stopped"} /\ retried \in BOOLEAN
        /\ joined \in BOOLEAN /\ (joined => socket = "open") /\ (wire # <<>> => joined)
    BY DEF StreamInv, StreamTypeOK
  <2>3. /\ socket' \in {"connecting", "open", "waiting", "stopped"} /\ retried' \in BOOLEAN
        /\ joined' \in BOOLEAN
    BY <1>2, <2>2 DEF Accept, Register, Reconnect
  <2>4. joined' => socket' = "open"
    BY <1>2, <2>2 DEF Accept, Register, Reconnect
  <2>5. joined => joined'
    BY <1>2 DEF Accept, Register, Reconnect
  <2> QED BY <2>1, <2>2, <2>3, <2>4, <2>5 DEF StreamInv, StreamTypeOK
<1>3. CASE Drop \/ Refuse
  <2>1. drops' \in 0..MaxDrops /\ UNCHANGED <<status, lines, out, course, canceller, page, poll>>
    BY <1>1, <1>3 DEF Drop, Refuse, serverVars, pageVars
  <2>2. /\ joined \in BOOLEAN /\ retried \in BOOLEAN
        /\ (joined => socket = "open") /\ (wire # <<>> => joined)
    BY DEF StreamInv, StreamTypeOK
  <2>3. /\ socket' \in {"connecting", "open", "waiting", "stopped"}
        /\ retried' \in BOOLEAN /\ joined' \in BOOLEAN
    BY <1>3, <2>2 DEF Drop, Refuse
  <2>4. wire' \in Seq(Message) /\ (wire' # <<>> => wire # <<>> /\ joined' = joined)
    <3>1. CASE Drop
      BY <3>1 DEF Drop
    <3>2. CASE Refuse
      BY <1>1, <3>2 DEF Refuse
    <3> QED BY <1>3, <3>1, <3>2
  <2>5. ~joined'
    <3>1. CASE Drop
      BY <3>1 DEF Drop
    <3>2. CASE Refuse
      <4>1. socket = "connecting" /\ joined' = joined
        BY <3>2 DEF Refuse
      <4>2. socket # "open"
        BY <4>1
      <4> QED BY <2>2, <4>1, <4>2
    <3> QED BY <1>3, <3>1, <3>2
  <2>6. wire' # <<>> => joined'
    BY <2>2, <2>4, <2>5
  <2> QED BY <2>1, <2>3, <2>4, <2>5, <2>6 DEF StreamInv, StreamTypeOK
<1>4. CASE Deliver
  <2> DEFINE m == Head(wire)
  <2>1. m \in Message /\ wire' \in Seq(Message) /\ (wire' # <<>> => wire # <<>>)
        /\ UNCHANGED <<status, lines, out, course, canceller, poll, socket, joined, retried, drops>>
    BY <1>1, <1>4 DEF Deliver, serverVars
  <2>2. page' = CASE page = None -> None
                  [] page # None /\ m.type = "status" -> [page EXCEPT !.status = m.data]
                  [] OTHER -> [page EXCEPT !.lines = Append(@, m.data)]
    BY <1>4 DEF Deliver
  <2>3. /\ m.type = "status" => m.data \in Running \cup Ends
        /\ m.type # "status" => m.data \in 1..LastLine
    BY <2>1 DEF Message
  <2> HIDE DEF m
  <2>4. page = None \/ page \in Shown
    BY DEF StreamInv, StreamTypeOK
  <2>5. page' \in Shown \cup {None}
    <3>1. CASE page = None
      BY <2>2, <3>1
    <3>2. CASE page # None /\ m.type = "status"
      <4>1. page' = [page EXCEPT !.status = m.data] /\ page \in Shown
        BY <2>2, <2>4, <3>2
      <4> QED BY <2>3, <3>2, <4>1 DEF Shown
    <3>3. CASE page # None /\ m.type # "status"
      <4>1. page' = [page EXCEPT !.lines = Append(page.lines, m.data)] /\ page \in Shown
        BY <2>2, <2>4, <3>3
      <4>2. Append(page.lines, m.data) \in Seq(1..LastLine)
        BY <2>3, <3>3, <4>1 DEF Shown
      <4> QED BY <4>1, <4>2 DEF Shown
    <3> QED BY <3>1, <3>2, <3>3
  <2> QED BY <2>1, <2>5 DEF StreamInv, StreamTypeOK
<1> QED BY <1>2, <1>3, <1>4 DEF Link

LEMMA PollingKeeps ==
  ASSUME StreamInv, Polling
  PROVE  StreamInv'
<1>1. CASE Ask
  <2>1. poll' \in [at : {"none", "asked"}]
    BY <1>1 DEF Ask
  <2> QED BY <1>1, <2>1 DEF Ask, serverVars, linkVars, StreamInv, StreamTypeOK
<1>2. CASE Snapshot
  <2>1. lines \in 0..LastLine /\ LastLine \in Nat /\ status \in Running \cup Ends
    BY StreamAssumption DEF StreamInv, StreamTypeOK, LastLine
  <2>2. [n \in 1..lines |-> n] \in Seq(1..LastLine)
    BY <2>1
  <2>3. [status |-> status, lines |-> [n \in 1..lines |-> n]] \in Shown
    BY <2>1, <2>2 DEF Shown
  <2>4. poll'.at = "answered" /\ poll'.shown \in Shown
    BY <1>2, <2>3 DEF Snapshot
  <2> QED BY <1>2, <2>4 DEF Snapshot, serverVars, linkVars, StreamInv, StreamTypeOK
<1>3. CASE Load
  <2>1. poll' \in [at : {"none", "asked"}]
    BY <1>3 DEF Load
  <2>2. page' \in Shown
    BY <1>3 DEF Load, StreamInv, StreamTypeOK
  <2> QED BY <1>3, <2>1, <2>2 DEF Load, serverVars, linkVars, StreamInv, StreamTypeOK
<1>4. CASE PollFails
  <2>1. poll' \in [at : {"none", "asked"}]
    BY <1>4 DEF PollFails
  <2>2. drops' \in 0..MaxDrops
    BY <1>4, StreamAssumption DEF PollFails, StreamInv, StreamTypeOK
  <2> QED BY <1>4, <2>1, <2>2 DEF PollFails, serverVars, linkVars, StreamInv, StreamTypeOK
<1> QED BY <1>1, <1>2, <1>3, <1>4 DEF Polling

LEMMA StreamInvNext == ASSUME StreamInv, [StreamNext]_streamVars PROVE StreamInv'
<1>1. CASE UNCHANGED streamVars
  BY <1>1 DEF streamVars, serverVars, pageVars, linkVars, StreamInv, StreamTypeOK
<1> QED BY <1>1, ServerKeeps, LinkKeeps, PollingKeeps DEF StreamNext

(* What the server keeps, sends and answers, and what the page shows, keep *)
(* their types, for any number of lines and of lost connections.           *)
THEOREM StreamTypeCorrect == StreamSpec => []StreamTypeOK
<1>1. StreamInv => StreamTypeOK
  BY DEF StreamInv
<1>2. StreamInv /\ [StreamNext]_streamVars => StreamInv'
  BY StreamInvNext
<1> QED BY <1>1, <1>2, StreamInvInit, PTL DEF StreamSpec

--------------------------------------------------------------------------------
(* A download that ends as complete is whole and in order, for archives    *)
(* and queues of any size.                                                 *)

(* The thread has put its last word.                                       *)
SaidAll == thread = "ended" /\ late = Nothing

(* Before its end the thread has said no last word; parked, it has a chunk *)
(* to put; its Eof stands for a whole archive.                             *)
ThreadInv ==
    /\ thread # "ended" => late = Nothing /\ \A i \in 1..Len(queue) : queue[i] # Eof
    /\ thread = "parked" => next <= Chunks
    /\ thread = "none" => queue = <<>> /\ sent = <<>> /\ next = 1
    /\ late = Eof => next = Chunks + 1
    /\ torn => late # Eof /\ \A i \in 1..Len(queue) : queue[i] # Eof

(* While the response sends an archive that was read well, sent and queue  *)
(* together are its first chunks, and the last word follows them.          *)
Unbroken ==
    response \in {"none", "sending"} /\ ~torn =>
        /\ ~SaidAll => /\ next = Len(sent) + Len(queue) + 1
                       /\ \A i \in 1..Len(queue) : queue[i] = Len(sent) + i
        /\ SaidAll => /\ queue # <<>> /\ next = Len(sent) + Len(queue)
                      /\ \A i \in 1..(Len(queue) - 1) : queue[i] = Len(sent) + i
                      /\ \/ queue[Len(queue)] = Error
                         \/ queue[Len(queue)] = Eof /\ next = Chunks + 1

InOrder == ~torn => \A i \in 1..Len(sent) : sent[i] = i

Completed ==
    outcome = "complete" =>
        ~torn /\ thread = "ended" /\ Len(sent) = Chunks /\ response \notin {"none", "sending"}

(* The outcome is known when the response has been decided, not before.    *)
Outcomes ==
    /\ response \in {"none", "sending"} => outcome = "none"
    /\ outcome = "refused" => response = "closed"

DownloadInv ==
    DownloadTypeOK /\ ThreadInv /\ Unbroken /\ InOrder /\ Completed /\ Outcomes

Flags == allowed \in BOOLEAN /\ torn \in BOOLEAN /\ abort \in BOOLEAN

Kinds ==
    /\ ticket \in {"none", "valid", "expired"}
    /\ response \in {"none", "sending", "leaving", "waiting", "closed"}
    /\ outcome \in {"none", "refused", "complete", "broken", "gone"}
    /\ sent \in Seq(1..Chunks)
    /\ thread \in {"none", "archiving", "parked", "ended"}
    /\ (thread = "none") <=> (response = "none" \/ outcome = "refused")
    /\ next \in 1..(Chunks + 1)
    /\ late \in {Nothing, Error, Eof}
    /\ queue \in Seq(Error..Eof)
    /\ Len(queue) <= Capacity

LEMMA TypeParts == DownloadTypeOK <=> Flags /\ Kinds
BY DEF DownloadTypeOK, Flags, Kinds

LEMMA DownloadInvInit == ASSUME DownloadInit PROVE DownloadInv
<1> USE DownloadAssumption DEF DownloadInit, Error, Eof, Nothing
<1>a. Flags
  BY DEF Flags
<1>b. Kinds
  BY DEF Kinds
<1>1. DownloadTypeOK
  BY <1>a, <1>b, TypeParts
<1>2. ThreadInv /\ Unbroken
  BY DEF ThreadInv, Unbroken, SaidAll
<1>3. InOrder /\ Completed /\ Outcomes
  BY DEF InOrder, Completed, Outcomes
<1>4. QED
  BY <1>1, <1>2, <1>3 DEF DownloadInv

LEMMA FlagsNext == ASSUME Flags, [DownloadNext]_downloadVars PROVE Flags'
BY DEF Flags, DownloadNext, downloadVars, ticketVars, threadVars, Mint, TicketExpires,
       AccessChanges, Redeem, Write, Stop, ReadFails, Put, PutLastWord, Send, Disconnect,
       Leave, Close

LEMMA KindsNext ==
    ASSUME DownloadInv, [DownloadNext]_downloadVars PROVE Kinds'
<1> USE DownloadAssumption DEF Kinds, ticketVars, threadVars, Error, Eof, Nothing
<1>0. Kinds /\ ThreadInv /\ Outcomes
  BY TypeParts DEF DownloadInv
<1>1. CASE Mint \/ TicketExpires \/ AccessChanges \/ Redeem
  BY <1>0, <1>1 DEF Mint, TicketExpires, AccessChanges, Redeem, Outcomes
<1>2. CASE Write \/ ReadFails
  BY <1>0, <1>2 DEF Write, ReadFails, Stop, ItsLastWord
<1>3. CASE Put
  BY <1>0, <1>3 DEF Put, ThreadInv
<1>4. CASE PutLastWord
  BY <1>0, <1>4 DEF PutLastWord
<1>5. CASE Send
  <2>1. /\ Tail(queue) \in Seq(0..(Chunks + 1)) /\ Len(Tail(queue)) <= Capacity
        /\ Head(queue) \in 0..(Chunks + 1)
    BY <1>0, <1>5 DEF Send
  <2>2. CASE Head(queue) \in {Eof, Error}
    BY <1>0, <1>5, <2>1, <2>2 DEF Send, Outcomes
  <2>3. CASE Head(queue) \notin {Eof, Error}
    <3>1. Head(queue) \in 1..Chunks
      BY <2>1, <2>3
    <3>a. sent' = Append(sent, Head(queue))
      BY <1>5, <2>3 DEF Send
    <3>2. sent' \in Seq(1..Chunks)
      BY <1>0, <3>1, <3>a
    <3>3. QED
      BY <1>0, <1>5, <2>1, <2>3, <3>2 DEF Send, Outcomes
  <2>4. QED
    BY <2>2, <2>3
<1>6. CASE Disconnect
  BY <1>0, <1>6 DEF Disconnect, Outcomes
<1>7. CASE Leave \/ Close
  <2>1. CASE Leave
    BY <1>0, <2>1 DEF Leave, Outcomes
  <2>2. CASE Close
    BY <1>0, <2>2 DEF Close, Outcomes
  <2>3. QED
    BY <1>7, <2>1, <2>2
<1>8. CASE UNCHANGED downloadVars
  BY <1>0, <1>8 DEF downloadVars
<1>9. QED
  BY <1>1, <1>2, <1>3, <1>4, <1>5, <1>6, <1>7, <1>8 DEF DownloadNext

LEMMA DownloadInvNext ==
    ASSUME DownloadInv, [DownloadNext]_downloadVars PROVE DownloadInv'
<1> USE DownloadAssumption DEF DownloadInv, ticketVars, threadVars
<1>a. Flags /\ Kinds /\ Flags' /\ Kinds'
  BY TypeParts, FlagsNext, KindsNext
<1>b. DownloadTypeOK'
  BY <1>a DEF DownloadTypeOK, Flags, Kinds
<1>0. Kinds /\ Kinds' /\ DownloadTypeOK'
  BY <1>a, <1>b
<1>1. CASE Mint \/ TicketExpires \/ AccessChanges
  <2>1. UNCHANGED <<response, outcome, sent, thread, next, torn, late, queue>>
    BY <1>1 DEF Mint, TicketExpires, AccessChanges
  <2>2. QED
    BY <1>0, <2>1 DEF Completed, ThreadInv, Unbroken, InOrder, SaidAll, Outcomes
<1>c. CASE Redeem
  BY <1>0, <1>c DEF Redeem, Completed, ThreadInv, Unbroken, InOrder, SaidAll, Outcomes, Kinds
<1>2. CASE Write
  BY <1>0, <1>2 DEF Write, Stop, ItsLastWord, Completed, ThreadInv, Unbroken, InOrder, SaidAll, Outcomes,
                    Kinds, Error, Eof, Nothing
<1>3. CASE ReadFails
  BY <1>0, <1>3 DEF ReadFails, Completed, ThreadInv, Unbroken, InOrder, SaidAll, Outcomes, Kinds,
                    Error, Eof, Nothing
<1>4. CASE Put
  <2>1. /\ queue' = Append(queue, next) /\ Len(queue') = Len(queue) + 1
        /\ \A i \in 1..Len(queue') :
              queue'[i] = IF i = Len(queue) + 1 THEN next ELSE queue[i]
        /\ next \in 1..Chunks /\ next' = next + 1
        /\ thread = "parked" /\ thread' = "archiving"
        /\ UNCHANGED <<response, outcome, sent, torn, late, abort>>
    <3>1. next \in 1..Chunks /\ queue \in Seq(0..(Chunks + 1))
      BY <1>0, <1>4 DEF Put, ThreadInv, Kinds, Error, Eof
    <3>2. /\ queue' = Append(queue, next) /\ next' = next + 1
          /\ thread = "parked" /\ thread' = "archiving"
          /\ UNCHANGED <<response, outcome, sent, torn, late, abort>>
      BY <1>4 DEF Put
    <3>3. QED
      BY <3>1, <3>2
  <2>a. Len(sent) \in Nat /\ Len(queue) \in Nat
    BY <1>0 DEF Kinds
  <2>2. ThreadInv'
    BY <1>0, <2>1 DEF ThreadInv, Kinds, Error, Eof, Nothing
  <2>3. Unbroken'
    <3>1. ~SaidAll /\ ~SaidAll'
      BY <2>1 DEF SaidAll
    <3>2. ASSUME response \in {"none", "sending"}, ~torn
          PROVE  /\ next' = Len(sent') + Len(queue') + 1
                 /\ \A i \in 1..Len(queue') : queue'[i] = Len(sent') + i
      <4>1. next = Len(sent) + Len(queue) + 1 /\ \A i \in 1..Len(queue) : queue[i] = Len(sent) + i
        BY <3>1, <3>2 DEF Unbroken
      <4>2. next' = Len(sent') + Len(queue') + 1
        BY <2>1, <2>a, <4>1
      <4>3. ASSUME NEW i \in 1..Len(queue') PROVE queue'[i] = Len(sent') + i
        <5>1. CASE i = Len(queue) + 1
          BY <2>1, <2>a, <4>1, <5>1
        <5>2. CASE i \in 1..Len(queue)
          BY <2>1, <2>a, <4>1, <5>2
        <5>3. QED
          BY <2>1, <2>a, <5>1, <5>2
      <4>4. QED
        BY <4>2, <4>3
    <3>3. QED
      BY <2>1, <3>1, <3>2 DEF Unbroken
  <2>4. InOrder' /\ Completed' /\ Outcomes'
    BY <2>1 DEF InOrder, Completed, Outcomes
  <2>5. QED
    BY <1>0, <2>2, <2>3, <2>4
<1>5. CASE PutLastWord
  <2>1. /\ queue' = Append(queue, late) /\ Len(queue') = Len(queue) + 1
        /\ \A i \in 1..Len(queue') :
              queue'[i] = IF i = Len(queue) + 1 THEN late ELSE queue[i]
        /\ late \in {Error, Eof} /\ late' = Nothing /\ Nothing # Eof /\ thread = "ended"
        /\ UNCHANGED <<response, outcome, sent, torn, thread, next, abort>>
    BY <1>0, <1>5 DEF PutLastWord, ThreadInv, Kinds, Error, Eof, Nothing
  <2>2. ThreadInv'
    BY <1>0, <2>1 DEF ThreadInv, Kinds
  <2>3. Unbroken'
    <3>1. ~SaidAll /\ SaidAll' /\ Len(sent) \in Nat /\ Len(queue) \in Nat
      BY <1>0, <2>1 DEF SaidAll, Kinds, Error, Eof, Nothing
    <3>2. late = Eof => next = Chunks + 1
      BY DEF ThreadInv
    <3>3. queue' # <<>>
      BY <2>1, <3>1
    <3>4. ASSUME response \in {"none", "sending"}, ~torn
          PROVE  /\ next' = Len(sent') + Len(queue')
                 /\ \A i \in 1..(Len(queue') - 1) : queue'[i] = Len(sent') + i
                 /\ \/ queue'[Len(queue')] = Error
                    \/ queue'[Len(queue')] = Eof /\ next' = Chunks + 1
      <4>1. next = Len(sent) + Len(queue) + 1 /\ \A i \in 1..Len(queue) : queue[i] = Len(sent) + i
        BY <3>1, <3>4 DEF Unbroken
      <4>2. queue'[Len(queue')] = late
        BY <2>1, <3>1
      <4>3. \A i \in 1..(Len(queue') - 1) : queue'[i] = queue[i]
        BY <2>1, <3>1
      <4>4. QED
        BY <2>1, <3>1, <3>2, <4>1, <4>2, <4>3
    <3>5. response' = response /\ (torn' <=> torn)
      BY <2>1
    <3>6. CASE response \in {"none", "sending"} /\ ~torn
      <4>1. SaidAll' /\ queue' # <<>>
        BY <3>1, <3>3
      <4>2. QED
        BY <3>4, <3>6, <4>1, Zenon DEF Unbroken
    <3>7. CASE ~(response \in {"none", "sending"} /\ ~torn)
      BY <3>5, <3>7 DEF Unbroken
    <3>8. QED
      BY <3>6, <3>7
  <2>4. InOrder' /\ Completed' /\ Outcomes'
    BY <2>1 DEF InOrder, Completed, Outcomes
  <2>5. QED
    BY <1>0, <2>2, <2>3, <2>4
<1>6. CASE Send
  <2>1. /\ Len(queue) \in Nat \ {0} /\ Len(queue') = Len(queue) - 1
        /\ Head(queue) = queue[1] /\ Head(queue) \in 0..(Chunks + 1)
        /\ \A i \in 1..Len(queue') : queue'[i] = queue[i + 1]
        /\ response = "sending"
        /\ UNCHANGED <<torn, thread, next, late, abort>>
    BY <1>0, <1>6 DEF Send, Kinds, Error, Eof
  <2>2. ThreadInv'
    BY <1>0, <1>6, <2>1 DEF Send, ThreadInv, Kinds, Outcomes
  <2>3. CASE Head(queue) \in {Eof, Error}
    <3>1. response' = "leaving" /\ sent' = sent /\ queue' = Tail(queue)
          /\ outcome' = IF Head(queue) = Eof THEN "complete" ELSE "broken"
      BY <1>6, <2>3 DEF Send
    <3>2. Unbroken' /\ InOrder' /\ Outcomes'
      BY <2>1, <3>1 DEF Unbroken, InOrder, Outcomes
    <3>3. ASSUME Head(queue) = Eof PROVE ~torn /\ thread = "ended" /\ Len(sent) = Chunks
      <4>1. ~torn /\ thread = "ended"
        BY <2>1, <3>3 DEF ThreadInv
      <4>2. CASE ~SaidAll
        BY <1>0, <2>1, <3>3, <4>1, <4>2 DEF Unbroken, Kinds, Eof
      <4>3. CASE SaidAll
        <5>1. /\ next = Len(sent) + Len(queue)
              /\ \A i \in 1..(Len(queue) - 1) : queue[i] = Len(sent) + i
              /\ (queue[Len(queue)] = Error \/ (queue[Len(queue)] = Eof /\ next = Chunks + 1))
          BY <2>1, <4>1, <4>3, Zenon DEF Unbroken
        <5>2. queue[1] = Chunks + 1 /\ next <= Chunks + 1 /\ Len(sent) \in Nat
          BY <1>0, <2>1, <3>3 DEF Kinds, Eof
        <5>3. CASE Len(queue) = 1
          <6>1. Chunks + 1 # 0 /\ Chunks \in Nat
            OBVIOUS
          <6>2. queue[1] # Error
            BY <5>2, <6>1 DEF Error
          <6>3. next = Chunks + 1
            BY <5>1, <5>3, <6>2, Zenon
          <6>4. QED
            BY <4>1, <5>1, <5>2, <5>3, <6>1, <6>3
        <5>4. CASE Len(queue) > 1
          BY <2>1, <5>1, <5>2, <5>4
        <5>5. QED
          BY <2>1, <5>3, <5>4
      <4>4. QED
        BY <4>1, <4>2, <4>3
    <3>4. Completed'
      BY <2>1, <3>1, <3>3 DEF Completed
    <3>5. QED
      BY <1>0, <2>2, <3>2, <3>4
  <2>4. CASE Head(queue) \notin {Eof, Error}
    <3>1. /\ Len(sent') = Len(sent) + 1 /\ Len(sent) \in Nat
          /\ \A i \in 1..Len(sent') :
                sent'[i] = IF i = Len(sent) + 1 THEN queue[1] ELSE sent[i]
          /\ UNCHANGED <<response, outcome>>
      <4>1. sent' = Append(sent, queue[1]) /\ UNCHANGED <<response, outcome>>
        BY <1>6, <2>1, <2>4 DEF Send
      <4>2. sent \in Seq(1..Chunks) /\ queue[1] \in 1..Chunks
        BY <1>0, <2>1, <2>4 DEF Kinds, Error, Eof
      <4>3. QED
        BY <4>1, <4>2
    <3>2. Unbroken'
      <4>1. SaidAll' <=> SaidAll
        BY <2>1 DEF SaidAll
      <4>2. CASE ~SaidAll
        BY <2>1, <3>1, <4>1, <4>2 DEF Unbroken
      <4>3. CASE SaidAll
        <5>1. ~torn => Len(queue) # 1
          BY <2>1, <2>4, <4>3 DEF Unbroken
        <5>2. ~torn => queue' # <<>> /\ queue'[Len(queue')] = queue[Len(queue)]
          BY <2>1, <5>1
        <5>3. ASSUME ~torn
              PROVE  /\ next' = Len(sent') + Len(queue')
                     /\ \A i \in 1..(Len(queue') - 1) : queue'[i] = Len(sent') + i
                     /\ \/ queue'[Len(queue')] = Error
                        \/ queue'[Len(queue')] = Eof /\ next' = Chunks + 1
          <6>1. /\ next = Len(sent) + Len(queue)
                /\ \A i \in 1..(Len(queue) - 1) : queue[i] = Len(sent) + i
                /\ (queue[Len(queue)] = Error \/ (queue[Len(queue)] = Eof /\ next = Chunks + 1))
            BY <2>1, <4>3, <5>3, Zenon DEF Unbroken
          <6>2. \A i \in 1..(Len(queue') - 1) : queue'[i] = Len(sent') + i
            <7>1. ASSUME NEW i \in 1..(Len(queue') - 1) PROVE queue'[i] = Len(sent') + i
              <8>1. i + 1 \in 1..(Len(queue) - 1) /\ i \in 1..Len(queue')
                BY <2>1
              <8>2. queue'[i] = queue[i + 1] /\ queue[i + 1] = Len(sent) + (i + 1)
                BY <2>1, <6>1, <8>1
              <8>3. QED
                BY <3>1, <8>1, <8>2
            <7>2. QED
              BY <7>1
          <6>3. QED
            BY <2>1, <3>1, <5>2, <5>3, <6>1, <6>2
        <5>4. QED
          BY <2>1, <4>1, <4>3, <5>2, <5>3 DEF Unbroken
      <4>4. QED
        BY <4>2, <4>3
    <3>3. ~torn => queue[1] = Len(sent) + 1
      BY <1>0, <2>1, <2>4 DEF Unbroken, SaidAll, Kinds
    <3>4. InOrder'
      BY <2>1, <3>1, <3>3 DEF InOrder
    <3>5. Completed' /\ Outcomes'
      BY <2>1, <3>1 DEF Completed, Outcomes
    <3>6. QED
      BY <1>0, <2>2, <3>2, <3>4, <3>5
  <2>5. QED
    BY <2>3, <2>4
<1>7. CASE Disconnect \/ Leave \/ Close
  BY <1>0, <1>7 DEF Disconnect, Leave, Close, Completed, ThreadInv, Unbroken, InOrder, SaidAll, Outcomes,
                    Kinds
<1>8. CASE UNCHANGED downloadVars
  BY <1>0, <1>8 DEF downloadVars, Completed, ThreadInv, Unbroken, InOrder, SaidAll, Outcomes
<1>9. QED
  BY <1>1, <1>2, <1>3, <1>4, <1>5, <1>6, <1>7, <1>8, <1>c DEF DownloadNext

LEMMA DownloadInvAlways == DownloadSpec => []DownloadInv
BY DownloadInvInit, DownloadInvNext, PTL DEF DownloadSpec

(* The archiving thread, the queue and the response keep their types, and  *)
(* the queue its bound.                                                    *)
THEOREM DownloadTypeCorrect == DownloadSpec => []DownloadTypeOK
<1>1. DownloadInv => DownloadTypeOK
  BY DEF DownloadInv
<1>2. QED
  BY <1>1, DownloadInvAlways, PTL

(* A response that ends as complete has sent every chunk of the archive in *)
(* order, whatever went wrong under way.                                   *)
THEOREM DownloadStreamComplete == DownloadSpec => []StreamComplete
<1>1. DownloadInv => StreamComplete
  BY DownloadAssumption DEF DownloadInv, DownloadTypeOK, InOrder, Completed, StreamComplete
<1>2. QED
  BY <1>1, DownloadInvAlways, PTL

--------------------------------------------------------------------------------
(* No window lets more through than its limit, for any clients, limits,    *)
(* lengths of the windows and times between clean-ups.                     *)

LEMMA WindowsPass ==
    ASSUME NEW a \in Nat, NEW m \in Nat \ {0}
    PROVE  a \div m \in 0..a /\ a \div m <= (a + 1) \div m
OBVIOUS

(* From the window under way on, the counters tell what was served.        *)
Agree(counts, tally, w) ==
    \A x \in DOMAIN counts : \A v \in Windows : v >= w => counts[x][v] = tally[x][v]

CountsTrue ==
    /\ Agree(minuteCounts, served.minute, MinuteOf(now))
    /\ Agree(hourCounts, served.hour, HourOf(now))
    /\ Agree(pathCounts, served.path, MinuteOf(now))

LimiterInv == LimiterTypeOK /\ CountsTrue /\ NeverOverLimit

LEMMA WindowsExist ==
    ASSUME LimiterTypeOK
    PROVE  /\ MinuteOf(now) \in Windows /\ HourOf(now) \in Windows
           /\ MinuteOf(now) <= MinuteOf(now + 1) /\ HourOf(now) <= HourOf(now + 1)
<1>1. now \in Nat /\ now <= MaxTime /\ MaxTime \in Nat
  BY LimiterAssumption DEF LimiterTypeOK
<1>2. /\ now \div Minute \in 0..now /\ now \div Minute <= (now + 1) \div Minute
      /\ now \div Hour \in 0..now /\ now \div Hour <= (now + 1) \div Hour
  BY <1>1, WindowsPass, LimiterAssumption
<1>3. QED
  BY <1>1, <1>2 DEF MinuteOf, HourOf, Windows

(* The clean-up takes windows that are over.                               *)
LEMMA CleanUpKeeps ==
    ASSUME NEW D, NEW counts \in [D -> [Windows -> Nat]], NEW tally, NEW w \in Windows,
           Agree(counts, tally, w)
    PROVE  /\ Recent(counts, w) \in [D -> [Windows -> Nat]]
           /\ Agree(Recent(counts, w), tally, w)
BY LimiterAssumption DEF Recent, Agree, Windows

Raise(counts, x, w) == [counts EXCEPT ![x][w] = @ + 1]

(* One more, in the counter of a window and in the tally.                  *)
LEMMA OneMore ==
    ASSUME NEW D, NEW counts \in [D -> [Windows -> Nat]],
           NEW tally \in [D -> [Windows -> Nat]], NEW w \in Windows, NEW x \in D,
           Agree(counts, tally, w)
    PROVE  /\ Raise(counts, x, w) \in [D -> [Windows -> Nat]]
           /\ Raise(tally, x, w) \in [D -> [Windows -> Nat]]
           /\ Agree(Raise(counts, x, w), Raise(tally, x, w), w)
<1> USE DEF Raise
<1>1. counts[x][w] = tally[x][w] /\ counts[x][w] \in Nat
  BY LimiterAssumption DEF Agree, Windows
<1>2. \A f \in [D -> [Windows -> Nat]] : Raise(f, x, w) \in [D -> [Windows -> Nat]]
  OBVIOUS
<1>3. ASSUME NEW y \in D, NEW v \in Windows, v >= w
      PROVE  Raise(counts, x, w)[y][v] = Raise(tally, x, w)[y][v]
  BY <1>1, <1>3 DEF Agree
<1>4. QED
  BY <1>1, <1>2, <1>3 DEF Agree

LEMMA AgreeAt ==
    ASSUME NEW D, NEW counts \in [D -> [Windows -> Nat]], NEW tally, NEW w \in Windows,
           Agree(counts, tally, w)
    PROVE  \A x \in D : counts[x][w] = tally[x][w]
BY LimiterAssumption DEF Agree, Windows

LEMMA LimiterInvInit == ASSUME LimiterInit PROVE LimiterInv
<1>1. Zero \in [Windows -> Nat]
  BY DEF Zero
<1>2. LimiterTypeOK
  BY <1>1, LimiterAssumption DEF LimiterInit, LimiterTypeOK, Counts, PathCounts
<1>3. CountsTrue
  BY DEF LimiterInit, CountsTrue, Agree
<1>4. NeverOverLimit
  BY LimiterAssumption DEF LimiterInit, NeverOverLimit, Zero
<1>5. QED
  BY <1>2, <1>3, <1>4 DEF LimiterInv

(* What a clean-up that may be due leaves.                                 *)
LEMMA KeptCounters ==
    ASSUME LimiterInv
    PROVE  /\ KeptMinutes \in Counts /\ Agree(KeptMinutes, served.minute, MinuteOf(now))
           /\ KeptHours \in Counts /\ Agree(KeptHours, served.hour, HourOf(now))
           /\ KeptPaths \in PathCounts /\ Agree(KeptPaths, served.path, MinuteOf(now))
<1>1. /\ minuteCounts \in Counts /\ hourCounts \in Counts /\ pathCounts \in PathCounts
      /\ MinuteOf(now) \in Windows /\ HourOf(now) \in Windows /\ CountsTrue
  BY WindowsExist DEF LimiterInv, LimiterTypeOK
<1>2. KeptMinutes \in Counts /\ Agree(KeptMinutes, served.minute, MinuteOf(now))
  BY <1>1, CleanUpKeeps DEF KeptMinutes, Counts, CountsTrue
<1>3. KeptHours \in Counts /\ Agree(KeptHours, served.hour, HourOf(now))
  BY <1>1, CleanUpKeeps DEF KeptHours, Counts, CountsTrue
<1>4. KeptPaths \in PathCounts /\ Agree(KeptPaths, served.path, MinuteOf(now))
  BY <1>1, CleanUpKeeps DEF KeptPaths, PathCounts, CountsTrue
<1>5. QED
  BY <1>2, <1>3, <1>4

Tallies == served \in [minute : Counts, hour : Counts, path : PathCounts]

LEMMA CountGlobalKeeps ==
    ASSUME LimiterInv, NEW c \in Clients, NEW r, CountGlobal(c, r), PathKey(r) = NoKey,
           UNCHANGED now
    PROVE  /\ {minuteCounts', hourCounts'} \subseteq Counts /\ pathCounts' \in PathCounts
           /\ Tallies' /\ CountsTrue' /\ NeverOverLimit'
<1> DEFINE m == MinuteOf(now)
           h == HourOf(now)
<1>1. /\ Tallies /\ NeverOverLimit /\ m \in Windows /\ h \in Windows
      /\ m' = m /\ h' = h
  BY WindowsExist DEF LimiterInv, LimiterTypeOK, Tallies, MinuteOf, HourOf
<1>2. pathCounts' = KeptPaths
  BY DEF CountGlobal
<1>3. CASE KeptMinutes[c][m] >= PerMinute \/ KeptHours[c][h] >= PerHour
  <2>1. minuteCounts' = KeptMinutes /\ hourCounts' = KeptHours /\ served' = served
    BY <1>3 DEF CountGlobal
  <2>2. QED
    BY <1>1, <1>2, <2>1, KeptCounters DEF CountsTrue, Tallies, NeverOverLimit
<1>4. CASE ~(KeptMinutes[c][m] >= PerMinute \/ KeptHours[c][h] >= PerHour)
  <2>1. /\ minuteCounts' = [KeptMinutes EXCEPT ![c][m] = @ + 1]
        /\ hourCounts' = [KeptHours EXCEPT ![c][h] = @ + 1]
        /\ served' = [served EXCEPT !.minute[c][m] = @ + 1, !.hour[c][h] = @ + 1]
    BY <1>4 DEF CountGlobal, ServedBy
  <2>2. /\ served'.minute = [served.minute EXCEPT ![c][m] = @ + 1]
        /\ served'.hour = [served.hour EXCEPT ![c][h] = @ + 1]
        /\ served'.path = served.path
        /\ served' \in [minute : {served'.minute}, hour : {served'.hour}, path : {served'.path}]
    BY <1>1, <2>1 DEF Tallies
  <2>3. /\ minuteCounts' \in Counts /\ served'.minute \in Counts
        /\ Agree(minuteCounts', served'.minute, m)
    <3>1. /\ KeptMinutes \in [Clients -> [Windows -> Nat]] /\ Agree(KeptMinutes, served.minute, m)
          /\ served.minute \in [Clients -> [Windows -> Nat]]
      BY <1>1, KeptCounters DEF Tallies, Counts
    <3>2. minuteCounts' = Raise(KeptMinutes, c, m) /\ served'.minute = Raise(served.minute, c, m)
      BY <2>1, <2>2 DEF Raise
    <3>3. Raise(KeptMinutes, c, m) \in [Clients -> [Windows -> Nat]]
      BY <1>1, <3>1, OneMore
    <3>4. Raise(served.minute, c, m) \in [Clients -> [Windows -> Nat]]
      BY <1>1, <3>1, OneMore
    <3>5. Agree(Raise(KeptMinutes, c, m), Raise(served.minute, c, m), m)
      BY <1>1, <3>1, OneMore
    <3>6. QED
      BY <3>2, <3>3, <3>4, <3>5 DEF Counts
  <2>4. /\ hourCounts' \in Counts /\ served'.hour \in Counts
        /\ Agree(hourCounts', served'.hour, h)
    <3>1. /\ KeptHours \in [Clients -> [Windows -> Nat]] /\ Agree(KeptHours, served.hour, h)
          /\ served.hour \in [Clients -> [Windows -> Nat]]
      BY <1>1, KeptCounters DEF Tallies, Counts
    <3>2. hourCounts' = Raise(KeptHours, c, h) /\ served'.hour = Raise(served.hour, c, h)
      BY <2>1, <2>2 DEF Raise
    <3>3. Raise(KeptHours, c, h) \in [Clients -> [Windows -> Nat]]
      BY <1>1, <3>1, OneMore
    <3>4. Raise(served.hour, c, h) \in [Clients -> [Windows -> Nat]]
      BY <1>1, <3>1, OneMore
    <3>5. Agree(Raise(KeptHours, c, h), Raise(served.hour, c, h), h)
      BY <1>1, <3>1, OneMore
    <3>6. QED
      BY <3>2, <3>3, <3>4, <3>5 DEF Counts
  <2>5. pathCounts' \in PathCounts /\ Agree(pathCounts', served'.path, m)
    BY <1>2, <2>2, KeptCounters
  <2>6. served.minute[c][m] < PerMinute /\ served.hour[c][h] < PerHour
    <3>1. served.minute[c][m] = KeptMinutes[c][m] /\ served.hour[c][h] = KeptHours[c][h]
      <4>1. /\ {KeptMinutes, served.minute, KeptHours, served.hour}
                 \subseteq [Clients -> [Windows -> Nat]]
            /\ Agree(KeptMinutes, served.minute, m) /\ Agree(KeptHours, served.hour, h)
        BY <1>1, KeptCounters DEF Tallies, Counts
      <4>2. \A d \in Clients : KeptMinutes[d][m] = served.minute[d][m]
        BY <1>1, <4>1, AgreeAt
      <4>3. \A d \in Clients : KeptHours[d][h] = served.hour[d][h]
        BY <1>1, <4>1, AgreeAt
      <4>4. QED
        BY <4>2, <4>3
    <3>2. served.minute[c][m] \in Nat /\ served.hour[c][h] \in Nat
      BY <1>1 DEF Tallies, Counts
    <3>3. QED
      BY <1>4, <3>1, <3>2, LimiterAssumption
  <2>7. NeverOverLimit'
    <3>1. \A d \in Clients, w \in Windows : served'.minute[d][w] <= PerMinute
      <4>1. served.minute \in [Clients -> [Windows -> Nat]]
        BY <1>1 DEF Tallies, Counts
      <4>2. QED
        BY <1>1, <2>2, <2>6, <4>1, LimiterAssumption DEF NeverOverLimit
    <3>2. \A d \in Clients, w \in Windows : served'.hour[d][w] <= PerHour
      <4>1. served.hour \in [Clients -> [Windows -> Nat]]
        BY <1>1 DEF Tallies, Counts
      <4>2. QED
        BY <1>1, <2>2, <2>6, <4>1, LimiterAssumption DEF NeverOverLimit
    <3>3. QED
      BY <1>1, <2>2, <3>1, <3>2 DEF NeverOverLimit
  <2>8. QED
    BY <1>1, <2>2, <2>3, <2>4, <2>5, <2>7 DEF CountsTrue, Tallies, MinuteOf, HourOf
<1>5. QED
  BY <1>3, <1>4

LEMMA CountPathKeeps ==
    ASSUME LimiterInv, NEW c \in Clients, NEW r, CountPath(c, r), PathKey(r) # NoKey,
           UNCHANGED now
    PROVE  /\ {minuteCounts', hourCounts'} \subseteq Counts /\ pathCounts' \in PathCounts
           /\ Tallies' /\ CountsTrue' /\ NeverOverLimit'
<1> DEFINE k == PathKey(r)
           x == <<c, k>>
           m == MinuteOf(now)
           h == HourOf(now)
<1>1. /\ Tallies /\ NeverOverLimit /\ m \in Windows /\ h \in Windows
      /\ m' = m /\ h' = h
  BY WindowsExist DEF LimiterInv, LimiterTypeOK, Tallies, MinuteOf, HourOf
<1>2. minuteCounts' = KeptMinutes /\ hourCounts' = KeptHours
  BY DEF CountPath
<1>3. ASSUME pathCounts' = KeptPaths, served' = served
      PROVE  /\ {minuteCounts', hourCounts'} \subseteq Counts /\ pathCounts' \in PathCounts
             /\ Tallies' /\ CountsTrue' /\ NeverOverLimit'
  BY <1>1, <1>2, <1>3, KeptCounters DEF CountsTrue, Tallies, NeverOverLimit
<1>4. CASE KeptPaths[x][m] >= PathLimit[k]
  BY <1>3, <1>4 DEF CountPath
<1>5. CASE ~(KeptPaths[x][m] >= PathLimit[k])
  <2>1. /\ pathCounts' = [KeptPaths EXCEPT ![x][m] = @ + 1]
        /\ served' = [served EXCEPT !.path[x][m] = @ + 1]
    BY <1>5 DEF CountPath, ServedBy
  <2>2. /\ served'.path = [served.path EXCEPT ![x][m] = @ + 1]
        /\ served'.minute = served.minute /\ served'.hour = served.hour
        /\ served' \in [minute : {served'.minute}, hour : {served'.hour}, path : {served'.path}]
        /\ served.path \in [Clients \X Keys -> [Windows -> Nat]]
    BY <1>1, <2>1 DEF Tallies, PathCounts
  <2>3. CASE k \in Keys
    <3>1. x \in Clients \X Keys
      BY <2>3
    <3>2. /\ pathCounts' \in PathCounts /\ served'.path \in PathCounts
          /\ Agree(pathCounts', served'.path, m)
          /\ KeptPaths[x][m] = served.path[x][m]
      <4>1. PICK D : D = Clients \X Keys
        OBVIOUS
      <4>2. PICK y \in D : y = x
        BY <3>1, <4>1
      <4>3. /\ KeptPaths \in [D -> [Windows -> Nat]] /\ served.path \in [D -> [Windows -> Nat]]
            /\ Agree(KeptPaths, served.path, m)
        BY <2>2, <4>1, KeptCounters DEF PathCounts
      <4>4. /\ Raise(KeptPaths, y, m) \in [D -> [Windows -> Nat]]
            /\ Raise(served.path, y, m) \in [D -> [Windows -> Nat]]
            /\ Agree(Raise(KeptPaths, y, m), Raise(served.path, y, m), m)
            /\ KeptPaths[y][m] = served.path[y][m]
        <5>1. Raise(KeptPaths, y, m) \in [D -> [Windows -> Nat]]
          BY <1>1, <4>3, OneMore
        <5>2. Raise(served.path, y, m) \in [D -> [Windows -> Nat]]
          BY <1>1, <4>3, OneMore
        <5>3. Agree(Raise(KeptPaths, y, m), Raise(served.path, y, m), m)
          BY <1>1, <4>3, OneMore
        <5>4. KeptPaths[y][m] = served.path[y][m]
          BY <1>1, <4>3, AgreeAt
        <5>5. QED
          BY <5>1, <5>2, <5>3, <5>4
      <4>5. QED
        BY <2>1, <2>2, <4>1, <4>2, <4>4 DEF PathCounts, Raise
    <3>3. served.path[x][m] < PathLimit[k] /\ PathLimit[k] \in Nat
      <4>1. served.path[x][m] \in Nat /\ PathLimit[k] \in Nat
        BY <1>1, <2>2, <2>3, <3>1, LimiterAssumption
      <4>2. QED
        BY <1>5, <3>2, <4>1
    <3>4. \A d \in Clients, w \in Windows, l \in Keys :
              served'.path[<<d, l>>][w] <= PathLimit[l]
      <4>1. SUFFICES ASSUME NEW d \in Clients, NEW w \in Windows, NEW l \in Keys
                     PROVE  served'.path[<<d, l>>][w] <= PathLimit[l]
        OBVIOUS
      <4>2. served.path[<<d, l>>][w] <= PathLimit[l]
        BY <1>1 DEF NeverOverLimit
      <4>3. CASE <<d, l>> = x /\ w = m
        BY <2>2, <3>1, <3>3, <4>3
      <4>4. CASE ~(<<d, l>> = x /\ w = m)
        <5>1. ASSUME NEW y \in Clients \X Keys, ~(y = x /\ w = m)
              PROVE  served'.path[y][w] = served.path[y][w]
          <6>1. CASE y # x
            BY <2>2, <6>1
          <6>2. CASE y = x /\ w # m
            <7>1. [served.path[x] EXCEPT ![m] = @ + 1][w] = served.path[x][w]
              BY <2>2, <3>1, <6>2
            <7>2. QED
              BY <2>2, <3>1, <6>2, <7>1
          <6>3. QED
            BY <5>1, <6>1, <6>2
        <5>2. QED
          BY <4>2, <4>4, <5>1
      <4>5. QED
        BY <4>3, <4>4
    <3>5. NeverOverLimit'
      BY <1>1, <2>2, <3>4 DEF NeverOverLimit
    <3>6. QED
      BY <1>1, <1>2, <2>2, <3>2, <3>5, KeptCounters DEF CountsTrue, Tallies, MinuteOf, HourOf
  <2>4. CASE k \notin Keys
    <3>1. x \notin Clients \X Keys
      BY <2>4
    <3>2. \A f \in [Clients \X Keys -> [Windows -> Nat]] : [f EXCEPT ![x][m] = @ + 1] = f
      BY <3>1
    <3>3. pathCounts' = KeptPaths /\ served'.path = served.path
      BY <2>1, <2>2, <3>2, KeptCounters DEF PathCounts
    <3>4. served' = served
      BY <1>1, <2>2, <3>3 DEF Tallies
    <3>5. QED
      BY <1>3, <3>3, <3>4
  <2>5. QED
    BY <2>3, <2>4
<1>6. QED
  BY <1>4, <1>5

LEMMA LimiterInvNext == ASSUME LimiterInv, [LimiterNext]_limiterVars PROVE LimiterInv'
<1>0. LimiterTypeOK
  BY DEF LimiterInv
<1>1. ASSUME NEW c \in Clients, NEW r, Count(c, r) PROVE LimiterInv'
  <2>1. UNCHANGED now /\ cleaned' \in {now, cleaned}
    BY <1>1 DEF Count
  <2>2. /\ {minuteCounts', hourCounts'} \subseteq Counts /\ pathCounts' \in PathCounts
        /\ Tallies' /\ CountsTrue' /\ NeverOverLimit'
    BY <1>1, <2>1, CountGlobalKeeps, CountPathKeeps DEF Count
  <2>3. QED
    BY <1>0, <2>1, <2>2, LimiterAssumption DEF LimiterInv, LimiterTypeOK, Tallies
<1>2. CASE Tick
  <2>1. LimiterTypeOK'
    BY <1>0, <1>2, LimiterAssumption DEF Tick, LimiterTypeOK
  <2>2. /\ MinuteOf(now') \in Windows /\ MinuteOf(now) <= MinuteOf(now')
        /\ HourOf(now') \in Windows /\ HourOf(now) <= HourOf(now')
        /\ MinuteOf(now) \in Windows /\ HourOf(now) \in Windows
    BY <1>0, <1>2, <2>1, WindowsExist, LimiterAssumption
       DEF Tick, LimiterTypeOK, MinuteOf, HourOf, Windows
  <2>3. CountsTrue'
    BY <1>2, <2>2, LimiterAssumption DEF LimiterInv, CountsTrue, Agree, Tick, Windows
  <2>4. QED
    BY <1>2, <2>1, <2>3 DEF LimiterInv, NeverOverLimit, Tick
<1>3. CASE UNCHANGED limiterVars
  BY <1>3 DEF LimiterInv, LimiterTypeOK, CountsTrue, Agree, NeverOverLimit, limiterVars,
              MinuteOf, HourOf
<1>4. QED
  BY <1>1, <1>2, <1>3 DEF LimiterNext, PassThrough

LEMMA LimiterInvAlways == LimiterSpec => []LimiterInv
BY LimiterInvInit, LimiterInvNext, PTL DEF LimiterSpec

(* In no minute and no hour does a client get more through than the limit  *)
(* of the path, or the general ones, however its requests fall between     *)
(* the clean-ups and whatever the limits are.                              *)
THEOREM LimiterNeverOverLimit == LimiterSpec => []NeverOverLimit
<1>1. LimiterInv => NeverOverLimit
  BY DEF LimiterInv
<1>2. QED
  BY <1>1, LimiterInvAlways, PTL

--------------------------------------------------------------------------------
(* What an answered request to a Git remote leaves behind, for any number  *)
(* of requests at once.                                                    *)

Git == {"clone", "ls-remote", "ls-tree", "show", "ls-tree-r"}

LEMMA ProcessLists ==
    ASSUME NEW k \in DOMAIN Processes
    PROVE  /\ Len(Processes[k]) \in 1..4
           /\ Head(Processes[k]) = Processes[k][1]
           /\ \A i \in 1..Len(Processes[k]) : Processes[k][i] \in Git
           /\ k # "none"
<1>1. k \in {"list_refs", "scan_tree", "preview_frontend"}
  BY DEF Processes
<1>2. CASE k = "list_refs"
  <2>1. Processes[k] = <<"ls-remote">>
    BY <1>2 DEF Processes
  <2>2. Len(Processes[k]) = 1 /\ Head(Processes[k]) = Processes[k][1]
    BY <2>1
  <2>3. Processes[k][1] \in Git
    BY <2>1 DEF Git
  <2>4. QED
    BY <1>2, <2>2, <2>3
<1>3. CASE k = "scan_tree"
  <2>1. Processes[k] = <<"clone", "ls-tree", "show", "ls-tree-r">>
    BY <1>3 DEF Processes
  <2>2. Len(Processes[k]) = 4
    BY <2>1
  <2>3. Head(Processes[k]) = Processes[k][1]
    BY <2>1, <2>2
  <2>4. Processes[k][1] = "clone" /\ Processes[k][2] = "ls-tree"
    BY <2>1
  <2>5. Processes[k][3] = "show"
    BY <2>1
  <2>6. Processes[k][4] = "ls-tree-r"
    BY <2>1
  <2>7. QED
    BY <1>3, <2>2, <2>3, <2>4, <2>5, <2>6 DEF Git
<1>4. CASE k = "preview_frontend"
  <2>1. Processes[k] = <<"clone">>
    BY <1>4 DEF Processes
  <2>2. Len(Processes[k]) = 1 /\ Head(Processes[k]) = Processes[k][1]
    BY <2>1
  <2>3. Processes[k][1] \in Git
    BY <2>1 DEF Git
  <2>4. QED
    BY <1>4, <2>2, <2>3
<1>5. QED
  BY <1>1, <1>2, <1>3, <1>4

(* The processes of a call that it does not wait for.                      *)
Left(c) == IF at[c] = 0 THEN running[c] ELSE running[c] \ {Current(c)}

(* A call that has not begun has nothing.                                  *)
NotBegun(c) ==
    call[c] = "none" => at[c] = 0 /\ running[c] = {} /\ folder[c] = "none" /\ answer[c] = "none"

UnderWay(c) ==
    at[c] # 0 =>
        /\ at[c] \in 1..Len(Processes[call[c]])
        /\ Current(c) \in running[c]
        /\ folder[c] # "remains"
        /\ answer[c] = "none"

Answered(c) ==
    answer[c] # "none" =>
        /\ at[c] = 0
        /\ folder[c] # "made"
        /\ folder[c] = "remains" => "show" \in overdue[c]

(* It leaves running only what outlived its limit and was not killed.      *)
CallInv(c) ==
    /\ NotBegun(c) /\ UnderWay(c) /\ Answered(c)
    /\ Left(c) \subseteq overdue[c] \cap Optional

Types ==
    /\ call \in [Calls -> DOMAIN Processes \cup {"none"}]
    /\ at \in [Calls -> 0..4]
    /\ running \in [Calls -> SUBSET Git]
    /\ overdue \in [Calls -> SUBSET Git]
    /\ folder \in [Calls -> {"none", "made", "removed", "remains"}]
    /\ answer \in [Calls -> {"none", "refused", "error", "result"}]

GitInv == Types /\ \A c \in Calls : CallInv(c)

LEMMA GitInvInit == ASSUME GitInit PROVE GitInv
BY DEF GitInit, GitInv, Types, CallInv, NotBegun, UnderWay, Answered, Left

(* The calls share nothing.                                                *)
Alone(c) ==
    \A d \in Calls \ {c} :
        /\ call'[d] = call[d] /\ at'[d] = at[d] /\ running'[d] = running[d]
        /\ overdue'[d] = overdue[d] /\ folder'[d] = folder[d] /\ answer'[d] = answer[d]

LEMMA OthersKept ==
    ASSUME GitInv, NEW c \in Calls, Alone(c), Types', CallInv(c)'
    PROVE  GitInv'
BY DEF GitInv, Alone, CallInv, NotBegun, UnderWay, Answered, Left, Current

(* The call goes on to its next process, or answers.                       *)
LEMMA GoneOn ==
    ASSUME GitInv, NEW c \in Calls, at[c] # 0, NEW left \in SUBSET Git, NEW how \in {"error", "result"},
           GoOn(c, left) \/ Answer(c, how, left),
           UNCHANGED call, overdue' \in [Calls -> SUBSET Git],
           overdue[c] \subseteq overdue'[c], left \subseteq overdue'[c] \cap Optional,
           \A d \in Calls \ {c} : overdue'[d] = overdue[d]
    PROVE  GitInv'
<1> USE DEF Types
<1>1. Types /\ CallInv(c)
  BY DEF GitInv
<1>2. /\ call[c] \in DOMAIN Processes
      /\ Len(Processes[call[c]]) \in 1..4
      /\ \A i \in 1..Len(Processes[call[c]]) : Processes[call[c]][i] \in Git
      /\ at[c] \in 1..Len(Processes[call[c]])
      /\ answer[c] = "none" /\ folder[c] # "remains"
  BY <1>1, ProcessLists DEF CallInv, NotBegun, UnderWay
<1>3. ASSUME NEW end \in {"error", "result"}, Answer(c, end, left) PROVE GitInv'
  <2>1. PICK f \in Removed(c, left) : folder' = [folder EXCEPT ![c] = f]
    BY <1>3 DEF Answer
  <2>2. f \in {"none", "removed", "remains"} /\ (f = "remains" => "show" \in left)
    BY <2>1 DEF Removed
  <2>3. Types' /\ Alone(c)
    BY <1>1, <1>3, <2>1, <2>2 DEF Answer, Alone
  <2>4. CallInv(c)'
    BY <1>1, <1>2, <1>3, <2>1, <2>2 DEF Answer, CallInv, NotBegun, UnderWay, Answered, Left
  <2>5. QED
    BY <2>3, <2>4, OthersKept
<1>4. ASSUME GoOn(c, left), at[c] # Len(Processes[call[c]]) PROVE GitInv'
  <2>1. at[c] + 1 \in 1..Len(Processes[call[c]]) /\ at[c] + 1 \in 1..4
    BY <1>2, <1>4
  <2>2. /\ at' = [at EXCEPT ![c] = @ + 1]
        /\ running' = [running EXCEPT ![c] = left \cup {Processes[call[c]][at[c] + 1]}]
        /\ UNCHANGED <<folder, answer>>
    BY <1>4 DEF GoOn
  <2>3. Types' /\ Alone(c)
    BY <1>1, <1>2, <2>1, <2>2 DEF Alone
  <2>4. at'[c] = at[c] + 1 /\ running'[c] = left \cup {Current(c)'}
    BY <1>1, <2>2 DEF Current
  <2>5. CallInv(c)'
    BY <1>1, <1>2, <2>1, <2>2, <2>4 DEF CallInv, NotBegun, UnderWay, Answered, Left
  <2>6. QED
    BY <2>3, <2>5, OthersKept
<1>5. QED
  BY <1>3, <1>4 DEF GoOn

LEMMA GitInvNext == ASSUME GitInv, [GitNext]_gitVars PROVE GitInv'
<1>0. Types /\ \A c \in Calls : CallInv(c)
  BY DEF GitInv
<1>1. ASSUME NEW c \in Calls, Begin(c) PROVE GitInv'
  <2>1. PICK q \in Asked :
          /\ call' = [call EXCEPT ![c] = q.kind]
          /\ IF Valid(q)
             THEN /\ at' = [at EXCEPT ![c] = 1]
                  /\ running' = [running EXCEPT ![c] = {Head(Processes[q.kind])}]
                  /\ folder' = [folder EXCEPT ![c] =
                                  IF q.kind = "list_refs" THEN "none" ELSE "made"]
                  /\ UNCHANGED answer
             ELSE answer' = [answer EXCEPT ![c] = "refused"] /\ UNCHANGED <<at, running, folder>>
    BY <1>1 DEF Begin
  <2>2. /\ q.kind \in DOMAIN Processes /\ q.kind # "none"
        /\ 1 \in 1..Len(Processes[q.kind])
        /\ Head(Processes[q.kind]) = Processes[q.kind][1]
        /\ Processes[q.kind][1] \in Git
    BY ProcessLists DEF Asked
  <2>3. UNCHANGED overdue /\ call[c] = "none"
    BY <1>1 DEF Begin
  <2>4. Types' /\ Alone(c)
    <3>1. CASE Valid(q)
      BY <1>0, <2>1, <2>2, <2>3, <3>1 DEF Types, Alone
    <3>2. CASE ~Valid(q)
      BY <1>0, <2>1, <2>2, <2>3, <3>2 DEF Types, Alone
    <3>3. QED
      BY <3>1, <3>2
  <2>5. CallInv(c)'
    <3>1. CASE Valid(q)
      <4>1. /\ call'[c] = q.kind /\ at'[c] = 1 /\ running'[c] = {Current(c)'}
            /\ folder'[c] \in {"none", "made"} /\ answer'[c] = "none"
        BY <1>0, <2>1, <2>2, <2>3, <3>1 DEF Types, Current, CallInv, NotBegun
      <4>2. QED
        BY <2>2, <4>1 DEF CallInv, NotBegun, UnderWay, Answered, Left
    <3>2. CASE ~Valid(q)
      BY <1>0, <2>1, <2>2, <2>3, <3>2 DEF Types, CallInv, NotBegun, UnderWay, Answered, Left
    <3>3. QED
      BY <3>1, <3>2
  <2>6. QED
    BY <2>4, <2>5, OthersKept
<1>2. ASSUME NEW c \in Calls, Succeeds(c) \/ Fails(c) PROVE GitInv'
  <2>1. /\ UNCHANGED <<call, overdue>> /\ at[c] # 0
        /\ running[c] \ {Current(c)} \in SUBSET Git
        /\ running[c] \ {Current(c)} \subseteq overdue[c] \cap Optional
    BY <1>0, <1>2 DEF Succeeds, Fails, Types, CallInv, Left
  <2>2. GoOn(c, running[c] \ {Current(c)}) \/ Answer(c, "error", running[c] \ {Current(c)})
    BY <1>2 DEF Succeeds, Fails
  <2>3. QED
    BY <1>0, <2>1, <2>2, GoneOn DEF Types
<1>3. ASSUME NEW c \in Calls, TimesOut(c) PROVE GitInv'
  <2>1. /\ UNCHANGED call /\ at[c] # 0
        /\ Current(c) \in running[c] /\ running[c] \in SUBSET Git
        /\ running[c] \ {Current(c)} \subseteq overdue[c] \cap Optional
    BY <1>0, <1>3 DEF TimesOut, Types, CallInv, Left, UnderWay
  <2>2. overdue' = [overdue EXCEPT ![c] = @ \cup {Current(c)}]
    BY <1>3 DEF TimesOut
  <2>3. /\ overdue' \in [Calls -> SUBSET Git] /\ overdue'[c] = overdue[c] \cup {Current(c)}
        /\ \A d \in Calls \ {c} : overdue'[d] = overdue[d]
    BY <1>0, <2>1, <2>2 DEF Types
  <2>4. CASE Current(c) \in Optional
    BY <1>3, <2>1, <2>3, <2>4, GoneOn DEF TimesOut
  <2>5. CASE Current(c) \notin Optional
    BY <1>3, <2>1, <2>3, <2>5, GoneOn DEF TimesOut
  <2>6. QED
    BY <2>4, <2>5
<1>4. ASSUME NEW c \in Calls, StrayEnds(c) PROVE GitInv'
  <2>1. PICK p \in IF at[c] = 0 THEN running[c] ELSE running[c] \ {Current(c)} :
          running' = [running EXCEPT ![c] = @ \ {p}]
    BY <1>4 DEF StrayEnds
  <2>2. UNCHANGED <<call, at, overdue, folder, answer>>
    BY <1>4 DEF StrayEnds
  <2>3. Types' /\ Alone(c)
    BY <1>0, <2>1, <2>2 DEF Types, Alone
  <2>4. CallInv(c)'
    BY <1>0, <2>1, <2>2 DEF Types, CallInv, NotBegun, UnderWay, Answered, Left, Current
  <2>5. QED
    BY <2>3, <2>4, OthersKept
<1>5. ASSUME UNCHANGED gitVars PROVE GitInv'
  BY <1>0, <1>5 DEF GitInv, Types, CallInv, NotBegun, UnderWay, Answered, Left, Current, gitVars
<1>6. QED
  BY <1>1, <1>2, <1>3, <1>4, <1>5 DEF GitNext

LEMMA GitInvAlways == GitSpec => []GitInv
BY GitInvInit, GitInvNext, PTL DEF GitSpec

(* The calls keep their types, and one under way waits for a process that  *)
(* runs and has no answer yet.                                             *)
THEOREM GitTypeCorrect == GitSpec => []GitTypeOK
<1>1. GitInv => GitTypeOK
  BY DEF GitInv, Types, CallInv, UnderWay, GitTypeOK, Git
<1>2. QED
  BY <1>1, GitInvAlways, PTL

(* Whatever fails or takes too long, an answered call has left no process  *)
(* and no temporary clone, except after an overdue read of pyproject.toml  *)
(* or of the file list.                                                    *)
THEOREM GitNothingLeftBehind == GitSpec => []NothingLeftBehind
<1>1. GitInv => NothingLeftBehind
  BY DEF GitInv, CallInv, Answered, Left, NothingLeftBehind
<1>2. QED
  BY <1>1, GitInvAlways, PTL
--------------------------------------------------------------------------------
(* The four side by side: the invariant of each, whichever one moves.      *)
ServicesInv == StreamInv /\ DownloadInv /\ LimiterInv /\ GitInv

LEMMA ServicesInvInit == Init => ServicesInv
BY StreamInvInit, DownloadInvInit, LimiterInvInit, GitInvInit DEF Init, ServicesInv

LEMMA ServicesInvNext == ServicesInv /\ [Next]_vars => ServicesInv'
<1> SUFFICES ASSUME ServicesInv, [Next]_vars
             PROVE  ServicesInv'
  OBVIOUS
<1>1. /\ [StreamNext]_streamVars /\ [DownloadNext]_downloadVars
      /\ [LimiterNext]_limiterVars /\ [GitNext]_gitVars
  BY DEF Next, vars
<1>2. StreamInv'
  BY <1>1, StreamInvNext DEF ServicesInv
<1>3. DownloadInv'
  BY <1>1, DownloadInvNext DEF ServicesInv
<1>4. LimiterInv'
  BY <1>1, LimiterInvNext DEF ServicesInv
<1>5. GitInv'
  BY <1>1, GitInvNext DEF ServicesInv
<1> QED BY <1>2, <1>3, <1>4, <1>5 DEF ServicesInv

(* The types of all four parts hold however the parts are combined.        *)
THEOREM ServicesTyped == Spec => []TypesOK
<1>1. ServicesInv => TypesOK
  <2>1. GitInv => GitTypeOK
    BY DEF GitInv, Types, CallInv, UnderWay, GitTypeOK, Git
  <2> QED BY <2>1 DEF ServicesInv, TypesOK, StreamInv, DownloadInv, LimiterInv
<1> QED BY <1>1, ServicesInvInit, ServicesInvNext, PTL DEF Spec
================================================================================
