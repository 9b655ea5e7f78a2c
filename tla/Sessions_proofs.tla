---------------------------- MODULE Sessions_proofs ----------------------------
(***************************************************************************)
(* Proofs about the sessions of a user (Sessions): the types of rows,      *)
(* requests and storages, that no page is thrown out by its own rotation,  *)
(* that rotation never forks a session, and that a session ended stays     *)
(* over, for every set of browsers, every number of requests, tokens and   *)
(* faults.                                                                 *)
(*                                                                         *)
(* The inductive invariant has four layers: Basics (rows and requests fit  *)
(* together), Holders (a token is in one place), Excuses (who presents a   *)
(* used token was left behind by a reload) and Tight (a login has one      *)
(* claim to a new token, and one more for each refresh a reload left).     *)
(***************************************************************************)
EXTENDS Sessions, FiniteSetTheorems, TLAPS

(* A row has a family exactly while it exists, and nobody holds a token     *)
(* that has not been issued.                                               *)
Rows ==
    /\ \A t \in Token : family[t] = 0 <=> ~Exists(t)
    /\ \A t \in Token : family[t] # 0 => fate[family[t]] # "unused"
    /\ \A t \in Token : fate[t] = "unused" =>
          /\ \A b \in Browsers : stored[b] # t
          /\ \A r \in Slots : req[r].token # t

(* What a request under way carries.                                       *)
Carries(q) ==
    /\ q.at \in {"done", "refused"} => q.by # Nobody
    /\ q.at = "idle" => q.kind = "none" /\ q.by = Nobody /\ q.token = 0
    /\ q.at # "idle" => q.kind # "none"
    /\ q.kind = "login" => (q.token # 0 <=> q.at = "done")
    /\ q.kind = "refresh" => q.token # 0
    /\ q.kind = "endOne" /\ q.at = "sent" => q.token # 0
    /\ q.kind = "refresh" => q.picked = IF q.at = "looked" THEN {q.token} ELSE {}
    /\ q.kind \in {"login", "refresh", "none"} \/ q.kind \in Ending
    /\ q.kind \in Ending /\ q.at = "done" => q.token = 0

Carried == \A r \in Slots : Carries(req[r])

(* The first layer of the invariant: rows, requests and storages fit       *)
(* together.                                                               *)
Basics == TypeOK /\ Rows /\ Carried

LEMMA IdleShape ==
  /\ Idle \in Request /\ Idle.kind = "none" /\ Idle.by = Nobody /\ Idle.token = 0
  /\ Idle.at = "idle" /\ Idle.picked = {}
BY DEF Idle, Request, Kind

LEMMA RequestShape ==
  ASSUME NEW q \in Request
  PROVE  /\ q.kind \in Kind /\ q.by \in Browsers \cup {Nobody} /\ q.token \in Token \cup {0}
         /\ q.at \in {"idle", "sent", "looked", "done", "refused"} /\ q.picked \in SUBSET Token
BY DEF Request

(* Field by field: what each kind of step makes of its request.            *)
Becomes(r, kind, by, token, at, picked) ==
    /\ req'[r] = [kind |-> kind, by |-> by, token |-> token, at |-> at, picked |-> picked]
    /\ \A q \in Slots : q # r => req'[q] = req[q]
    /\ req' \in [Slots -> Request]
    /\ at # "idle"

(* Slot r is free again.                                                   *)
Ends(r) ==
    /\ req'[r] = Idle
    /\ \A q \in Slots : q # r => req'[q] = req[q]
    /\ req' \in [Slots -> Request]

(* What each action does, in these terms.                                  *)
LEMMA SendShape ==
  ASSUME TypeOK, NEW r \in Slots, NEW kind \in Kind, NEW b \in Browsers \cup {Nobody},
         NEW t \in Token \cup {0}, Send(r, kind, b, t)
  PROVE  /\ req[r] = Idle /\ Becomes(r, kind, b, t, "sent", {})
         /\ UNCHANGED <<fate, family, stored, overtaken, strays, faults>>
<1>1. [kind |-> kind, by |-> b, token |-> t, at |-> "sent", picked |-> {}] \in Request
  BY DEF Request
<1> QED BY <1>1 DEF Send, Becomes, TypeOK, tokenVars

(* A request is its five fields: what SMT does not see of a record.        *)
LEMMA RequestIs ==
  ASSUME NEW q \in Request
  PROVE  q = [kind |-> q.kind, by |-> q.by, token |-> q.token, at |-> q.at, picked |-> q.picked]
BY DEF Request

LEMMA EndedShape ==
  ASSUME TypeOK, NEW r \in Slots, NEW at \in {"done", "refused"}, NEW t \in Token \cup {0},
         req' = [req EXCEPT ![r] = Ended(r, at, t)]
  PROVE  IF req[r].by = Nobody THEN Ends(r)
         ELSE Becomes(r, req[r].kind, req[r].by, t, at, {})
<1>1. req[r] \in Request /\ req \in [Slots -> Request]
  BY DEF TypeOK
<1>2. CASE req[r].by = Nobody
  <2>1. req' = [req EXCEPT ![r] = Idle]
    BY <1>2 DEF Ended
  <2> QED BY <1>1, <1>2, <2>1, IdleShape DEF Ends
<1>3. CASE req[r].by # Nobody
  <2> DEFINE n == [req[r] EXCEPT !.at = at, !.token = t, !.picked = {}]
  <2>1. n \in Request
    BY <1>1 DEF Request
  <2>2. n.kind = req[r].kind /\ n.by = req[r].by /\ n.token = t /\ n.at = at /\ n.picked = {}
    BY <1>1 DEF Request
  <2>3. req' = [req EXCEPT ![r] = n]
    BY <1>3 DEF Ended
  <2> HIDE DEF n
  <2>4. n = [kind |-> n.kind, by |-> n.by, token |-> n.token, at |-> n.at, picked |-> n.picked]
    BY <2>1, RequestIs
  <2>5. n = [kind |-> req[r].kind, by |-> req[r].by, token |-> t, at |-> at, picked |-> {}]
    BY <2>2, <2>4, Zenon
  <2>6. req' \in [Slots -> Request] /\ req'[r] = n /\ \A q \in Slots : q # r => req'[q] = req[q]
    BY <1>1, <2>1, <2>3
  <2> QED BY <1>3, <2>5, <2>6 DEF Becomes
<1> QED BY <1>2, <1>3

LEMMA LookedRecord ==
  ASSUME NEW q \in Request, NEW P \in SUBSET Token
  PROVE  [q EXCEPT !.at = "looked", !.picked = P]
           = [kind |-> q.kind, by |-> q.by, token |-> q.token, at |-> "looked", picked |-> P]
<1> DEFINE n == [q EXCEPT !.at = "looked", !.picked = P]
<1>1. n \in Request
  BY DEF Request
<1>2. n.kind = q.kind /\ n.by = q.by /\ n.token = q.token /\ n.at = "looked" /\ n.picked = P
  BY DEF Request
<1> HIDE DEF n
<1>3. n = [kind |-> n.kind, by |-> n.by, token |-> n.token, at |-> n.at, picked |-> n.picked]
  BY <1>1, RequestIs
<1>4. n = [kind |-> q.kind, by |-> q.by, token |-> q.token, at |-> "looked", picked |-> P]
  BY <1>2, <1>3, Zenon
<1> QED BY <1>4 DEF n

LEMMA LookShape ==
  ASSUME Basics, NEW r \in Slots, Look(r)
  PROVE  /\ req[r].at = "sent"
         /\ UNCHANGED <<fate, family, stored, overtaken, strays, faults>>
         /\ \/ /\ Picked(r) # {} \/ req[r].kind \in {"login", "endAll"}
               /\ Becomes(r, req[r].kind, req[r].by, req[r].token, "looked", Picked(r))
            \/ req[r].by = Nobody /\ Ends(r)
            \/ req[r].by # Nobody /\ Becomes(r, req[r].kind, req[r].by, req[r].token, "refused", {})
<1>1. req[r] \in Request /\ req \in [Slots -> Request] /\ TypeOK
  BY DEF TypeOK, Basics
<1>2. req[r].at = "sent" /\ UNCHANGED <<fate, family, stored, overtaken, strays, faults>>
  BY DEF Look, tokenVars
<1>3. CASE req' = [req EXCEPT ![r] = Ended(r, "refused", @.token)]
  <2>1. req' = [req EXCEPT ![r] = Ended(r, "refused", req[r].token)]
    BY <1>1, <1>3
  <2>2. req[r].token \in Token \cup {0}
    BY <1>1, RequestShape
  <2> QED BY <1>1, <1>2, <2>1, <2>2, EndedShape
<1>4. CASE /\ Picked(r) # {} \/ req[r].kind \in {"login", "endAll"}
           /\ req' = [req EXCEPT ![r].at = "looked", ![r].picked = Picked(r)]
  <2> DEFINE new == [kind |-> req[r].kind, by |-> req[r].by, token |-> req[r].token,
                     at |-> "looked", picked |-> Picked(r)]
  <2>1. req[r].kind \in {"login", "refresh", "endOne", "endAll"}
    BY <1>2 DEF Basics, Carried, Carries, Ending
  <2>2. Picked(r) \in SUBSET Token
    <3>1. req[r].token \in Token \/ req[r].kind \in {"login", "endAll"}
      BY <1>1, <1>2, <2>1, RequestShape DEF Basics, Carried, Carries
    <3> QED BY <2>1, <3>1 DEF Picked, Unrevoked
  <2>3. new \in Request
    BY <1>1, <2>2 DEF Request
  <2>4. [req[r] EXCEPT !.at = "looked", !.picked = Picked(r)] = new
    BY <1>1, <2>2, LookedRecord
  <2>5. req' = [req EXCEPT ![r] = new]
    BY <1>1, <1>4, <2>4
  <2> HIDE DEF new
  <2>6. req' \in [Slots -> Request] /\ req'[r] = new /\ \A q \in Slots : q # r => req'[q] = req[q]
    BY <1>1, <2>3, <2>5
  <2> QED BY <1>2, <1>4, <2>6 DEF Becomes, new
<1> QED BY <1>2, <1>3, <1>4 DEF Look

LEMMA AbandonedShape ==
  ASSUME TypeOK, NEW r \in Slots, NEW lost
  PROVE  /\ Abandoned(r, lost) \in Request
         /\ \/ Abandoned(r, lost) = Idle
            \/ /\ req[r].at \notin {"done", "refused"}
               /\ Abandoned(r, lost) = [kind |-> req[r].kind, by |-> Nobody,
                      token |-> req[r].token, at |-> req[r].at, picked |-> req[r].picked]
<1> DEFINE q == req[r]
<1>1. q \in Request
  BY DEF TypeOK
<1> HIDE DEF q
<1>2. [q EXCEPT !.by = Nobody] = [kind |-> q.kind, by |-> Nobody, token |-> q.token,
                                  at |-> q.at, picked |-> q.picked]
  BY <1>1 DEF Request
<1>3. [q EXCEPT !.by = Nobody] \in Request
  BY <1>1 DEF Request
<1> QED BY <1>2, <1>3, IdleShape DEF Abandoned, q

LEMMA AnswerShape ==
  ASSUME TypeOK, NEW r \in Slots, Answer(r)
  PROVE  /\ Ends(r) /\ req[r].at \in {"done", "refused"}
         /\ UNCHANGED <<fate, family, overtaken, strays, faults>>
         /\ \/ req[r].kind # "refresh" /\ UNCHANGED stored
            \/ Store(req[r].by, 0)
            \/ /\ req[r].kind \in {"login", "refresh"} /\ req[r].at = "done"
               /\ Store(req[r].by, req[r].token)
<1>1. req \in [Slots -> Request] /\ req' = [req EXCEPT ![r] = Idle]
  BY DEF Answer, TypeOK
<1>2. Ends(r)
  BY <1>1, IdleShape DEF Ends
<1> QED BY <1>2 DEF Answer, tokenVars

--------------------------------------------------------------------------------
(* What a commit, a broken connection, a reload and a sending page do,     *)
(* field by field.                                                         *)

(* A new token t of family f; of `old`, what was not revoked is rotated.   *)
Issues(t, f, old) ==
    /\ fate[t] = "unused" /\ fate'[t] = "live" /\ family'[t] = f
    /\ \A u \in Token : u # t =>
          /\ family'[u] = family[u]
          /\ fate'[u] = IF u \in old /\ fate[u] \in {"live", "expired"} THEN "rotated"
                        ELSE fate[u]
    /\ fate' \in [Token -> Fate] /\ family' \in [Token -> Token \cup {0}]
    /\ UNCHANGED overtaken

(* A request that nobody waits for ends; of another the answer is on its   *)
(* way.                                                                    *)
EndsOrBecomes(r, token, at) ==
    \/ req[r].by = Nobody /\ Ends(r)
    \/ req[r].by # Nobody /\ Becomes(r, req[r].kind, req[r].by, token, at, {})

(* What a logout, a reset or the sessions page commits.                    *)
RevokesAll(r) ==
    /\ req[r].kind \in Ending
    /\ fate' \in [Token -> Fate] /\ UNCHANGED family
    /\ \A t \in Token :
          fate'[t] = IF t \in req[r].picked /\ fate[t] \in {"live", "expired"} THEN "ended"
                     ELSE fate[t]
    /\ overtaken' = overtaken \cup
         {t \in req[r].picked : \E q \in Slots :
             req[q].kind = "refresh" /\ req[q].at = "looked" /\ req[q].token = t}
    /\ EndsOrBecomes(r, 0, "done")

LEMMA IssueShape ==
  ASSUME TypeOK, NEW t \in Token, NEW f \in Token \cup {0}, NEW old \in SUBSET Token,
         NextToken(t), Issue(t, f, old), t \notin old
  PROVE  Issues(t, f, old)
<1>1. fate \in [Token -> Fate] /\ family \in [Token -> Token \cup {0}]
  BY DEF TypeOK
<1> DEFINE g == Revoke(old, "rotated")
<1>2. g \in [Token -> Fate] /\ \A u \in Token :
        g[u] = IF u \in old /\ fate[u] \in {"live", "expired"} THEN "rotated" ELSE fate[u]
  BY <1>1 DEF Revoke, Fate, Unrevoked
<1>3. fate' = [g EXCEPT ![t] = "live"] /\ family' = [family EXCEPT ![t] = f] /\ UNCHANGED overtaken
  BY DEF Issue
<1> HIDE DEF g
<1>4. "live" \in Fate
  BY DEF Fate
<1>5. fate' \in [Token -> Fate] /\ fate'[t] = "live" /\ \A u \in Token : u # t => fate'[u] = g[u]
  BY <1>2, <1>3, <1>4
<1>6. /\ family' \in [Token -> Token \cup {0}] /\ family'[t] = f
      /\ \A u \in Token : u # t => family'[u] = family[u]
  BY <1>1, <1>3
<1> QED BY <1>2, <1>3, <1>5, <1>6 DEF Issues, NextToken

LEMMA CommitShape ==
  ASSUME Basics, NEW r \in Slots, Commit(r)
  PROVE  /\ req[r].at = "looked" /\ UNCHANGED <<stored, strays, faults>>
         /\ \/ /\ UNCHANGED <<fate, family, overtaken>>
               /\ EndsOrBecomes(r, req[r].token, "refused")
            \/ /\ req[r].kind = "login"
               /\ \E t \in Token : Issues(t, t, {}) /\ EndsOrBecomes(r, t, "done")
            \/ /\ req[r].kind = "refresh" /\ req[r].token \in Token /\ Exists(req[r].token)
               /\ \E t \in Token :
                     /\ t # req[r].token
                     /\ Issues(t, family[req[r].token], {req[r].token})
                     /\ EndsOrBecomes(r, t, "done")
            \/ RevokesAll(r)
<1>1. req[r] \in Request /\ req \in [Slots -> Request] /\ TypeOK /\ Carries(req[r])
  BY DEF TypeOK, Basics, Carried
<1>2. req[r].at = "looked" /\ UNCHANGED <<stored, strays, faults>>
  BY DEF Commit
<1>3. ASSUME NEW t \in Token \cup {0}, Answered(r, t)
      PROVE  EndsOrBecomes(r, t, "done")
  BY <1>1, <1>3, EndedShape DEF Answered, EndsOrBecomes
<1>4. CASE Stale(r)
  <2>1. CommitFails(r)
    BY <1>4 DEF Commit
  <2>2. req' = [req EXCEPT ![r] = Ended(r, "refused", req[r].token)]
    BY <1>1, <2>1 DEF CommitFails
  <2>3. req[r].token \in Token \cup {0}
    BY <1>1, RequestShape
  <2>4. EndsOrBecomes(r, req[r].token, "refused")
    BY <1>1, <2>2, <2>3, EndedShape DEF EndsOrBecomes
  <2> QED BY <1>2, <2>1, <2>4 DEF CommitFails, tokenVars
<1>5. CASE ~Stale(r) /\ CommitLogin(r)
  <2>1. PICK t \in Token : NextToken(t) /\ Issue(t, t, {}) /\ Answered(r, t)
    BY <1>5 DEF CommitLogin
  <2>2. Issues(t, t, {})
    BY <1>1, <2>1, IssueShape
  <2> QED BY <1>2, <1>3, <1>5, <2>1, <2>2 DEF CommitLogin
<1>6. CASE ~Stale(r) /\ CommitRefresh(r)
  <2> DEFINE x == req[r].token
  <2>1. req[r].kind = "refresh"
    BY <1>6 DEF CommitRefresh
  <2>2. x \in Token /\ req[r].picked = {x}
    BY <1>1, <1>2, <2>1, RequestShape DEF Carries
  <2>3. Exists(x)
    BY <1>6, <2>2 DEF Stale
  <2>4. PICK t \in Token : NextToken(t) /\ Issue(t, family[x], {x}) /\ Answered(r, t)
    BY <1>6, <2>2 DEF CommitRefresh
  <2>5. t # x
    BY <2>3, <2>4 DEF NextToken, Exists
  <2>6. family[x] \in Token \cup {0}
    BY <1>1, <2>2 DEF TypeOK
  <2> HIDE DEF x
  <2>7. Issues(t, family[x], {x})
    BY <1>1, <2>2, <2>4, <2>5, <2>6, IssueShape
  <2> QED BY <1>2, <1>3, <2>1, <2>2, <2>3, <2>4, <2>5, <2>7 DEF x
<1>7. CASE ~Stale(r) /\ CommitRevoke(r)
  <2>1. fate \in [Token -> Fate] /\ req[r].picked \in SUBSET Token
    BY <1>1, RequestShape DEF TypeOK
  <2>2. fate' = Revoke(req[r].picked, "ended") /\ Answered(r, 0) /\ UNCHANGED family
    BY <1>7 DEF CommitRevoke
  <2>3. fate' \in [Token -> Fate] /\ \A t \in Token :
          fate'[t] = IF t \in req[r].picked /\ fate[t] \in {"live", "expired"} THEN "ended"
                     ELSE fate[t]
    BY <2>1, <2>2 DEF Revoke, Fate, Unrevoked
  <2>4. RevokesAll(r)
    BY <1>3, <1>7, <2>2, <2>3 DEF CommitRevoke, RevokesAll
  <2> QED BY <1>2, <2>4
<1> QED BY <1>4, <1>5, <1>6, <1>7 DEF Commit

(* A request that nobody waits for any more.                               *)
Leaves(r) ==
    \/ req'[r] = Idle
    \/ /\ req[r].at \in {"sent", "looked"}
       /\ req'[r] = [kind |-> req[r].kind, by |-> Nobody, token |-> req[r].token,
                     at |-> req[r].at, picked |-> req[r].picked]

(* Slot r loses its page.                                                  *)
BreaksFor(r) ==
    /\ req[r].by # Nobody
    /\ Leaves(r) /\ \A q \in Slots : q # r => req'[q] = req[q]
    /\ req' \in [Slots -> Request]
    /\ faults' \in 0..MaxFaults /\ UNCHANGED <<fate, family, overtaken, strays>>
    /\ \/ req[r].kind = "login" /\ UNCHANGED stored
       \/ req[r].kind # "login" /\ Store(req[r].by, 0)

(* Page b leaves all its requests, and each refresh counts as a stray of   *)
(* its login.                                                              *)
ReloadsAt(b) ==
    /\ \A r \in Slots : IF req[r].by = b THEN Leaves(r) ELSE req'[r] = req[r]
    /\ req' \in [Slots -> Request]
    /\ faults' \in 0..MaxFaults /\ faults < faults' /\ UNCHANGED <<fate, family, overtaken>>
    /\ \/ UNCHANGED stored
       \/ Store(b, 0)
    /\ strays' = [f \in Token |->
                    IF \E r \in Slots : /\ req[r].by = b /\ req[r].kind = "refresh"
                                        /\ family[req[r].token] = f
                    THEN strays[f] + 1 ELSE strays[f]]

LEMMA BreaksShape ==
  ASSUME TypeOK, NEW r \in Slots, Breaks(r)
  PROVE  BreaksFor(r)
<1>1. PICK lost \in BOOLEAN : req' = [req EXCEPT ![r] = Abandoned(r, lost)]
  BY DEF Breaks
<1>2. req \in [Slots -> Request] /\ faults \in 0..MaxFaults /\ MaxFaults \in Nat
  BY SessionsAssumption DEF TypeOK
<1>3. req[r].at # "idle" /\ req[r] \in Request
  BY <1>2 DEF Breaks
<1>4. Abandoned(r, lost) \in Request
  BY AbandonedShape
<1>5. /\ req' \in [Slots -> Request] /\ req'[r] = Abandoned(r, lost)
      /\ \A q \in Slots : q # r => req'[q] = req[q]
  BY <1>1, <1>2, <1>4
<1>6. Leaves(r)
  BY <1>3, <1>5, AbandonedShape, RequestShape DEF Leaves
<1> QED BY <1>2, <1>5, <1>6 DEF Breaks, BreaksFor, tokenVars

LEMMA ReloadShape ==
  ASSUME Basics, NEW b \in Browsers, Reload(b)
  PROVE  ReloadsAt(b)
<1>1. PICK lost \in BOOLEAN :
         req' = [r \in Slots |-> IF req[r].by = b THEN Abandoned(r, lost) ELSE req[r]]
  BY DEF Reload
<1>2. req \in [Slots -> Request] /\ faults \in 0..MaxFaults /\ MaxFaults \in Nat /\ TypeOK
  BY SessionsAssumption DEF TypeOK, Basics
<1>3. req' \in [Slots -> Request]
  BY <1>1, <1>2, AbandonedShape
<1>4. ASSUME NEW r \in Slots
      PROVE  IF req[r].by = b THEN Leaves(r) ELSE req'[r] = req[r]
  <2>1. CASE req[r].by = b
    <3>1. b # Nobody
      BY SessionsAssumption
    <3>2. req[r].at # "idle" /\ req[r] \in Request
      BY <1>2, <2>1, <3>1, IdleShape DEF TypeOK
    <3>3. req'[r] = Abandoned(r, lost)
      BY <1>1, <2>1
    <3> QED BY <1>2, <2>1, <3>2, <3>3, AbandonedShape, RequestShape DEF Leaves
  <2>2. CASE req[r].by # b
    BY <1>1, <2>2
  <2> QED BY <2>1, <2>2
<1>5. UNCHANGED stored \/ Store(b, 0)
  BY DEF Reload
<1>6. /\ faults' = faults + 1 /\ faults < MaxFaults /\ UNCHANGED <<fate, family, overtaken>>
      /\ strays' = [f \in Token |->
                    IF \E r \in Slots : /\ req[r].by = b /\ req[r].kind = "refresh"
                                        /\ family[req[r].token] = f
                    THEN strays[f] + 1 ELSE strays[f]]
  BY DEF Reload, tokenVars
<1> QED BY <1>2, <1>3, <1>4, <1>5, <1>6 DEF ReloadsAt

(* What leaves a browser, and what it knows then.                          *)
Sends(r, kind, b, t) ==
    /\ req[r] = Idle /\ Becomes(r, kind, b, t, "sent", {})
    /\ UNCHANGED <<fate, family, stored, overtaken, strays, faults>>
    /\ \/ kind = "login" /\ t = 0 /\ b \in Browsers
       \/ /\ kind = "refresh" /\ b \in Browsers /\ t = stored[b] /\ t \in Token
          /\ ~\E q \in Slots : req[q].by = b /\ req[q].kind = "refresh"
       \/ /\ kind \in Ending /\ b \in Browsers /\ t = stored[b] /\ t \in Token
       \/ kind = "endAll" /\ b = Nobody /\ t = 0
       \/ kind = "endOne" /\ b = Nobody /\ t \in Token /\ fate[t] \in {"live", "expired"}

LEMMA SendsShape ==
  ASSUME TypeOK, NEW r \in Slots,
         \/ \E b \in Browsers : SendLogin(r, b) \/ SendRefresh(r, b) \/ SendLogout(r, b)
         \/ SendRevoke(r)
  PROVE  \E kind \in Kind, b \in Browsers \cup {Nobody}, t \in Token \cup {0} :
            Sends(r, kind, b, t)
<1>1. {"login", "refresh", "endOne", "endAll"} \subseteq Kind
  BY DEF Kind, Ending
<1>2. CASE \E b \in Browsers : SendLogin(r, b)
  <2>1. PICK b \in Browsers : Send(r, "login", b, 0)
    BY <1>2 DEF SendLogin
  <2>2. Sends(r, "login", b, 0)
    BY <1>1, <2>1, SendShape DEF Sends
  <2> QED BY <1>1, <2>2
<1>3. CASE \E b \in Browsers : SendRefresh(r, b)
  <2>1. PICK b \in Browsers : SendRefresh(r, b)
    BY <1>3
  <2>2. stored[b] \in Token
    BY <2>1 DEF SendRefresh, TypeOK
  <2>3. Send(r, "refresh", b, stored[b]) /\ ~\E q \in Slots : req[q].by = b /\ req[q].kind = "refresh"
    BY <2>1 DEF SendRefresh, Waits
  <2>4. Sends(r, "refresh", b, stored[b])
    BY <1>1, <2>2, <2>3, SendShape DEF Sends
  <2> QED BY <1>1, <2>2, <2>4
<1>4. CASE \E b \in Browsers : SendLogout(r, b)
  <2>1. PICK b \in Browsers : SendLogout(r, b)
    BY <1>4
  <2>2. stored[b] \in Token
    BY <2>1 DEF SendLogout, TypeOK
  <2>3. PICK kind \in Ending : Send(r, kind, b, stored[b])
    BY <2>1 DEF SendLogout
  <2>4. kind \in Kind
    BY DEF Kind
  <2>5. Sends(r, kind, b, stored[b])
    BY <2>2, <2>3, <2>4, SendShape DEF Sends
  <2> QED BY <2>2, <2>4, <2>5
<1>5. CASE SendRevoke(r)
  <2>1. CASE Send(r, "endAll", Nobody, 0)
    <3>1. Sends(r, "endAll", Nobody, 0)
      BY <1>1, <2>1, SendShape DEF Sends
    <3> QED BY <1>1, <3>1
  <2>2. ASSUME NEW t \in Unrevoked, Send(r, "endOne", Nobody, t)
        PROVE  \E kind \in Kind, b \in Browsers \cup {Nobody}, u \in Token \cup {0} :
                  Sends(r, kind, b, u)
    <3>1. t \in Token /\ fate[t] \in {"live", "expired"}
      BY DEF Unrevoked
    <3>2. Sends(r, "endOne", Nobody, t)
      BY <1>1, <2>2, <3>1, SendShape DEF Sends
    <3> QED BY <1>1, <3>1, <3>2
  <2> QED BY <1>5, <2>1, <2>2 DEF SendRevoke
<1> QED BY <1>2, <1>3, <1>4, <1>5

--------------------------------------------------------------------------------
(* Basics: types, and rows and requests that fit together.                 *)

(* One slot after a step.                                                  *)
SlotSound(q) ==
    /\ Carries(req'[q])
    /\ req'[q].at = "idle" <=> req'[q] = Idle
    /\ req'[q].token \in Token => fate'[req'[q].token] # "unused"

LEMMA LeavingSound ==
  ASSUME Basics, NEW q \in Slots, req'[q] = req[q] \/ req'[q] = Idle \/ Leaves(q),
         req[q].token \in Token => fate'[req[q].token] # "unused"
  PROVE  SlotSound(q)
<1>1. /\ req[q] \in Request /\ Carries(req[q]) /\ (req[q].at = "idle" <=> req[q] = Idle)
      /\ req[q].token \in Token => fate[req[q].token] # "unused"
  BY DEF Basics, Carried, TypeOK, Rows
<1>2. CASE req'[q] = req[q]
  BY <1>1, <1>2 DEF SlotSound
<1>3. CASE req'[q] = Idle
  <2>1. Carries(Idle)
    BY IdleShape DEF Carries
  <2>2. Idle.token \notin Token
    BY IdleShape DEF Token
  <2> QED BY <1>3, <2>1, <2>2, IdleShape DEF SlotSound
<1>4. CASE /\ req[q].at \in {"sent", "looked"}
           /\ req'[q] = [kind |-> req[q].kind, by |-> Nobody, token |-> req[q].token,
                         at |-> req[q].at, picked |-> req[q].picked]
  <2>1. /\ req'[q].kind = req[q].kind /\ req'[q].by = Nobody /\ req'[q].token = req[q].token
        /\ req'[q].at = req[q].at /\ req'[q].picked = req[q].picked
    BY <1>4
  <2>2. Carries(req'[q])
    BY <1>1, <1>4, <2>1 DEF Carries
  <2>3. req'[q].at # "idle" /\ req'[q] # Idle
    BY <1>4, <2>1, IdleShape
  <2> QED BY <1>1, <2>1, <2>2, <2>3 DEF SlotSound
<1> QED BY <1>2, <1>3, <1>4 DEF Leaves

LEMMA BecomesSound ==
  ASSUME NEW r \in Slots, NEW kind, NEW by, NEW token, NEW at, NEW picked,
         Becomes(r, kind, by, token, at, picked),
         Carries([kind |-> kind, by |-> by, token |-> token, at |-> at, picked |-> picked]),
         token \in Token => fate'[token] # "unused"
  PROVE  SlotSound(r)
<1>1. req'[r] = [kind |-> kind, by |-> by, token |-> token, at |-> at, picked |-> picked]
  BY DEF Becomes
<1>2. req'[r].token = token /\ req'[r].at = at /\ at # "idle"
  BY <1>1 DEF Becomes
<1>3. req'[r] # Idle
  BY <1>2, IdleShape
<1> QED BY <1>1, <1>2, <1>3 DEF SlotSound

(* What keeps the basics, once every slot is sound.                        *)
LEMMA BasicsFrom ==
  ASSUME Basics, req' \in [Slots -> Request], \A q \in Slots : SlotSound(q),
         fate' \in [Token -> Fate], family' \in [Token -> Token \cup {0}],
         stored' \in [Browsers -> Token \cup {0}],
         overtaken' \subseteq Token, strays' \in [Token -> 0..MaxFaults],
         faults' \in 0..MaxFaults,
         \A t \in Token : family'[t] = 0 <=> ~Exists(t)',
         \A t \in Token : family'[t] # 0 => fate'[family'[t]] # "unused",
         \A b \in Browsers : stored'[b] \in Token => fate'[stored'[b]] # "unused"
  PROVE  Basics'
<1>1. TypeOK'
  BY DEF TypeOK, SlotSound
<1>2. Carried'
  BY DEF Carried, SlotSound
<1>3. Rows'
  BY DEF Rows, SlotSound
<1> QED BY <1>1, <1>2, <1>3 DEF Basics

(* What the proofs below use of Basics.                                    *)
LEMMA BasicsFacts ==
  ASSUME Basics
  PROVE  /\ TypeOK /\ Rows /\ Carried
         /\ fate \in [Token -> Fate] /\ family \in [Token -> Token \cup {0}]
         /\ stored \in [Browsers -> Token \cup {0}] /\ req \in [Slots -> Request]
         /\ overtaken \subseteq Token /\ strays \in [Token -> 0..MaxFaults]
         /\ faults \in 0..MaxFaults /\ MaxFaults \in Nat /\ MaxTokens \in Nat
         /\ 0 \notin Token /\ Nobody \notin Browsers
         /\ \A b \in Browsers : stored[b] \in Token => fate[stored[b]] # "unused"
         /\ \A q \in Slots : req[q].token \in Token => fate[req[q].token] # "unused"
         /\ \A q \in Slots : /\ req[q].kind \in Kind /\ req[q].by \in Browsers \cup {Nobody}
                             /\ req[q].token \in Token \cup {0} /\ Carries(req[q])
                             /\ req[q].at \in {"idle", "sent", "looked", "done", "refused"}
                             /\ req[q].picked \in SUBSET Token
BY SessionsAssumption, RequestShape DEF Basics, TypeOK, Rows, Carried, Token

(* The rows, storage and request of a step that only moves requests.       *)
LEMMA BasicsOfQuietStep ==
  ASSUME Basics, UNCHANGED <<fate, family, overtaken>>,
         stored' \in [Browsers -> Token \cup {0}],
         strays' \in [Token -> 0..MaxFaults], faults' \in 0..MaxFaults,
         req' \in [Slots -> Request], \A q \in Slots : SlotSound(q),
         \A b \in Browsers : stored'[b] \in Token => fate[stored'[b]] # "unused"
  PROVE  Basics'
<1>1. \A t \in Token : Exists(t)' <=> Exists(t)
  BY DEF Exists
<1>2. \A b \in Browsers : stored'[b] \in Token => fate'[stored'[b]] # "unused"
  OBVIOUS
<1> QED BY <1>1, <1>2, BasicsFrom, BasicsFacts DEF Rows

LEMMA BasicsInit == Init => Basics
<1> SUFFICES ASSUME Init
             PROVE  Basics
  OBVIOUS
<1>1. /\ fate = [t \in Token |-> "unused"] /\ family = [t \in Token |-> 0]
      /\ stored = [b \in Browsers |-> 0] /\ req = [r \in Slots |-> Idle]
      /\ overtaken = {} /\ strays = [t \in Token |-> 0] /\ faults = 0
  BY DEF Init
<1>2. MaxFaults \in Nat /\ MaxTokens \in Nat /\ 0 \notin Token /\ "unused" \in Fate
  BY SessionsAssumption DEF Token, Fate
<1>3. Carries(Idle)
  BY IdleShape DEF Carries
<1>4. TypeOK
  BY <1>1, <1>2, IdleShape DEF TypeOK
<1>5. Rows
  BY <1>1, <1>2, IdleShape DEF Rows, Exists
<1>6. Carried
  BY <1>1, <1>3 DEF Carried
<1> QED BY <1>4, <1>5, <1>6 DEF Basics

LEMMA StoredTyped ==
  ASSUME Basics, NEW b \in Browsers \cup {Nobody}, NEW t \in Token \cup {0}, Store(b, t)
  PROVE  /\ stored' \in [Browsers -> Token \cup {0}]
         /\ \A c \in Browsers : stored'[c] = IF c = b THEN t ELSE stored[c]
BY BasicsFacts DEF Store

(* Every action keeps the basics.                                          *)
LEMMA SendsBasics ==
  ASSUME Basics, NEW r \in Slots, NEW kind \in Kind, NEW b \in Browsers \cup {Nobody},
         NEW t \in Token \cup {0}, Sends(r, kind, b, t)
  PROVE  Basics'
<1>1. /\ Becomes(r, kind, b, t, "sent", {}) /\ req' \in [Slots -> Request]
      /\ UNCHANGED <<fate, family, stored, overtaken, strays, faults>>
  BY DEF Sends, Becomes
<1>2. t \in Token => fate'[t] # "unused"
  <2>1. t \in Token => fate[t] # "unused"
    BY BasicsFacts DEF Sends
  <2> QED BY <1>1, <2>1
<1> DEFINE q == [kind |-> kind, by |-> b, token |-> t, at |-> "sent", picked |-> {}]
<1>3. Carries(q)
  <2>1. /\ q.kind = kind /\ q.by = b /\ q.token = t /\ q.at = "sent" /\ q.picked = {}
    OBVIOUS
  <2>2. /\ kind \in {"login", "refresh"} \/ kind \in Ending
        /\ kind \in {"refresh", "endOne"} => t # 0
        /\ kind # "none" /\ (kind = "login" => t = 0)
    BY BasicsFacts DEF Sends, Ending
  <2> HIDE DEF q
  <2> QED BY <2>1, <2>2 DEF Carries
<1>4. SlotSound(r)
  <2> HIDE DEF q
  <2> QED BY <1>1, <1>2, <1>3, BecomesSound DEF q
<1>5. \A p \in Slots : p # r => SlotSound(p)
  BY <1>1, BasicsFacts, LeavingSound DEF Becomes
<1> QED BY <1>1, <1>4, <1>5, BasicsFacts, BasicsOfQuietStep

LEMMA LookBasics ==
  ASSUME Basics, NEW r \in Slots, Look(r)
  PROVE  Basics'
<1>1. /\ req[r].at = "sent" /\ UNCHANGED <<fate, family, stored, overtaken, strays, faults>>
      /\ \/ /\ Picked(r) # {} \/ req[r].kind \in {"login", "endAll"}
            /\ Becomes(r, req[r].kind, req[r].by, req[r].token, "looked", Picked(r))
         \/ req[r].by = Nobody /\ Ends(r)
         \/ req[r].by # Nobody /\ Becomes(r, req[r].kind, req[r].by, req[r].token, "refused", {})
  BY LookShape
<1>2. Carries(req[r])
  BY BasicsFacts
<1>3. req' \in [Slots -> Request] /\ \A p \in Slots : p # r => req'[p] = req[p]
  BY <1>1 DEF Becomes, Ends
<1>4. \A p \in Slots : p # r => SlotSound(p)
  BY <1>1, <1>3, BasicsFacts, LeavingSound
<1>5. req[r].token \in Token => fate'[req[r].token] # "unused"
  BY <1>1, BasicsFacts
<1>6. SlotSound(r)
  <2>1. CASE Ends(r)
    BY <1>1, <1>5, <2>1, LeavingSound DEF Ends
  <2>2. CASE /\ Picked(r) # {} \/ req[r].kind \in {"login", "endAll"}
             /\ Becomes(r, req[r].kind, req[r].by, req[r].token, "looked", Picked(r))
    <3>1. req[r].kind = "refresh" => Picked(r) = {req[r].token}
      BY <2>2 DEF Picked
    <3>2. Carries([kind |-> req[r].kind, by |-> req[r].by, token |-> req[r].token,
                   at |-> "looked", picked |-> Picked(r)])
      BY <1>1, <1>2, <3>1 DEF Carries
    <3> QED BY <1>5, <2>2, <3>2, BecomesSound
  <2>3. CASE req[r].by # Nobody /\ Becomes(r, req[r].kind, req[r].by, req[r].token, "refused", {})
    <3>1. Carries([kind |-> req[r].kind, by |-> req[r].by, token |-> req[r].token,
                   at |-> "refused", picked |-> {}])
      BY <1>1, <1>2, <2>3 DEF Carries
    <3> QED BY <1>5, <2>3, <3>1, BecomesSound
  <2> QED BY <1>1, <2>1, <2>2, <2>3
<1> QED BY <1>1, <1>3, <1>4, <1>6, BasicsFacts, BasicsOfQuietStep

LEMMA AnswerBasics ==
  ASSUME Basics, NEW r \in Slots, Answer(r)
  PROVE  Basics'
<1>1. /\ Ends(r) /\ req[r].at \in {"done", "refused"}
      /\ UNCHANGED <<fate, family, overtaken, strays, faults>>
      /\ \/ req[r].kind # "refresh" /\ UNCHANGED stored
         \/ Store(req[r].by, 0)
         \/ req[r].kind \in {"login", "refresh"} /\ req[r].at = "done"
            /\ Store(req[r].by, req[r].token)
  BY AnswerShape, BasicsFacts
<1>2. \A q \in Slots : SlotSound(q)
  BY <1>1, BasicsFacts, LeavingSound DEF Ends
<1>3. /\ stored' \in [Browsers -> Token \cup {0}]
      /\ \A b \in Browsers : stored'[b] \in Token => fate[stored'[b]] # "unused"
  BY <1>1, StoredTyped, BasicsFacts
<1> QED BY <1>1, <1>2, <1>3, BasicsFacts, BasicsOfQuietStep DEF Ends

LEMMA BreaksBasics ==
  ASSUME Basics, NEW r \in Slots, BreaksFor(r)
  PROVE  Basics'
<1>1. \A q \in Slots : SlotSound(q)
  BY BasicsFacts, LeavingSound DEF BreaksFor
<1>2. /\ stored' \in [Browsers -> Token \cup {0}]
      /\ \A b \in Browsers : stored'[b] \in Token => fate[stored'[b]] # "unused"
  BY StoredTyped, BasicsFacts DEF BreaksFor
<1> QED BY <1>1, <1>2, BasicsFacts, BasicsOfQuietStep DEF BreaksFor

(* The bound of strays: each reload is a fault.                            *)
StraysFew == \A f \in Token : strays[f] <= faults

LEMMA ReloadBasics ==
  ASSUME Basics, StraysFew, NEW b \in Browsers, ReloadsAt(b)
  PROVE  Basics'
<1>1. \A q \in Slots : SlotSound(q)
  BY BasicsFacts, LeavingSound DEF ReloadsAt
<1>2. /\ stored' \in [Browsers -> Token \cup {0}]
      /\ \A c \in Browsers : stored'[c] \in Token => fate[stored'[c]] # "unused"
  BY StoredTyped, BasicsFacts DEF ReloadsAt
<1>3. strays' \in [Token -> 0..MaxFaults]
  BY BasicsFacts DEF ReloadsAt, StraysFew
<1> QED BY <1>1, <1>2, <1>3, BasicsFacts, BasicsOfQuietStep DEF ReloadsAt

LEMMA ExpireBasics ==
  ASSUME Basics, NEW t \in Token, Expire(t)
  PROVE  Basics'
<1>1. /\ fate[t] = "live" /\ fate' = [fate EXCEPT ![t] = "expired"]
      /\ UNCHANGED <<family, stored, req, overtaken, strays, faults>>
  BY DEF Expire
<1>2. fate' \in [Token -> Fate] /\ \A u \in Token : fate'[u] = IF u = t THEN "expired" ELSE fate[u]
  BY <1>1, BasicsFacts DEF Fate
<1>3. \A q \in Slots : SlotSound(q)
  BY <1>1, <1>2, BasicsFacts, LeavingSound
<1>4. \A u \in Token : Exists(u)' <=> Exists(u)
  BY <1>1, <1>2 DEF Exists
<1>5. \A u \in Token : fate'[u] = "unused" <=> fate[u] = "unused"
  BY <1>1, <1>2
<1> QED BY <1>1, <1>2, <1>3, <1>4, <1>5, BasicsFacts, BasicsFrom DEF Rows

LEMMA SweepBasics ==
  ASSUME Basics, NEW t \in Token, Sweep(t)
  PROVE  Basics'
<1>1. /\ fate[t] \in {"expired", "rotated", "ended"}
      /\ fate' = [fate EXCEPT ![t] = "gone"] /\ family' = [family EXCEPT ![t] = 0]
      /\ overtaken' = overtaken \ {t} /\ UNCHANGED <<stored, req, strays, faults>>
  BY DEF Sweep, Unusable
<1>2. fate' \in [Token -> Fate] /\ \A u \in Token : fate'[u] = IF u = t THEN "gone" ELSE fate[u]
  BY <1>1, BasicsFacts DEF Fate
<1>3. /\ family' \in [Token -> Token \cup {0}]
      /\ \A u \in Token : family'[u] = IF u = t THEN 0 ELSE family[u]
  BY <1>1, BasicsFacts
<1>4. \A q \in Slots : SlotSound(q)
  BY <1>1, <1>2, BasicsFacts, LeavingSound
<1>5. \A u \in Token : Exists(u)' <=> u # t /\ Exists(u)
  BY <1>2 DEF Exists
<1>6. \A u \in Token : fate'[u] = "unused" <=> fate[u] = "unused"
  BY <1>1, <1>2
<1>7. \A u \in Token : family'[u] = 0 <=> ~Exists(u)'
  BY <1>3, <1>5, BasicsFacts DEF Rows
<1>8. \A u \in Token : family'[u] # 0 => fate'[family'[u]] # "unused"
  BY <1>3, <1>6, BasicsFacts DEF Rows
<1> QED BY <1>1, <1>2, <1>3, <1>4, <1>6, <1>7, <1>8, BasicsFacts, BasicsFrom

LEMMA IssuesRows ==
  ASSUME Basics, NEW t \in Token, NEW f \in Token, NEW old \in SUBSET Token,
         t \notin old, Issues(t, f, old), f = t \/ fate[f] # "unused"
  PROVE  /\ \A u \in Token : family'[u] = 0 <=> ~Exists(u)'
         /\ \A u \in Token : family'[u] # 0 => fate'[family'[u]] # "unused"
         /\ \A u \in Token : fate[u] # "unused" => fate'[u] # "unused"
<1>1. \A u \in Token : fate'[u] = "unused" <=> fate[u] = "unused" /\ u # t
  BY DEF Issues
<1>2. \A u \in Token : Exists(u)' <=> u = t \/ Exists(u)
  BY DEF Issues, Exists
<1>3. \A u \in Token : family'[u] = IF u = t THEN f ELSE family[u]
  BY DEF Issues
<1> QED BY <1>1, <1>2, <1>3, BasicsFacts DEF Rows

(* A commit leaves its slot sound.                                         *)
LEMMA EndsOrBecomesSound ==
  ASSUME Basics, NEW r \in Slots, NEW token \in Token \cup {0}, NEW at \in {"done", "refused"},
         EndsOrBecomes(r, token, at), req[r].at = "looked",
         \A u \in Token : fate[u] # "unused" => fate'[u] # "unused",
         token \in Token => fate'[token] # "unused",
         req[r].kind \in {"login", "refresh"} /\ at = "done" => token # 0,
         req[r].kind = "refresh" => token # 0,
         req[r].kind \in Ending /\ at = "done" => token = 0,
         req[r].kind = "login" /\ at = "refused" => token = 0
  PROVE  req' \in [Slots -> Request] /\ \A q \in Slots : SlotSound(q)
<1>1. req' \in [Slots -> Request] /\ \A p \in Slots : p # r => req'[p] = req[p]
  BY DEF EndsOrBecomes, Becomes, Ends
<1>2. \A p \in Slots : p # r => SlotSound(p)
  BY <1>1, BasicsFacts, LeavingSound
<1>3. CASE Ends(r)
  BY <1>1, <1>2, <1>3, BasicsFacts, LeavingSound DEF Ends
<1>4. CASE req[r].by # Nobody /\ Becomes(r, req[r].kind, req[r].by, token, at, {})
  <2> DEFINE q == [kind |-> req[r].kind, by |-> req[r].by, token |-> token, at |-> at,
                   picked |-> {}]
  <2>1. Carries(req[r])
    BY BasicsFacts
  <2>2. q.kind = req[r].kind /\ q.by = req[r].by /\ q.token = token /\ q.at = at /\ q.picked = {}
    OBVIOUS
  <2>3. Carries(q)
    <3> HIDE DEF q
    <3> QED BY <1>4, <2>1, <2>2 DEF Carries, Ending
  <2>4. SlotSound(r)
    BY <1>4, <2>3, BecomesSound
  <2> QED BY <1>1, <1>2, <2>4
<1> QED BY <1>3, <1>4 DEF EndsOrBecomes

LEMMA CommitBasics ==
  ASSUME Basics, NEW r \in Slots, Commit(r)
  PROVE  Basics'
<1>1. req[r].at = "looked" /\ UNCHANGED <<stored, strays, faults>>
  BY CommitShape
<1>2. Carries(req[r]) /\ req[r].token \in Token \cup {0} /\ req[r].picked \in SUBSET Token
  BY BasicsFacts
<1>3. CASE UNCHANGED <<fate, family, overtaken>> /\ EndsOrBecomes(r, req[r].token, "refused")
  <2>1. req[r].kind = "login" => req[r].token = 0
    BY <1>1, <1>2 DEF Carries
  <2>2. req' \in [Slots -> Request] /\ \A q \in Slots : SlotSound(q)
    BY <1>1, <1>2, <1>3, <2>1, BasicsFacts, EndsOrBecomesSound DEF Carries
  <2> QED BY <1>1, <1>3, <2>2, BasicsFacts, BasicsOfQuietStep
<1>4. ASSUME NEW t \in Token, NEW f \in Token, NEW old \in SUBSET Token, t \notin old,
             Issues(t, f, old), f = t \/ fate[f] # "unused",
             req[r].kind \in {"login", "refresh"}, EndsOrBecomes(r, t, "done")
      PROVE  Basics'
  <2>1. /\ \A u \in Token : family'[u] = 0 <=> ~Exists(u)'
        /\ \A u \in Token : family'[u] # 0 => fate'[family'[u]] # "unused"
        /\ \A u \in Token : fate[u] # "unused" => fate'[u] # "unused"
    BY <1>4, IssuesRows
  <2>2. t # 0 /\ fate'[t] # "unused" /\ req[r].kind \notin Ending
    BY <1>4, BasicsFacts DEF Issues, Ending
  <2>3. req' \in [Slots -> Request] /\ \A q \in Slots : SlotSound(q)
    BY <1>1, <1>4, <2>1, <2>2, EndsOrBecomesSound
  <2> QED BY <1>1, <1>4, <2>1, <2>3, BasicsFacts, BasicsFrom DEF Issues
<1>5. CASE RevokesAll(r)
  <2>1. /\ fate' \in [Token -> Fate] /\ UNCHANGED family /\ EndsOrBecomes(r, 0, "done")
        /\ req[r].kind \in Ending
        /\ \A t \in Token : fate'[t] = IF t \in req[r].picked /\ fate[t] \in {"live", "expired"}
                                       THEN "ended" ELSE fate[t]
    BY <1>5 DEF RevokesAll
  <2>2. \A u \in Token : fate'[u] = "unused" <=> fate[u] = "unused"
    BY <2>1
  <2>3. \A u \in Token : Exists(u)' <=> Exists(u)
    BY <2>1 DEF Exists
  <2>4. req' \in [Slots -> Request] /\ \A q \in Slots : SlotSound(q)
    BY <1>1, <2>1, <2>2, BasicsFacts, EndsOrBecomesSound DEF Ending
  <2>5. overtaken' \subseteq Token
    BY <1>2, <1>5, BasicsFacts DEF RevokesAll
  <2> QED BY <1>1, <2>1, <2>2, <2>3, <2>4, <2>5, BasicsFacts, BasicsFrom DEF Rows
<1>6. CASE /\ req[r].kind = "login"
           /\ \E t \in Token : Issues(t, t, {}) /\ EndsOrBecomes(r, t, "done")
  BY <1>4, <1>6
<1>7. CASE /\ req[r].kind = "refresh" /\ req[r].token \in Token /\ Exists(req[r].token)
           /\ \E t \in Token :
                 /\ t # req[r].token
                 /\ Issues(t, family[req[r].token], {req[r].token})
                 /\ EndsOrBecomes(r, t, "done")
  <2>1. family[req[r].token] \in Token /\ fate[family[req[r].token]] # "unused"
    BY <1>7, BasicsFacts DEF Rows
  <2> QED BY <1>4, <1>7, <2>1
<1> QED BY <1>3, <1>5, <1>6, <1>7, CommitShape

--------------------------------------------------------------------------------
(* Holders: where a token may be.                                          *)

(* A refresh that presents its token, or was refused it; a login or refresh *)
(* whose new token is on its way to the browser.                           *)
Presents(r) == req[r].kind = "refresh" /\ req[r].at \in {"sent", "looked", "refused"}
Fetched(r) == req[r].kind \in {"login", "refresh"} /\ req[r].at = "done"

(* A token is in one place: in one storage, or in one answer.              *)
OneHolder ==
    /\ \A b, c \in Browsers : stored[b] # 0 /\ stored[b] = stored[c] => b = c
    /\ \A r \in Slots : Fetched(r) =>
          /\ \A b \in Browsers : stored[b] # req[r].token
          /\ \A q \in Slots : Presents(q) => req[q].token # req[r].token
          /\ \A q \in Slots : Fetched(q) /\ req[q].token = req[r].token => q = r
          /\ fate[req[r].token] \in {"live", "ended"}

(* client.ts: a page shares the refresh it has under way.                  *)
OneRefresh ==
    \A q, r \in Slots :
        /\ req[q].kind = "refresh" /\ req[r].kind = "refresh"
        /\ req[q].by = req[r].by /\ req[q].by # Nobody
        => q = r

(* The second layer.                                                       *)
Holders == OneHolder /\ OneRefresh

(* Slot q presents and fetches nothing it did not before.                  *)
Fewer(q) ==
    /\ Fetched(q)' => Fetched(q) /\ req'[q].token = req[q].token
    /\ Presents(q)' => Presents(q) /\ req'[q].token = req[q].token
    /\ req'[q].kind = "refresh" => req[q].kind = "refresh" /\ req'[q].by \in {req[q].by, Nobody}

LEMMA SameIsFewer ==
  ASSUME NEW q \in Slots, req'[q] = req[q] \/ req'[q] = Idle \/ Leaves(q)
  PROVE  Fewer(q)
<1>1. CASE req'[q] = req[q]
  BY <1>1 DEF Fewer, Fetched, Presents
<1>2. CASE req'[q] = Idle
  BY <1>2, IdleShape DEF Fewer, Fetched, Presents
<1>3. CASE /\ req[q].at \in {"sent", "looked"}
           /\ req'[q] = [kind |-> req[q].kind, by |-> Nobody, token |-> req[q].token,
                         at |-> req[q].at, picked |-> req[q].picked]
  BY <1>3 DEF Fewer, Fetched, Presents
<1> QED BY <1>1, <1>2, <1>3 DEF Leaves

(* A step that brings no new refresh and no new token keeps the holders.   *)
LEMMA QuietHolders ==
  ASSUME Holders, \A q \in Slots : Fewer(q),
         \A b \in Browsers : stored'[b] \in {stored[b], 0},
         \A r \in Slots : Fetched(r) =>
            req[r].token # 0 /\ fate'[req[r].token] \in {"live", "ended"}
  PROVE  Holders'
<1>1. OneHolder'
  BY DEF Holders, OneHolder, Fewer
<1>2. OneRefresh'
  BY DEF Holders, OneRefresh, Fewer
<1> QED BY <1>1, <1>2 DEF Holders

LEMMA FetchedToken ==
  ASSUME Basics, Holders, NEW r \in Slots, Fetched(r)
  PROVE  /\ req[r].token \in Token /\ fate[req[r].token] \in {"live", "ended"}
         /\ req[r].by \in Browsers
BY BasicsFacts DEF Holders, OneHolder, Fetched, Carries

LEMMA PresentsToken ==
  ASSUME Basics, NEW r \in Slots, Presents(r)
  PROVE  req[r].token \in Token /\ fate[req[r].token] # "unused"
BY BasicsFacts DEF Presents, Carries

LEMMA HoldersInit == Init => Holders
BY IdleShape DEF Init, Holders, OneHolder, OneRefresh, Fetched, Presents

(* Every action keeps the holders.                                         *)
LEMMA SendsHolders ==
  ASSUME Basics, Holders, NEW r \in Slots, NEW kind \in Kind, NEW b \in Browsers \cup {Nobody},
         NEW t \in Token \cup {0}, Sends(r, kind, b, t)
  PROVE  Holders'
<1>1. /\ req'[r].kind = kind /\ req'[r].by = b /\ req'[r].token = t /\ req'[r].at = "sent"
      /\ \A q \in Slots : q # r => req'[q] = req[q]
      /\ UNCHANGED <<fate, family, stored, overtaken, strays, faults>>
  BY DEF Sends, Becomes
<1>2. CASE kind # "refresh"
  <2>1. Fewer(r)
    BY <1>1, <1>2 DEF Fewer, Fetched, Presents
  <2>2. \A q \in Slots : Fewer(q)
    BY <1>1, <2>1, SameIsFewer
  <2> QED BY <1>1, <2>2, FetchedToken, BasicsFacts, QuietHolders
<1>3. CASE kind = "refresh"
  <2>1. /\ b \in Browsers /\ t = stored[b] /\ t \in Token
        /\ ~\E q \in Slots : req[q].by = b /\ req[q].kind = "refresh"
    BY <1>3 DEF Sends, Ending
  <2>2. ~Fetched(r)' /\ ~Fetched(r)
    BY <1>1, IdleShape DEF Fetched, Sends
  <2>3. \A q \in Slots : q # r => (Fetched(q)' <=> Fetched(q)) /\ (Presents(q)' <=> Presents(q))
    BY <1>1 DEF Fetched, Presents
  <2>4. \A q \in Slots : Fetched(q) => req[q].token # t
    BY <2>1 DEF Holders, OneHolder
  <2>5. OneHolder'
    BY <1>1, <2>2, <2>3, <2>4 DEF Holders, OneHolder
  <2>6. OneRefresh'
    BY <1>1, <2>1 DEF Holders, OneRefresh
  <2> QED BY <2>5, <2>6 DEF Holders
<1> QED BY <1>2, <1>3

LEMMA LookHolders ==
  ASSUME Basics, Holders, NEW r \in Slots, Look(r)
  PROVE  Holders'
<1>1. /\ req[r].at = "sent" /\ UNCHANGED <<fate, family, stored, overtaken, strays, faults>>
      /\ \/ Becomes(r, req[r].kind, req[r].by, req[r].token, "looked", Picked(r))
         \/ Ends(r)
         \/ Becomes(r, req[r].kind, req[r].by, req[r].token, "refused", {})
  BY LookShape
<1>2. Fewer(r)
  BY <1>1, IdleShape DEF Fewer, Fetched, Presents, Becomes, Ends
<1>3. \A q \in Slots : q # r => req'[q] = req[q]
  BY <1>1 DEF Becomes, Ends
<1>4. \A q \in Slots : Fewer(q)
  BY <1>2, <1>3, SameIsFewer
<1> QED BY <1>1, <1>4, FetchedToken, BasicsFacts, QuietHolders

LEMMA AnswerHolders ==
  ASSUME Basics, Holders, NEW r \in Slots, Answer(r)
  PROVE  Holders'
<1>1. /\ Ends(r) /\ req[r].at \in {"done", "refused"}
      /\ UNCHANGED <<fate, family, overtaken, strays, faults>>
      /\ \/ req[r].kind # "refresh" /\ UNCHANGED stored
         \/ Store(req[r].by, 0)
         \/ req[r].kind \in {"login", "refresh"} /\ req[r].at = "done"
            /\ Store(req[r].by, req[r].token)
  BY AnswerShape, BasicsFacts
<1>2. \A q \in Slots : Fewer(q)
  BY <1>1, SameIsFewer DEF Ends
<1>3. CASE UNCHANGED stored \/ Store(req[r].by, 0)
  <2>1. \A b \in Browsers : stored'[b] \in {stored[b], 0}
    BY <1>3, BasicsFacts, StoredTyped
  <2> QED BY <1>1, <1>2, <2>1, FetchedToken, BasicsFacts, QuietHolders
<1>4. CASE /\ req[r].kind \in {"login", "refresh"} /\ req[r].at = "done"
           /\ Store(req[r].by, req[r].token)
  <2> DEFINE t == req[r].token
  <2>1. Fetched(r) /\ ~Fetched(r)' /\ t \in Token /\ req[r].by \in Browsers
    BY <1>1, <1>4, FetchedToken, IdleShape DEF Fetched, Ends
  <2>2. \A c \in Browsers : stored'[c] = IF c = req[r].by THEN t ELSE stored[c]
    BY <1>4, <2>1, StoredTyped
  <2>3. /\ \A b \in Browsers : stored[b] # t
        /\ \A q \in Slots : Presents(q) => req[q].token # t
        /\ \A q \in Slots : Fetched(q) /\ req[q].token = t => q = r
    BY <2>1 DEF Holders, OneHolder
  <2> HIDE DEF t
  <2>4. \A b, c \in Browsers : stored'[b] # 0 /\ stored'[b] = stored'[c] => b = c
    BY <2>2, <2>3 DEF Holders, OneHolder
  <2>5. \A q \in Slots : Fetched(q)' => Fetched(q) /\ q # r /\ req'[q].token = req[q].token
    BY <1>2, <2>1 DEF Fewer
  <2>6. \A q \in Slots : Presents(q)' => Presents(q) /\ req'[q].token = req[q].token
    BY <1>2 DEF Fewer
  <2>7. \A q \in Slots : Fetched(q)' => \A b \in Browsers : stored'[b] # req'[q].token
    BY <2>1, <2>2, <2>3, <2>5 DEF Holders, OneHolder
  <2>8. OneHolder'
    BY <1>1, <2>4, <2>5, <2>6, <2>7 DEF Holders, OneHolder
  <2>9. OneRefresh'
    BY <1>2 DEF Holders, OneRefresh, Fewer
  <2> QED BY <2>8, <2>9 DEF Holders
<1> QED BY <1>1, <1>3, <1>4

LEMMA BreaksHolders ==
  ASSUME Basics, Holders, NEW r \in Slots, BreaksFor(r)
  PROVE  Holders'
<1>1. \A q \in Slots : Fewer(q)
  BY SameIsFewer DEF BreaksFor
<1>2. \A b \in Browsers : stored'[b] \in {stored[b], 0}
  BY BasicsFacts, StoredTyped DEF BreaksFor
<1> QED BY <1>1, <1>2, FetchedToken, BasicsFacts, QuietHolders DEF BreaksFor

LEMMA ReloadHolders ==
  ASSUME Basics, Holders, NEW b \in Browsers, ReloadsAt(b)
  PROVE  Holders'
<1>1. \A q \in Slots : Fewer(q)
  BY SameIsFewer DEF ReloadsAt
<1>2. \A c \in Browsers : stored'[c] \in {stored[c], 0}
  BY BasicsFacts, StoredTyped DEF ReloadsAt
<1> QED BY <1>1, <1>2, FetchedToken, BasicsFacts, QuietHolders DEF ReloadsAt

LEMMA TimeHolders ==
  ASSUME Basics, Holders, NEW t \in Token, Expire(t) \/ Sweep(t)
  PROVE  Holders'
<1>1. /\ UNCHANGED <<stored, req>> /\ ~OnItsWay(t)
      /\ \A u \in Token : u # t => fate'[u] = fate[u]
  BY BasicsFacts DEF Expire, Sweep
<1>2. \A q \in Slots : Fewer(q)
  BY <1>1, SameIsFewer
<1>3. \A q \in Slots : Fetched(q) => req[q].token # t
  BY <1>1 DEF OnItsWay, Fetched
<1> QED BY <1>1, <1>2, <1>3, FetchedToken, BasicsFacts, QuietHolders

(* A new token is nowhere yet, and goes to one answer only.                *)
LEMMA IssueHolders ==
  ASSUME Basics, Holders, NEW r \in Slots, req[r].at = "looked",
         req[r].kind \in {"login", "refresh"}, NEW t \in Token, NEW f, NEW old,
         old \subseteq {req[r].token}, req[r].kind = "login" => old = {},
         Issues(t, f, old), EndsOrBecomes(r, t, "done"), UNCHANGED stored
  PROVE  Holders'
<1>1. \A q \in Slots : q # r => req'[q] = req[q]
  BY DEF EndsOrBecomes, Ends, Becomes
<1>2. /\ fate[t] = "unused" /\ fate'[t] = "live"
      /\ \A u \in Token : u # t /\ u \notin old => fate'[u] = fate[u]
  BY DEF Issues
<1>3. \A q \in Slots : Fetched(q) => req[q].token \notin old /\ req[q].token # t
  <2>1. req[r].kind = "refresh" => Presents(r)
    BY DEF Presents
  <2> QED BY <1>2, <2>1, FetchedToken DEF Holders, OneHolder
<1>4. \A q \in Slots : Fetched(q) => fate'[req[q].token] \in {"live", "ended"}
  BY <1>2, <1>3, FetchedToken
<1>5. CASE Ends(r)
  <2>1. \A q \in Slots : Fewer(q)
    BY <1>1, <1>5, SameIsFewer DEF Ends
  <2> QED BY <1>4, <2>1, FetchedToken, BasicsFacts, QuietHolders
<1>6. CASE Becomes(r, req[r].kind, req[r].by, t, "done", {})
  <2>1. /\ req'[r].kind = req[r].kind /\ req'[r].by = req[r].by /\ req'[r].token = t
        /\ req'[r].at = "done"
    BY <1>6 DEF Becomes
  <2>2. ~Presents(r)' /\ Fetched(r)'
    BY <2>1 DEF Presents, Fetched
  <2>3. \A q \in Slots : q # r => (Fetched(q)' <=> Fetched(q)) /\ (Presents(q)' <=> Presents(q))
    BY <1>1 DEF Fetched, Presents
  <2>4. /\ \A b \in Browsers : stored[b] # t
        /\ \A q \in Slots : req[q].token # t
    BY <1>2, BasicsFacts DEF Rows
  <2>5. OneHolder'
    BY <1>1, <1>2, <1>4, <2>1, <2>2, <2>3, <2>4 DEF Holders, OneHolder
  <2>6. OneRefresh'
    BY <1>1, <2>1 DEF Holders, OneRefresh
  <2> QED BY <2>5, <2>6 DEF Holders
<1> QED BY <1>5, <1>6 DEF EndsOrBecomes

LEMMA CommitHolders ==
  ASSUME Basics, Holders, NEW r \in Slots, Commit(r)
  PROVE  Holders'
<1>1. req[r].at = "looked" /\ UNCHANGED <<stored, strays, faults>>
  BY CommitShape
<1>2. ASSUME NEW token, NEW at \in {"done", "refused"}, EndsOrBecomes(r, token, at),
             req[r].kind \in Ending \/ (at = "refused" /\ token = req[r].token)
      PROVE  \A q \in Slots : Fewer(q)
  <2>1. \A q \in Slots : q # r => req'[q] = req[q]
    BY <1>2 DEF EndsOrBecomes, Ends, Becomes
  <2>2. Fewer(r)
    BY <1>1, <1>2, IdleShape
       DEF EndsOrBecomes, Ends, Becomes, Fewer, Fetched, Presents, Ending
  <2> QED BY <2>1, <2>2, SameIsFewer
<1>3. CASE UNCHANGED <<fate, family, overtaken>> /\ EndsOrBecomes(r, req[r].token, "refused")
  BY <1>1, <1>2, <1>3, FetchedToken, BasicsFacts, QuietHolders
<1>4. CASE RevokesAll(r)
  <2>1. \A q \in Slots : Fewer(q)
    BY <1>2, <1>4 DEF RevokesAll
  <2>2. \A q \in Slots : Fetched(q) => fate'[req[q].token] \in {"live", "ended"}
    BY <1>4, FetchedToken DEF RevokesAll
  <2> QED BY <1>1, <2>1, <2>2, FetchedToken, BasicsFacts, QuietHolders
<1>5. CASE /\ req[r].kind = "login"
           /\ \E t \in Token : Issues(t, t, {}) /\ EndsOrBecomes(r, t, "done")
  BY <1>1, <1>5, IssueHolders
<1>6. CASE /\ req[r].kind = "refresh" /\ req[r].token \in Token /\ Exists(req[r].token)
           /\ \E t \in Token :
                 /\ t # req[r].token
                 /\ Issues(t, family[req[r].token], {req[r].token})
                 /\ EndsOrBecomes(r, t, "done")
  BY <1>1, <1>6, IssueHolders
<1> QED BY <1>3, <1>4, <1>5, <1>6, CommitShape

--------------------------------------------------------------------------------
(* Excuses: why a page may present a token that has been used.             *)

(* A reload left a refresh of x's login behind.                            *)
Excused(x) == strays[family[x]] > 0

(* A stored token somebody else presents was left behind by a reload.      *)
NotShared ==
    \A b \in Browsers, r \in Slots :
        /\ Presents(r) /\ req[r].by # b
        /\ stored[b] = req[r].token /\ Exists(req[r].token)
        => Excused(req[r].token)

(* So was one that has been rotated, unless its successor is on its way.   *)
NotOutdated ==
    \A b \in Browsers : stored[b] # 0 /\ fate[stored[b]] = "rotated" =>
        \/ Excused(stored[b])
        \/ \E r \in Slots : /\ Fetched(r) /\ req[r].kind = "refresh" /\ req[r].by = b
                            /\ family[req[r].token] = family[stored[b]]

(* A page presents a token that was rotated, or that another request        *)
(* presents too, only when a reload left one behind.                       *)
NotReplayed ==
    \A r \in Slots :
        /\ Presents(r) /\ req[r].by # Nobody /\ Exists(req[r].token)
        /\ \/ fate[req[r].token] = "rotated"
           \/ \E q \in Slots : /\ q # r /\ Presents(q) /\ req[q].at # "refused"
                               /\ req[q].token = req[r].token
        => Excused(req[r].token)

(* The third layer.                                                        *)
Excuses == NotShared /\ NotOutdated /\ NotReplayed

(* The same in the next state, of a token of this one.                     *)
ExcusedAfter(x) == strays'[family'[x]] > 0
ExistsAfter(x) == fate'[x] \notin {"unused", "gone"}

(* Every step but the sending of a refresh, as the excuses see it.         *)
LEMMA ExcusesFrom ==
  ASSUME Excuses,
         \A q \in Slots : Presents(q)' =>
            /\ Presents(q) /\ req'[q].token = req[q].token
            /\ req[q].at = "refused" => req'[q].at = "refused"
            /\ \/ req'[q].by = req[q].by
               \/ /\ req'[q].by = Nobody
                  /\ \/ stored'[req[q].by] # req[q].token
                     \/ ~ExistsAfter(req[q].token)
                     \/ ExcusedAfter(req[q].token),
         \A b \in Browsers :
            \/ stored'[b] \in {stored[b], 0}
            \/ /\ fate'[stored'[b]] # "rotated"
               /\ \A q \in Slots : Presents(q) => req[q].token # stored'[b],
         0 \notin Token,
         \A b \in Browsers : stored'[b] # 0 => stored'[b] \in Token,
         \A q \in Slots : Presents(q) => req[q].token \in Token,
         \A t \in Token : ExistsAfter(t) /\ Exists(t) => (Excused(t) => ExcusedAfter(t)),
         \A q \in Slots : Presents(q) /\ ExistsAfter(req[q].token) => Exists(req[q].token),
         \A t \in Token : fate'[t] = "rotated" =>
            /\ ExistsAfter(t)
            /\ \/ fate[t] = "rotated"
               \/ /\ \A b \in Browsers : stored'[b] = t =>
                        \/ ExcusedAfter(t)
                        \/ \E r \in Slots :
                              /\ Fetched(r)' /\ req'[r].kind = "refresh" /\ req'[r].by = b
                              /\ family'[req'[r].token] = family'[t]
                  /\ \A q \in Slots :
                        Presents(q)' /\ req'[q].by # Nobody /\ req'[q].token = t => ExcusedAfter(t),
         \A b \in Browsers, r \in Slots :
            /\ Fetched(r) /\ req[r].kind = "refresh" /\ req[r].by = b
            /\ stored'[b] = stored[b] /\ stored[b] # 0 /\ ExistsAfter(stored[b])
            /\ family[req[r].token] = family[stored[b]]
            => \/ ExcusedAfter(stored[b])
               \/ /\ req'[r] = req[r]
                  /\ family'[req[r].token] = family'[stored[b]]
  PROVE  Excuses'
<1>1. \A t \in Token : fate[t] = "rotated" => Exists(t)
  BY DEF Exists
<1>2. NotShared'
  <2>1. SUFFICES ASSUME NEW b \in Browsers, NEW q \in Slots, Presents(q)', req'[q].by # b,
                        stored'[b] = req'[q].token, ExistsAfter(req'[q].token)
                 PROVE  ExcusedAfter(req'[q].token)
    BY DEF NotShared, Excused, Exists, ExcusedAfter, ExistsAfter
  <2> DEFINE x == req[q].token
  <2>2. Presents(q) /\ req'[q].token = x /\ x \in Token /\ x # 0
    BY <2>1
  <2>3. stored[b] = x /\ ExistsAfter(x) /\ Exists(x)
    BY <2>1, <2>2
  <2>4. CASE req'[q].by = req[q].by
    <3>1. Excused(x)
      BY <2>1, <2>2, <2>3, <2>4 DEF Excuses, NotShared
    <3> QED BY <2>2, <2>3, <3>1
  <2>5. CASE req[q].by # b
    <3>1. Excused(x)
      BY <2>1, <2>2, <2>3, <2>5 DEF Excuses, NotShared
    <3> QED BY <2>2, <2>3, <3>1
  <2>6. CASE req'[q].by # req[q].by /\ req[q].by = b
    BY <2>1, <2>2, <2>6
  <2> QED BY <2>4, <2>5, <2>6
<1>3. NotOutdated'
  <2>1. SUFFICES ASSUME NEW b \in Browsers, stored'[b] # 0, fate'[stored'[b]] = "rotated"
                 PROVE  \/ ExcusedAfter(stored'[b])
                        \/ \E r \in Slots :
                              /\ Fetched(r)' /\ req'[r].kind = "refresh" /\ req'[r].by = b
                              /\ family'[req'[r].token] = family'[stored'[b]]
    BY DEF NotOutdated, Excused, ExcusedAfter
  <2> DEFINE x == stored[b]
  <2>2. stored'[b] = x /\ x \in Token /\ x # 0 /\ ExistsAfter(x)
    BY <2>1
  <2>3. CASE fate[x] # "rotated"
    BY <2>1, <2>2, <2>3
  <2>4. CASE fate[x] = "rotated" /\ Excused(x)
    BY <1>1, <2>2, <2>4
  <2>5. CASE fate[x] = "rotated" /\ ~Excused(x)
    <3>1. PICK r \in Slots : /\ Fetched(r) /\ req[r].kind = "refresh" /\ req[r].by = b
                             /\ family[req[r].token] = family[x]
      BY <2>2, <2>5 DEF Excuses, NotOutdated
    <3>2. \/ ExcusedAfter(x)
          \/ req'[r] = req[r] /\ family'[req[r].token] = family'[x]
      BY <2>2, <3>1
    <3>3. req'[r] = req[r] => Fetched(r)'
      BY <3>1 DEF Fetched
    <3> QED BY <2>2, <3>1, <3>2, <3>3
  <2> QED BY <2>3, <2>4, <2>5
<1>4. NotReplayed'
  <2>1. SUFFICES ASSUME NEW r \in Slots, Presents(r)', req'[r].by # Nobody,
                        ExistsAfter(req'[r].token),
                        \/ fate'[req'[r].token] = "rotated"
                        \/ \E q \in Slots : /\ q # r /\ Presents(q)' /\ req'[q].at # "refused"
                                            /\ req'[q].token = req'[r].token
                 PROVE  ExcusedAfter(req'[r].token)
    BY DEF NotReplayed, Excused, Exists, ExcusedAfter, ExistsAfter
  <2> DEFINE x == req[r].token
  <2>2. /\ Presents(r) /\ req'[r].token = x /\ x \in Token /\ req'[r].by = req[r].by
        /\ ExistsAfter(x) /\ Exists(x)
    BY <2>1
  <2>3. CASE fate'[x] = "rotated" /\ fate[x] # "rotated"
    BY <2>1, <2>2, <2>3
  <2>4. CASE \/ fate[x] = "rotated"
             \/ \E q \in Slots : /\ q # r /\ Presents(q)' /\ req'[q].at # "refused"
                                 /\ req'[q].token = x
    <3>1. \/ fate[x] = "rotated"
          \/ \E q \in Slots : /\ q # r /\ Presents(q) /\ req[q].at # "refused"
                              /\ req[q].token = x
      BY <2>4
    <3>2. Excused(x)
      BY <2>1, <2>2, <3>1 DEF Excuses, NotReplayed
    <3> QED BY <2>2, <3>2
  <2> QED BY <2>1, <2>2, <2>3, <2>4
<1> QED BY <1>2, <1>3, <1>4 DEF Excuses

(* A step that leaves the rows alone, but for the bookkeeping of strays.   *)
LEMMA ExcusesOfRequests ==
  ASSUME Basics, Basics', Excuses, UNCHANGED <<fate, family>>,
         \A f \in Token : strays[f] <= strays'[f],
         \A q \in Slots : Presents(q)' =>
            /\ Presents(q) /\ req'[q].token = req[q].token
            /\ req[q].at = "refused" => req'[q].at = "refused"
            /\ \/ req'[q].by = req[q].by
               \/ /\ req'[q].by = Nobody
                  /\ \/ stored'[req[q].by] # req[q].token
                     \/ ~ExistsAfter(req[q].token)
                     \/ ExcusedAfter(req[q].token),
         \A b \in Browsers :
            \/ stored'[b] \in {stored[b], 0}
            \/ /\ fate[stored'[b]] # "rotated"
               /\ \A q \in Slots : Presents(q) => req[q].token # stored'[b],
         \A b \in Browsers, r \in Slots :
            /\ Fetched(r) /\ req[r].kind = "refresh" /\ req[r].by = b
            /\ stored'[b] = stored[b] /\ stored[b] # 0 /\ ExistsAfter(stored[b])
            /\ family[req[r].token] = family[stored[b]]
            => ExcusedAfter(stored[b]) \/ req'[r] = req[r]
  PROVE  Excuses'
<1>1. \A t \in Token : /\ Exists(t) <=> ExistsAfter(t)
                       /\ Exists(t) => family[t] \in Token
  BY BasicsFacts DEF Exists, ExistsAfter, Rows
<1>2. \A t \in Token : Exists(t) /\ Excused(t) => ExcusedAfter(t)
  <2>1. \A f \in Token : strays[f] \in Nat /\ strays'[f] \in Nat
    BY DEF Basics, TypeOK
  <2> QED BY <1>1, <2>1 DEF Excused, ExcusedAfter
<1>3. \A t \in Token : fate'[t] = "rotated" => ExistsAfter(t) /\ fate[t] = "rotated"
  BY DEF ExistsAfter
<1>4. \A q \in Slots : Presents(q) => req[q].token \in Token
  BY PresentsToken
<1>5. /\ 0 \notin Token
      /\ \A b \in Browsers : stored'[b] # 0 => stored'[b] \in Token
  BY BasicsFacts DEF Basics, TypeOK
<1>6. \A q \in Slots : Presents(q) /\ ExistsAfter(req[q].token) => Exists(req[q].token)
  BY <1>1, <1>4
<1>7. \A b \in Browsers :
            \/ stored'[b] \in {stored[b], 0}
            \/ /\ fate'[stored'[b]] # "rotated"
               /\ \A q \in Slots : Presents(q) => req[q].token # stored'[b]
  OBVIOUS
<1>8. \A b \in Browsers, r \in Slots :
            /\ Fetched(r) /\ req[r].kind = "refresh" /\ req[r].by = b
            /\ stored'[b] = stored[b] /\ stored[b] # 0 /\ ExistsAfter(stored[b])
            /\ family[req[r].token] = family[stored[b]]
            => \/ ExcusedAfter(stored[b])
               \/ /\ req'[r] = req[r]
                  /\ family'[req[r].token] = family'[stored[b]]
  OBVIOUS
<1> QED BY <1>2, <1>3, <1>4, <1>5, <1>6, <1>7, <1>8, ExcusesFrom

LEMMA ExcusesInit == Init => Excuses
BY IdleShape DEF Init, Excuses, NotShared, NotOutdated, NotReplayed, Presents

(* Every action keeps the excuses.                                         *)
LEMMA SendsExcuses ==
  ASSUME Basics, Basics', Holders, Excuses, NEW r \in Slots, NEW kind \in Kind,
         NEW b \in Browsers \cup {Nobody}, NEW t \in Token \cup {0}, Sends(r, kind, b, t)
  PROVE  Excuses'
<1>1. /\ req'[r].kind = kind /\ req'[r].by = b /\ req'[r].token = t /\ req'[r].at = "sent"
      /\ \A q \in Slots : q # r => req'[q] = req[q]
      /\ UNCHANGED <<fate, family, stored, overtaken, strays, faults>>
      /\ req[r] = Idle
  BY DEF Sends, Becomes
<1>2. ~Presents(r) /\ ~Fetched(r)
  BY <1>1, IdleShape DEF Presents, Fetched
<1>3. \A q \in Slots : q # r => (Fetched(q)' <=> Fetched(q)) /\ (Presents(q)' <=> Presents(q))
  BY <1>1 DEF Fetched, Presents
<1>4. CASE kind # "refresh"
  <2>1. ~Presents(r)'
    BY <1>1, <1>4 DEF Presents
  <2>2. \A f \in Token : strays[f] <= strays'[f]
    BY <1>1 DEF Basics, TypeOK
  <2>3. \A q \in Slots : Fetched(q) => req'[q] = req[q]
    BY <1>1, <1>2
  <2>4. \A q \in Slots : Presents(q)' => Presents(q) /\ req'[q] = req[q]
    BY <1>1, <1>3, <2>1
  <2> QED BY <1>1, <2>2, <2>3, <2>4, ExcusesOfRequests
<1>5. CASE kind = "refresh"
  <2>1. /\ b \in Browsers /\ b # Nobody /\ t = stored[b] /\ t \in Token
        /\ ~\E q \in Slots : req[q].by = b /\ req[q].kind = "refresh"
    BY <1>5, BasicsFacts DEF Sends, Ending
  <2>2. \A c \in Browsers : stored[c] = t => c = b
    BY <2>1, BasicsFacts DEF Holders, OneHolder
  <2>3. \A q \in Slots : Presents(q) /\ req[q].token = t /\ Exists(t) => Excused(t)
    <3>1. ASSUME NEW q \in Slots, Presents(q), req[q].token = t, Exists(t)
          PROVE  Excused(t)
      <4>1. req[q].by # b
        BY <2>1, <3>1 DEF Presents
      <4> QED BY <2>1, <3>1, <4>1 DEF Excuses, NotShared
    <3> QED BY <3>1
  <2>4. fate[t] = "rotated" => Excused(t)
    <3>1. ~\E q \in Slots : Fetched(q) /\ req[q].kind = "refresh" /\ req[q].by = b
      BY <2>1
    <3>2. t # 0
      BY <2>1, BasicsFacts
    <3> QED BY <2>1, <3>1, <3>2 DEF Excuses, NotOutdated
  <2>5. Exists(t)' <=> Exists(t)
    BY <1>1 DEF Exists
  <2>6. \A x \in Token : (Excused(x)' <=> Excused(x)) /\ (Exists(x)' <=> Exists(x))
    BY <1>1 DEF Exists, Excused
  <2>7. NotShared'
    <3>1. SUFFICES ASSUME NEW c \in Browsers, NEW q \in Slots, Presents(q)', req'[q].by # c,
                          stored'[c] = req'[q].token, ExistsAfter(req'[q].token)
                   PROVE  ExcusedAfter(req'[q].token)
      BY DEF NotShared, Excused, Exists, ExcusedAfter, ExistsAfter
    <3>2. CASE q = r
      BY <1>1, <2>1, <2>2, <3>1, <3>2
    <3>3. CASE q # r
      <4>1. Presents(q) /\ req'[q] = req[q] /\ stored[c] = req[q].token
        BY <1>1, <1>3, <3>1, <3>3
      <4>2. Exists(req[q].token)
        BY <1>1, <3>1, <4>1 DEF Exists, ExistsAfter
      <4>3. Excused(req[q].token)
        BY <3>1, <4>1, <4>2 DEF Excuses, NotShared
      <4> QED BY <1>1, <4>1, <4>3 DEF Excused, ExcusedAfter
    <3> QED BY <3>2, <3>3
  <2>8. NotOutdated'
    <3>1. \A q \in Slots : Fetched(q) => Fetched(q)' /\ req'[q] = req[q]
      BY <1>1, <1>2, <1>3
    <3> QED BY <1>1, <3>1 DEF Excuses, NotOutdated, Excused
  <2>9. NotReplayed'
    <3>1. SUFFICES ASSUME NEW p \in Slots, Presents(p)', req'[p].by # Nobody,
                          ExistsAfter(req'[p].token),
                          \/ fate'[req'[p].token] = "rotated"
                          \/ \E q \in Slots : /\ q # p /\ Presents(q)' /\ req'[q].at # "refused"
                                              /\ req'[q].token = req'[p].token
                   PROVE  ExcusedAfter(req'[p].token)
      BY DEF NotReplayed, Excused, Exists, ExcusedAfter, ExistsAfter
    <3>2. CASE p = r
      <4>1. Exists(t) /\ req'[p].token = t
        BY <1>1, <3>1, <3>2 DEF Exists, ExistsAfter
      <4>2. \/ fate[t] = "rotated"
            \/ \E q \in Slots : q # r /\ Presents(q) /\ req[q].token = t
        BY <1>1, <1>3, <3>1, <3>2
      <4>3. Excused(t)
        BY <2>3, <2>4, <4>1, <4>2
      <4> QED BY <1>1, <4>1, <4>3 DEF Excused, ExcusedAfter
    <3>3. CASE p # r
      <4> DEFINE x == req[p].token
      <4>1. Presents(p) /\ req'[p] = req[p]
        BY <1>1, <1>3, <3>1, <3>3
      <4>2. Exists(x)
        BY <1>1, <3>1, <4>1 DEF Exists, ExistsAfter
      <4>3. \/ fate[x] = "rotated"
            \/ x = t
            \/ \E q \in Slots : q # p /\ Presents(q) /\ req[q].at # "refused" /\ req[q].token = x
        BY <1>1, <1>3, <3>1, <3>3, <4>1
      <4>4. Excused(x)
        <5>1. CASE x = t
          BY <2>3, <4>1, <4>2, <5>1
        <5>2. CASE x # t
          BY <3>1, <4>1, <4>2, <4>3, <5>2 DEF Excuses, NotReplayed
        <5> QED BY <5>1, <5>2
      <4> QED BY <1>1, <4>1, <4>4 DEF Excused, ExcusedAfter
    <3> QED BY <3>2, <3>3
  <2> QED BY <2>7, <2>8, <2>9 DEF Excuses
<1> QED BY <1>4, <1>5

LEMMA LookExcuses ==
  ASSUME Basics, Basics', Excuses, NEW r \in Slots, Look(r)
  PROVE  Excuses'
<1>1. /\ req[r].at = "sent" /\ UNCHANGED <<fate, family, stored, overtaken, strays, faults>>
      /\ \/ Becomes(r, req[r].kind, req[r].by, req[r].token, "looked", Picked(r))
         \/ Ends(r)
         \/ Becomes(r, req[r].kind, req[r].by, req[r].token, "refused", {})
  BY LookShape
<1>2. \A q \in Slots : q # r => req'[q] = req[q]
  BY <1>1 DEF Becomes, Ends
<1>3. Presents(r)' => /\ Presents(r) /\ req'[r].token = req[r].token
                      /\ req'[r].by = req[r].by
  BY <1>1, IdleShape DEF Presents, Becomes, Ends
<1>4. ~Fetched(r)
  BY <1>1 DEF Fetched
<1>5. \A f \in Token : strays[f] <= strays'[f]
  BY <1>1 DEF Basics, TypeOK
<1>6. \A q \in Slots : Presents(q)' => /\ Presents(q) /\ req'[q].token = req[q].token
                                       /\ req'[q].by = req[q].by
                                       /\ req[q].at = "refused" => req'[q].at = "refused"
  BY <1>1, <1>2, <1>3 DEF Presents
<1> QED BY <1>1, <1>2, <1>4, <1>5, <1>6, ExcusesOfRequests

LEMMA AnswerExcuses ==
  ASSUME Basics, Basics', Holders, Excuses, NEW r \in Slots, Answer(r)
  PROVE  Excuses'
<1>1. /\ Ends(r) /\ req[r].at \in {"done", "refused"}
      /\ UNCHANGED <<fate, family, overtaken, strays, faults>>
      /\ \/ req[r].kind # "refresh" /\ UNCHANGED stored
         \/ Store(req[r].by, 0)
         \/ req[r].kind \in {"login", "refresh"} /\ req[r].at = "done"
            /\ Store(req[r].by, req[r].token)
  BY AnswerShape, BasicsFacts
<1>2. req'[r] = Idle /\ \A q \in Slots : q # r => req'[q] = req[q]
  BY <1>1 DEF Ends
<1>3. \A q \in Slots : Presents(q)' => Presents(q) /\ req'[q] = req[q]
  BY <1>2, IdleShape DEF Presents
<1>4. \A f \in Token : strays[f] <= strays'[f]
  BY <1>1 DEF Basics, TypeOK
<1>5. \A b \in Browsers :
            \/ stored'[b] \in {stored[b], 0}
            \/ /\ fate[stored'[b]] # "rotated"
               /\ \A q \in Slots : Presents(q) => req[q].token # stored'[b]
  <2>1. CASE req[r].kind # "refresh" /\ UNCHANGED stored
    BY <2>1
  <2>2. CASE Store(req[r].by, 0)
    BY <2>2, BasicsFacts, StoredTyped
  <2>3. CASE req[r].kind \in {"login", "refresh"} /\ req[r].at = "done"
             /\ Store(req[r].by, req[r].token)
    <3>1. Fetched(r)
      BY <2>3 DEF Fetched
    <3>2. /\ fate[req[r].token] # "rotated"
          /\ \A q \in Slots : Presents(q) => req[q].token # req[r].token
      BY <3>1 DEF Holders, OneHolder
    <3>3. \A b \in Browsers : stored'[b] \in {stored[b], req[r].token}
      BY <2>3, BasicsFacts, StoredTyped
    <3> QED BY <3>2, <3>3
  <2> QED BY <1>1, <2>1, <2>2, <2>3
<1>6. \A b \in Browsers : Fetched(r) /\ req[r].kind = "refresh" /\ req[r].by = b
                          /\ stored'[b] = stored[b] => stored[b] = 0
  <2>1. CASE Store(req[r].by, 0)
    BY <2>1, BasicsFacts, StoredTyped
  <2>2. CASE Store(req[r].by, req[r].token)
    <3>1. Fetched(r) => \A b \in Browsers : stored[b] # req[r].token
      BY DEF Holders, OneHolder
    <3> QED BY <2>2, <3>1, BasicsFacts, StoredTyped
  <2> QED BY <1>1, <2>1, <2>2
<1> QED BY <1>1, <1>2, <1>3, <1>4, <1>5, <1>6, ExcusesOfRequests

LEMMA LeavesPresents ==
  ASSUME NEW q \in Slots, Leaves(q), Presents(q)'
  PROVE  /\ Presents(q) /\ req'[q].token = req[q].token /\ req'[q].by = Nobody
         /\ req[q].at # "refused"
BY IdleShape DEF Leaves, Presents

LEMMA BreaksExcuses ==
  ASSUME Basics, Basics', Excuses, NEW r \in Slots, BreaksFor(r)
  PROVE  Excuses'
<1>1. /\ UNCHANGED <<fate, family, overtaken, strays>> /\ Leaves(r)
      /\ \A q \in Slots : q # r => req'[q] = req[q]
  BY DEF BreaksFor
<1>2. req[r].kind # "login" => Store(req[r].by, 0) /\ req[r].by \in Browsers
  BY BasicsFacts DEF BreaksFor
<1>3. \A b \in Browsers : stored'[b] \in {stored[b], 0}
  BY BasicsFacts, StoredTyped DEF BreaksFor
<1>4. req[r].kind # "login" => stored'[req[r].by] = 0
  BY <1>2, BasicsFacts, StoredTyped
<1>5. \A f \in Token : strays[f] <= strays'[f]
  BY <1>1 DEF Basics, TypeOK
<1>6. \A q \in Slots : Presents(q)' =>
            /\ Presents(q) /\ req'[q].token = req[q].token
            /\ req[q].at = "refused" => req'[q].at = "refused"
            /\ \/ req'[q].by = req[q].by
               \/ /\ req'[q].by = Nobody
                  /\ stored'[req[q].by] # req[q].token
  <2>1. ASSUME Presents(r)'
        PROVE  /\ Presents(r) /\ req'[r].token = req[r].token /\ req'[r].by = Nobody
               /\ req[r].at # "refused" /\ stored'[req[r].by] # req[r].token
    <3>1. Presents(r) /\ req[r].kind # "login" /\ req[r].token # 0
      BY <1>1, <2>1, LeavesPresents, PresentsToken, BasicsFacts DEF Presents
    <3> QED BY <1>1, <1>4, <2>1, <3>1, LeavesPresents
  <2>2. ASSUME NEW q \in Slots, q # r, Presents(q)'
        PROVE  Presents(q) /\ req'[q] = req[q]
    BY <1>1, <2>2 DEF Presents
  <2> QED BY <2>1, <2>2
<1>7. \A b \in Browsers, q \in Slots :
            /\ Fetched(q) /\ req[q].kind = "refresh" /\ req[q].by = b
            /\ stored'[b] = stored[b] /\ stored[b] # 0
            => req'[q] = req[q]
  BY <1>1, <1>4
<1> QED BY <1>1, <1>3, <1>5, <1>6, <1>7, ExcusesOfRequests

LEMMA ReloadExcuses ==
  ASSUME Basics, Basics', Excuses, Holders, NEW b \in Browsers, ReloadsAt(b)
  PROVE  Excuses'
<1>1. /\ UNCHANGED <<fate, family, overtaken>>
      /\ \A q \in Slots : IF req[q].by = b THEN Leaves(q) ELSE req'[q] = req[q]
  BY DEF ReloadsAt
<1>2. \A c \in Browsers : stored'[c] \in {stored[c], 0}
  BY BasicsFacts, StoredTyped DEF ReloadsAt
<1>3. /\ \A f \in Token : strays[f] \in Nat /\ strays[f] <= strays'[f]
      /\ \A q \in Slots : req[q].by = b /\ req[q].kind = "refresh"
                          /\ family[req[q].token] \in Token
                          => strays'[family[req[q].token]] > 0
  <2>1. \A f \in Token : strays[f] \in Nat
    BY DEF Basics, TypeOK
  <2> QED BY <2>1 DEF ReloadsAt
<1>4. \A q \in Slots : req[q].by = b /\ (Presents(q) \/ (Fetched(q) /\ req[q].kind = "refresh"))
                       /\ family[req[q].token] # 0 /\ req[q].token \in Token
                       => ExcusedAfter(req[q].token)
  BY <1>1, <1>3, BasicsFacts DEF Presents, ExcusedAfter
<1>5. \A q \in Slots : Presents(q)' =>
            /\ Presents(q) /\ req'[q].token = req[q].token
            /\ req[q].at = "refused" => req'[q].at = "refused"
            /\ \/ req'[q].by = req[q].by
               \/ req'[q].by = Nobody /\ req[q].by = b
  BY <1>1, LeavesPresents DEF Presents
<1>6. \A q \in Slots : Presents(q)' =>
            \/ ~Exists(req[q].token)
            \/ req'[q].by = req[q].by
            \/ /\ req'[q].by = Nobody
               /\ ExcusedAfter(req[q].token)
  BY <1>4, <1>5, PresentsToken, BasicsFacts DEF Rows
<1>7. \A c \in Browsers, q \in Slots :
            /\ Fetched(q) /\ req[q].kind = "refresh" /\ req[q].by = c
            /\ stored'[c] = stored[c] /\ stored[c] # 0 /\ ExistsAfter(stored[c])
            /\ family[req[q].token] = family[stored[c]]
            => ExcusedAfter(stored[c]) \/ (req'[q] = req[q] /\ UNCHANGED family)
  <2>1. SUFFICES ASSUME NEW q \in Slots, Fetched(q), req[q].kind = "refresh", req[q].by = b,
                        stored[b] # 0, ExistsAfter(stored[b]),
                        family[req[q].token] = family[stored[b]]
                 PROVE  ExcusedAfter(stored[b])
    BY <1>1
  <2>2. Exists(stored[b]) /\ stored[b] \in Token
    BY <1>1, <2>1, BasicsFacts DEF Exists, ExistsAfter
  <2>3. family[stored[b]] # 0 /\ req[q].token \in Token
    BY <2>1, <2>2, BasicsFacts, FetchedToken DEF Rows
  <2>4. ExcusedAfter(req[q].token)
    BY <1>4, <2>1, <2>3
  <2> QED BY <1>1, <2>1, <2>4 DEF ExcusedAfter
<1>8. \A q \in Slots : Presents(q)' =>
            /\ Presents(q) /\ req'[q].token = req[q].token
            /\ req[q].at = "refused" => req'[q].at = "refused"
            /\ \/ req'[q].by = req[q].by
               \/ /\ req'[q].by = Nobody
                  /\ \/ ~ExistsAfter(req[q].token)
                     \/ ExcusedAfter(req[q].token)
  BY <1>1, <1>5, <1>6 DEF Exists, ExistsAfter
<1> QED BY <1>1, <1>2, <1>3, <1>7, <1>8, ExcusesOfRequests

LEMMA TimeExcuses ==
  ASSUME Basics, Basics', Excuses, Holders, NEW t \in Token, Expire(t) \/ Sweep(t)
  PROVE  Excuses'
<1>1. /\ UNCHANGED <<stored, req, strays>> /\ ~OnItsWay(t)
      /\ \A u \in Token : u # t => fate'[u] = fate[u] /\ family'[u] = family[u]
      /\ fate'[t] \in {"expired", "gone"}
      /\ fate'[t] = "expired" => family' = family /\ fate[t] = "live"
  BY BasicsFacts DEF Expire, Sweep
<1>2. \A u \in Token : ExistsAfter(u) => Exists(u) /\ family'[u] = family[u]
  BY <1>1 DEF Exists, ExistsAfter
<1>3. \A q \in Slots : Presents(q) => req[q].token \in Token
  BY PresentsToken
<1>4. \A q \in Slots : Fetched(q) => req[q].token # t /\ req[q].token \in Token
  BY <1>1, FetchedToken DEF OnItsWay, Fetched
<1>5. /\ 0 \notin Token
      /\ \A b \in Browsers : stored'[b] # 0 => stored'[b] \in Token
  BY BasicsFacts DEF Basics, TypeOK
<1>6. \A q \in Slots : (Presents(q)' <=> Presents(q)) /\ req'[q] = req[q]
  BY <1>1 DEF Presents
<1>7. \A u \in Token : ExistsAfter(u) /\ Exists(u) => (Excused(u) => ExcusedAfter(u))
  BY <1>1, <1>2 DEF Excused, ExcusedAfter
<1>8. \A u \in Token : fate'[u] = "rotated" => ExistsAfter(u) /\ fate[u] = "rotated"
  BY <1>1 DEF ExistsAfter
<1>9. \A b \in Browsers, r \in Slots :
            /\ Fetched(r) /\ req[r].kind = "refresh" /\ req[r].by = b
            /\ stored'[b] = stored[b] /\ stored[b] # 0 /\ ExistsAfter(stored[b])
            /\ family[req[r].token] = family[stored[b]]
            => /\ req'[r] = req[r]
               /\ family'[req[r].token] = family'[stored[b]]
  BY <1>1, <1>2, <1>4, <1>5
<1> QED BY <1>1, <1>2, <1>3, <1>5, <1>6, <1>7, <1>8, <1>9, ExcusesFrom

(* A commit, as the excuses see it.                                        *)
LEMMA CommitExcusesFrom ==
  ASSUME Basics, Basics', Excuses, Holders, NEW r \in Slots, req[r].at = "looked",
         NEW token, NEW at \in {"done", "refused"}, EndsOrBecomes(r, token, at),
         at = "refused" => token = req[r].token,
         UNCHANGED <<stored, strays>>,
         \A u \in Token : fate[u] # "unused" =>
            family'[u] = family[u] /\ (ExistsAfter(u) <=> Exists(u)),
         \A u \in Token : fate'[u] = "rotated" =>
            \/ fate[u] = "rotated"
            \/ /\ fate[u] # "unused" /\ at = "done"
               /\ \A b \in Browsers : stored[b] = u =>
                     \/ Excused(u)
                     \/ /\ req[r].kind = "refresh" /\ req[r].by = b
                        /\ family'[token] = family[u]
               /\ \A q \in Slots : q # r /\ Presents(q) /\ req[q].by # Nobody
                                   /\ req[q].token = u => Excused(u)
  PROVE  Excuses'
<1>1. \A q \in Slots : q # r => req'[q] = req[q]
  BY DEF EndsOrBecomes, Ends, Becomes
<1>2. /\ Presents(r)' => /\ Presents(r) /\ at = "refused" /\ req'[r].token = req[r].token
                         /\ req'[r].by = req[r].by
      /\ req[r].kind = "refresh" /\ req[r].by # Nobody /\ at = "done" =>
            Fetched(r)' /\ req'[r].kind = "refresh" /\ req'[r].by = req[r].by
            /\ req'[r].token = token
  BY IdleShape DEF EndsOrBecomes, Ends, Becomes, Presents, Fetched
<1>3. \A q \in Slots : Presents(q)' =>
            /\ Presents(q) /\ req'[q].token = req[q].token /\ req'[q].by = req[q].by
            /\ req[q].at = "refused" => req'[q].at = "refused"
  <2>1. \A q \in Slots : q # r /\ Presents(q)' => Presents(q) /\ req'[q] = req[q]
    BY <1>1 DEF Presents
  <2> QED BY <1>2, <2>1
<1>4. \A q \in Slots : Presents(q) =>
         req[q].token \in Token /\ (ExistsAfter(req[q].token) => Exists(req[q].token))
  BY PresentsToken
<1>5. /\ 0 \notin Token
      /\ \A b \in Browsers : stored'[b] # 0 => stored'[b] \in Token
  BY BasicsFacts DEF Basics, TypeOK
<1>6. \A u \in Token : Exists(u) => fate[u] # "unused"
  BY DEF Exists
<1>7. \A u \in Token : Exists(u) /\ Excused(u) => ExcusedAfter(u)
  BY <1>6 DEF Excused, ExcusedAfter
<1>8. ASSUME NEW u \in Token, fate'[u] = "rotated"
      PROVE  /\ ExistsAfter(u)
             /\ \/ fate[u] = "rotated"
                \/ /\ \A b \in Browsers : stored'[b] = u =>
                         \/ ExcusedAfter(u)
                         \/ \E q \in Slots :
                               /\ Fetched(q)' /\ req'[q].kind = "refresh" /\ req'[q].by = b
                               /\ family'[req'[q].token] = family'[u]
                   /\ \A q \in Slots :
                         Presents(q)' /\ req'[q].by # Nobody /\ req'[q].token = u
                         => ExcusedAfter(u)
  <2>1. ExistsAfter(u)
    BY <1>8 DEF ExistsAfter
  <2>2. SUFFICES ASSUME fate[u] # "rotated"
                 PROVE  /\ \A b \in Browsers : stored'[b] = u =>
                               \/ ExcusedAfter(u)
                               \/ \E q \in Slots :
                                     /\ Fetched(q)' /\ req'[q].kind = "refresh" /\ req'[q].by = b
                                     /\ family'[req'[q].token] = family'[u]
                        /\ \A q \in Slots :
                              Presents(q)' /\ req'[q].by # Nobody /\ req'[q].token = u
                              => ExcusedAfter(u)
    BY <2>1
  <2>3. fate[u] # "unused" /\ at = "done" /\ Exists(u) /\ family'[u] = family[u]
    BY <1>8, <2>1, <2>2
  <2>4. \A b \in Browsers : stored[b] = u =>
                     \/ Excused(u)
                     \/ /\ req[r].kind = "refresh" /\ req[r].by = b
                        /\ family'[token] = family[u]
    BY <1>8, <2>2
  <2>5. \A b \in Browsers : b # Nobody
    BY SessionsAssumption
  <2>6. ASSUME NEW b \in Browsers, stored'[b] = u
        PROVE  \/ ExcusedAfter(u)
               \/ \E q \in Slots :
                     /\ Fetched(q)' /\ req'[q].kind = "refresh" /\ req'[q].by = b
                     /\ family'[req'[q].token] = family'[u]
    <3>1. CASE Excused(u)
      BY <1>7, <2>3, <3>1
    <3>2. CASE req[r].kind = "refresh" /\ req[r].by = b /\ family'[token] = family[u]
      BY <1>2, <2>3, <2>5, <3>2
    <3> QED BY <2>4, <2>6, <3>1, <3>2
  <2>7. ASSUME NEW q \in Slots, Presents(q)', req'[q].by # Nobody, req'[q].token = u
        PROVE  ExcusedAfter(u)
    <3>1. q # r
      BY <1>2, <2>3, <2>7
    <3>2. Excused(u)
      BY <1>3, <1>8, <2>2, <2>7, <3>1
    <3> QED BY <1>7, <2>3, <3>2
  <2> QED BY <2>6, <2>7
<1>9. \A b \in Browsers, q \in Slots :
            /\ Fetched(q) /\ req[q].kind = "refresh" /\ req[q].by = b
            /\ stored'[b] = stored[b] /\ stored[b] # 0 /\ ExistsAfter(stored[b])
            /\ family[req[q].token] = family[stored[b]]
            => req'[q] = req[q] /\ family'[req[q].token] = family'[stored[b]]
  <2>1. ~Fetched(r)
    BY DEF Fetched
  <2>2. \A q \in Slots : Fetched(q) => req[q].token \in Token /\ fate[req[q].token] # "unused"
    BY FetchedToken
  <2>3. \A b \in Browsers : stored[b] # 0 => stored[b] \in Token /\ fate[stored[b]] # "unused"
    BY BasicsFacts
  <2> QED BY <1>1, <2>1, <2>2, <2>3
<1> QED BY <1>3, <1>4, <1>5, <1>7, <1>8, <1>9, ExcusesFrom

(* The commit that rotates t: whoever holds t is the page that waits for   *)
(* its successor, or a reload left it behind; and nobody else presents t.  *)
LEMMA CommitExcuses ==
  ASSUME Basics, Basics', Excuses, Holders, NEW r \in Slots, Commit(r)
  PROVE  Excuses'
<1>1. req[r].at = "looked" /\ UNCHANGED <<stored, strays, faults>>
  BY CommitShape
<1>2. CASE UNCHANGED <<fate, family, overtaken>> /\ EndsOrBecomes(r, req[r].token, "refused")
  BY <1>1, <1>2, CommitExcusesFrom DEF Exists, ExistsAfter
<1>3. CASE RevokesAll(r)
  <2>1. /\ UNCHANGED family /\ EndsOrBecomes(r, 0, "done")
        /\ \A t \in Token : /\ fate'[t] = "rotated" <=> fate[t] = "rotated"
                            /\ fate'[t] \in {"unused", "gone"} <=> fate[t] \in {"unused", "gone"}
    BY <1>3 DEF RevokesAll
  <2> QED BY <1>1, <2>1, CommitExcusesFrom DEF Exists, ExistsAfter
<1>4. CASE /\ req[r].kind = "login"
           /\ \E t \in Token : Issues(t, t, {}) /\ EndsOrBecomes(r, t, "done")
  <2>1. PICK t \in Token : Issues(t, t, {}) /\ EndsOrBecomes(r, t, "done")
    BY <1>4
  <2>2. \A u \in Token : fate[u] # "unused" => family'[u] = family[u] /\ fate'[u] = fate[u]
    BY <2>1 DEF Issues
  <2>3. \A u \in Token : fate'[u] = "rotated" => fate[u] = "rotated"
    BY <2>1 DEF Issues
  <2> QED BY <1>1, <2>1, <2>2, <2>3, CommitExcusesFrom DEF Exists, ExistsAfter
<1>5. CASE /\ req[r].kind = "refresh" /\ req[r].token \in Token /\ Exists(req[r].token)
           /\ \E t \in Token :
                 /\ t # req[r].token
                 /\ Issues(t, family[req[r].token], {req[r].token})
                 /\ EndsOrBecomes(r, t, "done")
  <2> DEFINE x == req[r].token
  <2>1. PICK t \in Token : t # x /\ Issues(t, family[x], {x}) /\ EndsOrBecomes(r, t, "done")
    BY <1>5
  <2>2. Presents(r) /\ Exists(x) /\ fate[x] # "unused"
    BY <1>1, <1>5 DEF Presents, Exists
  <2>3. \A b \in Browsers : stored[b] = x => Excused(x) \/ req[r].by = b
    BY <2>2 DEF Excuses, NotShared
  <2>4. \A q \in Slots : q # r /\ Presents(q) /\ req[q].by # Nobody /\ req[q].token = x => Excused(x)
    BY <1>1, <2>2 DEF Excuses, NotReplayed
  <2>5. \A u \in Token : fate[u] # "unused" =>
           family'[u] = family[u] /\ (ExistsAfter(u) <=> Exists(u))
    BY <2>1, <2>2 DEF Issues, Exists, ExistsAfter
  <2>6. \A u \in Token : fate'[u] = "rotated" => fate[u] = "rotated" \/ u = x
    BY <2>1 DEF Issues
  <2>7. family'[t] = family[x]
    BY <2>1 DEF Issues
  <2> HIDE DEF x
  <2> QED BY <1>1, <1>5, <2>1, <2>2, <2>3, <2>4, <2>5, <2>6, <2>7, CommitExcusesFrom
<1> QED BY <1>2, <1>3, <1>4, <1>5, CommitShape

--------------------------------------------------------------------------------
(* The invariant, and what follows from its first three layers.            *)

(* Every step, by its shape.                                               *)
Steps ==
    \/ \E r \in Slots :
          \/ \E kind \in Kind, b \in Browsers \cup {Nobody}, t \in Token \cup {0} :
                Sends(r, kind, b, t)
          \/ Look(r) \/ Commit(r) \/ Answer(r) \/ (Breaks(r) /\ BreaksFor(r))
    \/ \E b \in Browsers : Reload(b) /\ ReloadsAt(b)
    \/ \E t \in Token : Expire(t) \/ Sweep(t)

LEMMA NextIsSteps ==
  ASSUME Basics, Next
  PROVE  Steps
<1>1. TypeOK
  BY BasicsFacts
<1>2. ASSUME NEW r \in Slots,
             \/ \E b \in Browsers : SendLogin(r, b) \/ SendRefresh(r, b) \/ SendLogout(r, b)
             \/ SendRevoke(r)
      PROVE  Steps
  BY <1>1, <1>2, SendsShape DEF Steps
<1>3. ASSUME NEW r \in Slots, Serve(r) \/ Breaks(r)
      PROVE  Steps
  <2>1. CASE Breaks(r)
    <3>1. BreaksFor(r)
      BY <1>1, <2>1, BreaksShape
    <3> QED BY <2>1, <3>1 DEF Steps
  <2>2. CASE Serve(r)
    BY <2>2 DEF Steps, Serve
  <2> QED BY <1>3, <2>1, <2>2
<1>4. ASSUME NEW b \in Browsers, Reload(b)
      PROVE  Steps
  BY <1>4, ReloadShape DEF Steps
<1>5. ASSUME NEW t \in Token, Expire(t) \/ Sweep(t)
      PROVE  Steps
  BY <1>5 DEF Steps
<1> QED BY <1>2, <1>3, <1>4, <1>5 DEF Next

LEMMA StraysFewInit == Init => StraysFew
BY DEF Init, StraysFew

LEMMA StraysFewSteps ==
  ASSUME Basics, StraysFew, Steps
  PROVE  StraysFew'
<1>1. CASE UNCHANGED <<strays, faults>>
  BY <1>1 DEF StraysFew
<1>2. ASSUME NEW r \in Slots, Breaks(r)
      PROVE  StraysFew'
  <2>1. faults' = faults + 1 /\ faults \in Nat /\ UNCHANGED strays
    BY <1>2, BasicsFacts DEF Breaks
  <2> QED BY <2>1, BasicsFacts DEF StraysFew
<1>3. ASSUME NEW b \in Browsers, Reload(b)
      PROVE  StraysFew'
  <2>1. /\ faults' = faults + 1 /\ faults \in Nat
        /\ \A f \in Token : strays[f] \in Nat /\ strays'[f] \in {strays[f], strays[f] + 1}
    BY <1>3, BasicsFacts DEF Reload
  <2> QED BY <2>1 DEF StraysFew
<1>4. ASSUME NEW r \in Slots,
             \/ \E kind \in Kind, b \in Browsers \cup {Nobody}, t \in Token \cup {0} :
                   Sends(r, kind, b, t)
             \/ Look(r) \/ Commit(r) \/ Answer(r)
      PROVE  UNCHANGED <<strays, faults>>
  BY <1>4, BasicsFacts, LookShape, CommitShape, AnswerShape DEF Sends
<1> QED BY <1>1, <1>2, <1>3, <1>4 DEF Steps, Expire, Sweep

(* The first three layers: they imply the types and ThrownOutForCause.     *)
SessionsInv == Basics /\ StraysFew /\ Holders /\ Excuses

LEMMA SessionsInvInit == Init => SessionsInv
BY BasicsInit, StraysFewInit, HoldersInit, ExcusesInit DEF SessionsInv

LEMMA SessionsInvStutter ==
  ASSUME SessionsInv, UNCHANGED vars
  PROVE  SessionsInv'
<1>1. /\ UNCHANGED <<fate, family, stored, req, overtaken, strays, faults>>
  BY DEF vars, tokenVars
<1>2. Basics'
  BY <1>1 DEF SessionsInv, Basics, TypeOK, Rows, Carried, Exists
<1>3. Holders'
  BY <1>1 DEF SessionsInv, Holders, OneHolder, OneRefresh, Fetched, Presents
<1>4. Excuses'
  BY <1>1 DEF SessionsInv, Excuses, NotShared, NotOutdated, NotReplayed, Excused, Exists,
              Fetched, Presents
<1> QED BY <1>1, <1>2, <1>3, <1>4 DEF SessionsInv, StraysFew

LEMMA SessionsInvSteps ==
  ASSUME SessionsInv, Steps
  PROVE  SessionsInv'
<1>1. Basics /\ StraysFew /\ Holders /\ Excuses
  BY DEF SessionsInv
<1>2. StraysFew'
  BY <1>1, StraysFewSteps
<1>3. ASSUME NEW r \in Slots, NEW kind \in Kind, NEW b \in Browsers \cup {Nobody},
             NEW t \in Token \cup {0}, Sends(r, kind, b, t)
      PROVE  Basics' /\ Holders' /\ Excuses'
  <2>1. Basics'
    BY <1>1, <1>3, SendsBasics
  <2> QED BY <1>1, <1>3, <2>1, SendsHolders, SendsExcuses
<1>4. ASSUME NEW r \in Slots, Look(r)
      PROVE  Basics' /\ Holders' /\ Excuses'
  <2>1. Basics'
    BY <1>1, <1>4, LookBasics
  <2> QED BY <1>1, <1>4, <2>1, LookHolders, LookExcuses
<1>5. ASSUME NEW r \in Slots, Commit(r)
      PROVE  Basics' /\ Holders' /\ Excuses'
  <2>1. Basics'
    BY <1>1, <1>5, CommitBasics
  <2> QED BY <1>1, <1>5, <2>1, CommitHolders, CommitExcuses
<1>6. ASSUME NEW r \in Slots, Answer(r)
      PROVE  Basics' /\ Holders' /\ Excuses'
  <2>1. Basics'
    BY <1>1, <1>6, AnswerBasics
  <2> QED BY <1>1, <1>6, <2>1, AnswerHolders, AnswerExcuses
<1>7. ASSUME NEW r \in Slots, BreaksFor(r)
      PROVE  Basics' /\ Holders' /\ Excuses'
  <2>1. Basics'
    BY <1>1, <1>7, BreaksBasics
  <2> QED BY <1>1, <1>7, <2>1, BreaksHolders, BreaksExcuses
<1>8. ASSUME NEW b \in Browsers, ReloadsAt(b)
      PROVE  Basics' /\ Holders' /\ Excuses'
  <2>1. Basics'
    BY <1>1, <1>8, ReloadBasics
  <2> QED BY <1>1, <1>8, <2>1, ReloadHolders, ReloadExcuses
<1>9. ASSUME NEW t \in Token, Expire(t) \/ Sweep(t)
      PROVE  Basics' /\ Holders' /\ Excuses'
  <2>1. Basics'
    BY <1>1, <1>9, ExpireBasics, SweepBasics
  <2> QED BY <1>1, <1>9, <2>1, TimeHolders, TimeExcuses
<1> QED BY <1>2, <1>3, <1>4, <1>5, <1>6, <1>7, <1>8, <1>9 DEF Steps, SessionsInv

LEMMA SessionsInvNext == SessionsInv /\ [Next]_vars => SessionsInv'
<1>1. ASSUME SessionsInv, Next
      PROVE  SessionsInv'
  BY <1>1, NextIsSteps, SessionsInvSteps DEF SessionsInv
<1> QED BY <1>1, SessionsInvStutter

(* Whatever the bounds, the rows, requests and storages keep their types.  *)
THEOREM SessionsTyped == Spec => []TypeOK
<1>1. SessionsInv => TypeOK
  BY DEF SessionsInv, Basics
<1> QED BY <1>1, SessionsInvInit, SessionsInvNext, PTL DEF Spec

(* A step takes a token from a page only when a fault, a logout or a       *)
(* refused refresh does, and Excuses says whose token can be refused.      *)
LEMMA StepThrowsOutForCause ==
  ASSUME SessionsInv, Steps, NEW b \in Browsers, stored[b] # 0, stored'[b] = 0
  PROVE  \/ faults' # faults
         \/ \E r \in Slots :
                /\ req[r].by = b /\ req'[r] = Idle
                /\ \/ req[r].kind \in Ending
                   \/ /\ req[r].kind = "refresh"
                      /\ \/ fate[req[r].token] # "rotated"
                         \/ strays[family[req[r].token]] > 0
<1>1. Basics /\ Excuses
  BY DEF SessionsInv
<1>2. CASE UNCHANGED stored
  BY <1>2
<1>3. ASSUME NEW r \in Slots, Breaks(r)
      PROVE  faults' # faults
  BY <1>1, <1>3, BasicsFacts DEF Breaks
<1>4. ASSUME NEW c \in Browsers, Reload(c)
      PROVE  faults' # faults
  BY <1>1, <1>4, BasicsFacts DEF Reload
<1>5. ASSUME NEW r \in Slots, Answer(r)
      PROVE  \E q \in Slots :
                /\ req[q].by = b /\ req'[q] = Idle
                /\ \/ req[q].kind \in Ending
                   \/ /\ req[q].kind = "refresh"
                      /\ \/ fate[req[q].token] # "rotated"
                         \/ strays[family[req[q].token]] > 0
  <2>1. /\ req'[r] = Idle /\ req[r].at \in {"done", "refused"}
        /\ Carries(req[r]) /\ req[r].by \in Browsers \cup {Nobody}
        /\ req[r].token \in Token \cup {0} /\ req[r].kind \in Kind
    BY <1>1, <1>5, AnswerShape, BasicsFacts DEF Ends
  <2>2. ASSUME NEW t \in Token \cup {0}, Store(req[r].by, t)
        PROVE  req[r].by = b /\ t = 0
    BY <1>1, <2>1, <2>2, StoredTyped
  <2>3. CASE req[r].kind \in Ending \/ (req[r].kind = "refresh" /\ req[r].at = "refused")
    <3>1. req[r].by = b
      BY <1>5, <2>2, <2>3 DEF Answer
    <3>2. CASE req[r].kind \in Ending
      BY <2>1, <3>1, <3>2
    <3>3. CASE req[r].kind = "refresh" /\ req[r].at = "refused"
      <4>1. Presents(r) /\ b # Nobody
        BY <1>1, <3>3, BasicsFacts DEF Presents
      <4>2. fate[req[r].token] = "rotated" => Exists(req[r].token)
        BY DEF Exists
      <4>3. fate[req[r].token] = "rotated" => strays[family[req[r].token]] > 0
        BY <1>1, <3>1, <4>1, <4>2 DEF Excuses, NotReplayed, Excused
      <4> QED BY <2>1, <3>1, <3>3, <4>3
    <3> QED BY <2>3, <3>2, <3>3
  <2>4. CASE ~(req[r].kind \in Ending \/ (req[r].kind = "refresh" /\ req[r].at = "refused"))
    <3>1. CASE req[r].kind \in {"login", "refresh"} /\ req[r].at = "done"
      <4>1. Store(req[r].by, req[r].token)
        BY <1>5, <2>4, <3>1 DEF Answer
      <4>2. req[r].token # 0
        BY <2>1, <3>1 DEF Carries
      <4> QED BY <2>1, <2>2, <4>1, <4>2
    <3>2. CASE ~(req[r].kind \in {"login", "refresh"} /\ req[r].at = "done")
      BY <1>5, <2>4, <3>2 DEF Answer
    <3> QED BY <3>1, <3>2
  <2> QED BY <2>3, <2>4
<1>6. ASSUME NEW r \in Slots,
             \/ \E kind \in Kind, c \in Browsers \cup {Nobody}, t \in Token \cup {0} :
                   Sends(r, kind, c, t)
             \/ Look(r) \/ Commit(r)
      PROVE  UNCHANGED stored
  BY <1>1, <1>6, LookShape, CommitShape DEF Sends
<1> QED BY <1>2, <1>3, <1>4, <1>5, <1>6 DEF Steps, Expire, Sweep

(* However many browsers, requests, tokens and faults there are, no page is *)
(* thrown out of its session by its own rotation (client.ts:62-75).        *)
THEOREM NobodyIsThrownOutByRotation == Spec => ThrownOutForCause
<1>1. ASSUME SessionsInv, [Next]_vars, NEW b \in Browsers, stored[b] # 0, stored'[b] = 0
      PROVE  \/ faults' # faults
             \/ \E r \in Slots :
                   /\ req[r].by = b /\ req'[r] = Idle
                   /\ \/ req[r].kind \in Ending
                      \/ /\ req[r].kind = "refresh"
                         /\ \/ fate[req[r].token] # "rotated"
                            \/ strays[family[req[r].token]] > 0
  <2>1. CASE UNCHANGED vars
    BY <1>1, <2>1 DEF vars
  <2>2. CASE Next
    <3>1. Steps
      BY <1>1, <2>2, NextIsSteps DEF SessionsInv
    <3> QED BY <1>1, <3>1, StepThrowsOutForCause
  <2> QED BY <1>1, <2>1, <2>2
<1>2. SessionsInv /\ [Next]_vars => [\A b \in Browsers : stored[b] # 0 /\ stored'[b] = 0 =>
          \/ faults' # faults
          \/ \E r \in Slots :
                /\ req[r].by = b /\ req'[r] = Idle
                /\ \/ req[r].kind \in Ending
                   \/ /\ req[r].kind = "refresh"
                      /\ \/ fate[req[r].token] # "rotated"
                         \/ strays[family[req[r].token]] > 0]_vars
  BY <1>1
<1> QED BY <1>2, SessionsInvInit, SessionsInvNext, PTL DEF Spec, ThrownOutForCause

--------------------------------------------------------------------------------
(* Claims: who may still turn a token of a login into a new one.           *)

(* A refresh the server has yet to decide.                                 *)
Active(r) == req[r].kind = "refresh" /\ req[r].at \in {"sent", "looked"}

(* Page b presents token x.                                                *)
Refreshing(r, b, x) == req[r].kind = "refresh" /\ req[r].by = b /\ req[r].token = x

(* A page has token x to present.                                          *)
HeldIdle(x) == \E b \in Browsers : stored[b] = x /\ ~\E r \in Slots : Refreshing(r, b, x)

(* Who may still turn a token of login f into a new one: a refresh the     *)
(* server has admitted, or will; a live token somebody else has yet to     *)
(* present.                                                                *)
SlotClaims(r, f) ==
    /\ req[r].kind = "refresh" /\ req[r].token \in Members(f)
    /\ \/ req[r].at = "looked"
       \/ req[r].at = "sent" /\ Valid(req[r].token)

TokenClaims(x, f) ==
    /\ x \in Members(f) /\ Valid(x)
    /\ \/ ~\E r \in Slots : Active(r) /\ req[r].token = x
       \/ HeldIdle(x)

Claims(f) ==
    {c \in {"request", "token"} \X (Slots \cup Token) :
        \/ c[1] = "request" /\ c[2] \in Slots /\ SlotClaims(c[2], f)
        \/ c[1] = "token" /\ c[2] \in Token /\ TokenClaims(c[2], f)}

(* A login has one claim, and one more for each stray.                     *)
FewClaims == \A f \in Token : Cardinality(Claims(f)) <= 1 + strays[f]

(* Where a token of login f has been ended, nobody has a claim to it;      *)
(* where one has expired, only a refresh that read it before.              *)
SettledAt(t, f) ==
    family[t] = f /\ strays[f] = 0 =>
        /\ fate[t] = "ended" /\ t \notin overtaken => Claims(f) = {}
        /\ fate[t] = "expired" =>
              \A c \in Claims(f) :
                  c[1] = "request" /\ req[c[2]].at = "looked" /\ req[c[2]].token = t

Settled == \A t, f \in Token : SettledAt(t, f)

(* Claims, member by member, in this state and in the next.                *)
LEMMA ClaimOf ==
  ASSUME NEW f
  PROVE  /\ \A r \in Slots : SlotClaims(r, f) <=> <<"request", r>> \in Claims(f)
         /\ \A x \in Token : TokenClaims(x, f) <=> <<"token", x>> \in Claims(f)
         /\ \A c \in Claims(f) :
               \/ \E r \in Slots : c = <<"request", r>> /\ SlotClaims(r, f)
               \/ \E x \in Token : c = <<"token", x>> /\ TokenClaims(x, f)
BY DEF Claims

LEMMA ClaimOfNext ==
  ASSUME NEW f
  PROVE  /\ \A r \in Slots : SlotClaims(r, f)' <=> <<"request", r>> \in Claims(f)'
         /\ \A x \in Token : TokenClaims(x, f)' <=> <<"token", x>> \in Claims(f)'
         /\ \A c \in Claims(f)' :
               \/ \E r \in Slots : c = <<"request", r>> /\ SlotClaims(r, f)'
               \/ \E x \in Token : c = <<"token", x>> /\ TokenClaims(x, f)'
BY DEF Claims

(* Claims are finitely many: Slots and Token are finite.                   *)
LEMMA FiniteClaims ==
  ASSUME NEW f
  PROVE  IsFiniteSet(Claims(f)) /\ Cardinality(Claims(f)) \in Nat
<1>1. IsFiniteSet(Slots) /\ IsFiniteSet(Token)
  BY SessionsAssumption, FS_Interval DEF Token
<1>2. IsFiniteSet(Slots \cup Token)
  BY <1>1, FS_Union
<1>3. IsFiniteSet({"request", "token"})
  <2>1. IsFiniteSet({"request"})
    BY FS_Singleton
  <2>2. IsFiniteSet({"request"} \cup {"token"})
    BY <2>1, FS_AddElement
  <2>3. {"request"} \cup {"token"} = {"request", "token"}
    OBVIOUS
  <2> QED BY <2>2, <2>3
<1>4. IsFiniteSet({"request", "token"} \X (Slots \cup Token))
  BY <1>2, <1>3, FS_Product
<1>5. Claims(f) \in SUBSET ({"request", "token"} \X (Slots \cup Token))
  BY DEF Claims
<1> QED BY <1>4, <1>5, FS_Subset, FS_CardinalityType

(* A set in which one element takes another's place, or that gains one.    *)
LEMMA Swapped ==
  ASSUME NEW C, NEW D, NEW o \in C, NEW n, IsFiniteSet(C), D \subseteq (C \ {o}) \cup {n}
  PROVE  IsFiniteSet(D) /\ Cardinality(D) <= Cardinality(C)
<1>1. IsFiniteSet(C \ {o}) /\ Cardinality(C \ {o}) = Cardinality(C) - 1
  BY FS_RemoveElement
<1>2. Cardinality(C) \in Nat
  BY FS_CardinalityType
<1>3. /\ IsFiniteSet((C \ {o}) \cup {n})
      /\ Cardinality((C \ {o}) \cup {n}) <= Cardinality(C)
  <2> DEFINE E == C \ {o}
  <2>1. IsFiniteSet(E) /\ Cardinality(E) = Cardinality(C) - 1
    BY <1>1
  <2> HIDE DEF E
  <2>2. /\ IsFiniteSet(E \cup {n})
        /\ Cardinality(E \cup {n}) = IF n \in E THEN Cardinality(E) ELSE Cardinality(E) + 1
    BY <2>1, FS_AddElement
  <2>3. IsFiniteSet(E \cup {n}) /\ Cardinality(E \cup {n}) <= Cardinality(C)
    BY <1>2, <2>1, <2>2
  <2> QED BY <2>3 DEF E
<1>4. D \in SUBSET ((C \ {o}) \cup {n})
  OBVIOUS
<1>5. IsFiniteSet(D) /\ Cardinality(D) <= Cardinality((C \ {o}) \cup {n})
  BY <1>3, <1>4, FS_Subset
<1> QED BY <1>2, <1>3, <1>5, FS_CardinalityType

LEMMA Grown ==
  ASSUME NEW C, NEW D, NEW n, IsFiniteSet(C), D \subseteq C \cup {n}
  PROVE  IsFiniteSet(D) /\ Cardinality(D) <= 1 + Cardinality(C)
<1>1. Cardinality(C) \in Nat
  BY FS_CardinalityType
<1>2. /\ IsFiniteSet(C \cup {n})
      /\ Cardinality(C \cup {n}) <= 1 + Cardinality(C)
  BY <1>1, FS_AddElement
<1>4. D \in SUBSET (C \cup {n})
  OBVIOUS
<1>5. IsFiniteSet(D) /\ Cardinality(D) <= Cardinality(C \cup {n})
  BY <1>2, <1>4, FS_Subset
<1> QED BY <1>1, <1>2, <1>5, FS_CardinalityType

(* The step at login f: who has a claim had one before ...                 *)
Shrinks(f) ==
    /\ \A r \in Slots : SlotClaims(r, f)' =>
          /\ SlotClaims(r, f) /\ req'[r].token = req[r].token
          /\ req[r].at = "looked" => req'[r].at = "looked"
    /\ \A x \in Token : TokenClaims(x, f)' => TokenClaims(x, f)

LEMMA ShrinksIs ==
  ASSUME NEW f, Shrinks(f)
  PROVE  Claims(f)' \subseteq Claims(f)
<1>1. ASSUME NEW c \in Claims(f)'
      PROVE  c \in Claims(f)
  <2>1. CASE \E r \in Slots : c = <<"request", r>> /\ SlotClaims(r, f)'
    BY <2>1, ClaimOf DEF Shrinks
  <2>2. CASE \E x \in Token : c = <<"token", x>> /\ TokenClaims(x, f)'
    BY <2>2, ClaimOf DEF Shrinks
  <2> QED BY <2>1, <2>2, ClaimOfNext
<1> QED BY <1>1

(* ... but for claim n, which takes the place of o.                        *)
Swaps(f, o, n) ==
    /\ o \in Claims(f)
    /\ Claims(f)' \subseteq (Claims(f) \ {o}) \cup {n}

(* All that a step may do to the claims of a login.                        *)
LEMMA FewClaimsKept ==
  ASSUME FewClaims, NEW f \in Token, strays[f] \in Nat, strays'[f] \in Nat,
         \/ strays[f] <= strays'[f] /\ (Shrinks(f) \/ \E o, n : Swaps(f, o, n))
         \/ strays'[f] = strays[f] + 1 /\ \E n : Claims(f)' \subseteq Claims(f) \cup {n}
         \/ \E n : Claims(f)' \subseteq {n}
  PROVE  Cardinality(Claims(f)') <= 1 + strays'[f]
<1> DEFINE C == Claims(f)
           D == Claims(f)'
<1>1. IsFiniteSet(C) /\ Cardinality(C) \in Nat /\ Cardinality(C) <= 1 + strays[f]
  BY FiniteClaims DEF FewClaims
<1>2. Shrinks(f) => D \subseteq C
  BY ShrinksIs
<1>3. \A o, n : Swaps(f, o, n) => o \in C /\ D \subseteq (C \ {o}) \cup {n}
  BY DEF Swaps
<1>4. \/ strays[f] <= strays'[f] /\ (D \subseteq C \/ \E o \in C : \E n : D \subseteq (C \ {o}) \cup {n})
      \/ strays'[f] = strays[f] + 1 /\ \E n : D \subseteq C \cup {n}
      \/ \E n : D \subseteq {n}
  BY <1>2, <1>3
<1> HIDE DEF C, D
<1>5. CASE strays[f] <= strays'[f] /\ D \subseteq C
  <2>1. Cardinality(D) <= Cardinality(C) /\ Cardinality(D) \in Nat
    BY <1>1, <1>5, FS_Subset, FS_CardinalityType
  <2>2. Cardinality(D) <= 1 + strays'[f]
    BY <1>1, <1>5, <2>1
  <2> QED BY <2>2 DEF D
<1>6. CASE strays[f] <= strays'[f] /\ \E o \in C : \E n : D \subseteq (C \ {o}) \cup {n}
  <2>1. Cardinality(D) <= Cardinality(C) /\ Cardinality(D) \in Nat
    BY <1>1, <1>6, Swapped, FS_CardinalityType
  <2>2. Cardinality(D) <= 1 + strays'[f]
    BY <1>1, <1>6, <2>1
  <2> QED BY <2>2 DEF D
<1>7. CASE strays'[f] = strays[f] + 1 /\ \E n : D \subseteq C \cup {n}
  <2>1. Cardinality(D) <= 1 + Cardinality(C) /\ Cardinality(D) \in Nat
    BY <1>1, <1>7, Grown, FS_CardinalityType
  <2>2. Cardinality(D) <= 1 + strays'[f]
    BY <1>1, <1>7, <2>1
  <2> QED BY <2>2 DEF D
<1>8. CASE \E n : D \subseteq {n}
  <2>1. PICK n : D \subseteq {} \cup {n}
    BY <1>8
  <2>2. Cardinality(D) <= 1 + 0 /\ Cardinality(D) \in Nat
    BY <2>1, Grown, FS_EmptySet, FS_CardinalityType
  <2>3. Cardinality(D) <= 1 + strays'[f]
    BY <2>2
  <2> QED BY <2>3 DEF D
<1> QED BY <1>4, <1>5, <1>6, <1>7, <1>8

(* Token x is no newer in login f than before.                             *)
Older(x, f) ==
    /\ family'[x] = f => family[x] = f
    /\ family'[x] = f /\ fate'[x] = "live" => fate[x] = "live"

(* What keeps the claim of a slot, of a token, and of a page.              *)
LEMMA SlotKept ==
  ASSUME NEW f, NEW r \in Slots, SlotClaims(r, f)',
         req[r].token \in Token => Older(req[r].token, f), req[r].token \in Token \cup {0},
         f \in Token, 0 \notin Token,
         \/ req'[r].kind # "refresh" \/ req'[r].at \notin {"sent", "looked"}
         \/ /\ req[r].kind = "refresh" /\ req'[r].token = req[r].token
            /\ \/ req'[r].at = req[r].at
               \/ req[r].at = "sent" /\ Valid(req[r].token)
  PROVE  /\ SlotClaims(r, f) /\ req'[r].token = req[r].token
         /\ req[r].at = "looked" => req'[r].at = "looked"
BY DEF SlotClaims, Members, Valid, Older

LEMMA TokenKept ==
  ASSUME NEW f, NEW x \in Token, TokenClaims(x, f)', Older(x, f),
         \/ HeldIdle(x)' /\ HeldIdle(x)
         \/ ~\E r \in Slots : Active(r) /\ req[r].token = x
         \/ /\ HeldIdle(x)' => HeldIdle(x)
            /\ \A r \in Slots : Active(r) /\ req[r].token = x =>
                  Active(r)' /\ req'[r].token = x
  PROVE  TokenClaims(x, f)
BY DEF TokenClaims, Members, Valid, Older

LEMMA HeldKept ==
  ASSUME NEW x, HeldIdle(x)',
         \A b \in Browsers : stored'[b] = x => stored[b] = x,
         \A b \in Browsers, r \in Slots :
            stored'[b] = x /\ Refreshing(r, b, x) => Refreshing(r, b, x)'
  PROVE  HeldIdle(x)
BY DEF HeldIdle

(* A step that changes no refresh.                                         *)
LEMMA OthersShrink ==
  ASSUME Basics, NEW f \in Token, \A x \in Token : Older(x, f),
         \A b \in Browsers : stored'[b] \in {stored[b], 0},
         \A r \in Slots : req'[r] = req[r] \/ (req[r].kind # "refresh" /\ req'[r].kind # "refresh")
  PROVE  Shrinks(f)
<1>1. \A r \in Slots : req[r].kind = "refresh" \/ req'[r].kind = "refresh" => req'[r] = req[r]
  OBVIOUS
<1>2. ASSUME NEW r \in Slots, SlotClaims(r, f)'
      PROVE  /\ SlotClaims(r, f) /\ req'[r].token = req[r].token
             /\ req[r].at = "looked" => req'[r].at = "looked"
  BY <1>1, <1>2, BasicsFacts, SlotKept
<1>3. \A r \in Slots : Active(r) => Active(r)' /\ req'[r].token = req[r].token
  BY <1>1 DEF Active
<1>4. ASSUME NEW x \in Token, TokenClaims(x, f)'
      PROVE  TokenClaims(x, f)
  <2>1. \A b \in Browsers : stored'[b] = x => stored[b] = x
    BY BasicsFacts
  <2>2. \A b \in Browsers, r \in Slots : Refreshing(r, b, x) => Refreshing(r, b, x)'
    BY <1>1 DEF Refreshing
  <2>3. HeldIdle(x)' => HeldIdle(x)
    BY <2>1, <2>2, HeldKept
  <2> QED BY <1>3, <1>4, <2>3, TokenKept
<1> QED BY <1>2, <1>4 DEF Shrinks

(* A claim that is not the last thing an expired token leaves behind.      *)
Spoils(o) ==
    /\ o[1] # "token" => /\ o[1] = "request"
                         /\ req[o[2]].at # "looked" \/ fate[req[o[2]].token] # "expired"

(* What a step that issues and revokes nothing does to login f.            *)
Moves(f) ==
    \/ strays[f] = strays'[f] /\ Shrinks(f)
    \/ strays[f] = strays'[f] /\ \E o, n : Swaps(f, o, n) /\ Spoils(o)
    \/ strays'[f] = strays[f] + 1 /\ \E n : Claims(f)' \subseteq Claims(f) \cup {n}

LEMMA SwapsFrom ==
  ASSUME NEW f, NEW o \in Claims(f), NEW n,
         \A r \in Slots : SlotClaims(r, f)' =>
            n = <<"request", r>> \/ (SlotClaims(r, f) /\ o # <<"request", r>>),
         \A x \in Token : TokenClaims(x, f)' =>
            n = <<"token", x>> \/ (TokenClaims(x, f) /\ o # <<"token", x>>)
  PROVE  Swaps(f, o, n)
<1>1. ASSUME NEW c \in Claims(f)'
      PROVE  c \in (Claims(f) \ {o}) \cup {n}
  <2>1. CASE \E r \in Slots : c = <<"request", r>> /\ SlotClaims(r, f)'
    BY <2>1, ClaimOf
  <2>2. CASE \E x \in Token : c = <<"token", x>> /\ TokenClaims(x, f)'
    BY <2>2, ClaimOf
  <2> QED BY <2>1, <2>2, ClaimOfNext
<1> QED BY <1>1 DEF Swaps

(* A page that sends a refresh gives up the claim of its token for that of *)
(* the request.                                                            *)
LEMMA SendsClaims ==
  ASSUME Basics, Holders, NEW r \in Slots, NEW kind \in Kind, NEW b \in Browsers \cup {Nobody},
         NEW t \in Token \cup {0}, Sends(r, kind, b, t), NEW f \in Token
  PROVE  Moves(f)
<1>1. /\ req'[r].kind = kind /\ req'[r].by = b /\ req'[r].token = t /\ req'[r].at = "sent"
      /\ \A q \in Slots : q # r => req'[q] = req[q]
      /\ UNCHANGED <<fate, family, stored, overtaken, strays, faults>>
      /\ req[r].kind = "none"
  BY IdleShape DEF Sends, Becomes
<1>2. \A x \in Token : Older(x, f)
  BY <1>1 DEF Older
<1>3. CASE kind # "refresh"
  <2>1. Shrinks(f)
    BY <1>1, <1>2, <1>3, OthersShrink
  <2> QED BY <1>1, <2>1 DEF Moves
<1>4. CASE kind = "refresh"
  <2>1. /\ b \in Browsers /\ t = stored[b] /\ t \in Token
        /\ ~\E q \in Slots : req[q].by = b /\ req[q].kind = "refresh"
    BY <1>4 DEF Sends, Ending
  <2>2. ASSUME NEW q \in Slots, q # r, SlotClaims(q, f)'
        PROVE  /\ SlotClaims(q, f) /\ req'[q].token = req[q].token
               /\ req[q].at = "looked" => req'[q].at = "looked"
    BY <1>1, <1>2, <2>2, BasicsFacts, SlotKept
  <2>3. \A q \in Slots : Active(q) => Active(q)' /\ req'[q].token = req[q].token
    BY <1>1 DEF Active
  <2>4. ASSUME NEW x \in Token, TokenClaims(x, f)'
        PROVE  TokenClaims(x, f) /\ x # t
    <3>1. \A c \in Browsers, q \in Slots : Refreshing(q, c, x) => Refreshing(q, c, x)'
      BY <1>1 DEF Refreshing
    <3>2. HeldIdle(x)' => HeldIdle(x)
      BY <1>1, <3>1, HeldKept
    <3>3. TokenClaims(x, f)
      BY <1>2, <2>3, <2>4, <3>2, TokenKept
    <3>4. Active(r)'
      BY <1>1, <1>4 DEF Active
    <3>5. ~HeldIdle(t)'
      <4>1. \A c \in Browsers : stored[c] = t => c = b
        BY <2>1, BasicsFacts DEF Holders, OneHolder
      <4>2. Refreshing(r, b, t)'
        BY <1>1, <1>4 DEF Refreshing
      <4> QED BY <1>1, <4>1, <4>2 DEF HeldIdle
    <3>6. x # t
      BY <1>1, <2>4, <3>4, <3>5 DEF TokenClaims
    <3> QED BY <3>3, <3>6
  <2>5. CASE SlotClaims(r, f)'
    <3>1. Valid(t) /\ t \in Members(f)
      BY <1>1, <2>1, <2>5 DEF SlotClaims, Members, Valid
    <3>2. HeldIdle(t)
      BY <2>1 DEF HeldIdle, Refreshing
    <3>3. TokenClaims(t, f)
      BY <3>1, <3>2 DEF TokenClaims
    <3> DEFINE o == <<"token", t>>
               n == <<"request", r>>
    <3>4. o \in Claims(f)
      BY <2>1, <3>3, ClaimOf
    <3>5. \A q \in Slots : SlotClaims(q, f)' =>
            n = <<"request", q>> \/ (SlotClaims(q, f) /\ o # <<"request", q>>)
      BY <2>2
    <3>6. \A x \in Token : TokenClaims(x, f)' =>
            n = <<"token", x>> \/ (TokenClaims(x, f) /\ o # <<"token", x>>)
      BY <2>4
    <3>7. Spoils(o)
      BY DEF Spoils
    <3> HIDE DEF o, n
    <3>8. Swaps(f, o, n)
      BY <3>4, <3>5, <3>6, SwapsFrom
    <3> QED BY <1>1, <3>7, <3>8 DEF Moves
  <2>6. CASE ~SlotClaims(r, f)'
    <3>1. Shrinks(f)
      BY <2>2, <2>4, <2>6 DEF Shrinks
    <3> QED BY <1>1, <3>1 DEF Moves
  <2> QED BY <2>5, <2>6
<1> QED BY <1>3, <1>4

(* A refresh that is refused, has been answered, or gets lost.             *)
LEMMA RefreshGoes ==
  ASSUME Basics, NEW r \in Slots, NEW f \in Token, req[r].kind = "refresh",
         UNCHANGED <<fate, family, strays>>,
         \A q \in Slots : q # r => req'[q] = req[q],
         req'[r].kind # "refresh" \/ req'[r].at \notin {"sent", "looked"},
         \A y \in Token : HeldIdle(y)' => HeldIdle(y)
  PROVE  Moves(f)
<1> DEFINE x == req[r].token
<1>1. x \in Token
  BY BasicsFacts DEF Carries
<1>2. \A y \in Token : Older(y, f)
  BY DEF Older
<1>3. ASSUME NEW q \in Slots, SlotClaims(q, f)'
      PROVE  /\ q # r /\ SlotClaims(q, f) /\ req'[q].token = req[q].token
             /\ req[q].at = "looked" => req'[q].at = "looked"
  <2>1. q # r
    BY <1>3 DEF SlotClaims
  <2> QED BY <1>2, <1>3, <2>1, BasicsFacts, SlotKept
<1>4. ASSUME NEW y \in Token, TokenClaims(y, f)', y # x \/ ~Active(r)
      PROVE  TokenClaims(y, f)
  <2>1. \A q \in Slots : Active(q) /\ req[q].token = y => Active(q)' /\ req'[q].token = y
    BY <1>4 DEF Active
  <2> QED BY <1>2, <1>4, <2>1, TokenKept
<1>5. CASE SlotClaims(r, f) /\ Valid(x)
  <2> DEFINE o == <<"request", r>>
             n == <<"token", x>>
  <2>1. o \in Claims(f)
    BY <1>5, ClaimOf
  <2>2. \A q \in Slots : SlotClaims(q, f)' =>
          n = <<"request", q>> \/ (SlotClaims(q, f) /\ o # <<"request", q>>)
    BY <1>3
  <2>3. \A y \in Token : TokenClaims(y, f)' =>
          n = <<"token", y>> \/ (TokenClaims(y, f) /\ o # <<"token", y>>)
    BY <1>4
  <2>4. Spoils(o)
    BY <1>5 DEF Spoils, Valid
  <2> HIDE DEF o, n
  <2>5. Swaps(f, o, n)
    BY <2>1, <2>2, <2>3, SwapsFrom
  <2> QED BY <2>4, <2>5 DEF Moves
<1>6. CASE ~(SlotClaims(r, f) /\ Valid(x))
  <2>1. ASSUME NEW y \in Token, TokenClaims(y, f)'
        PROVE  TokenClaims(y, f)
    <3>1. y \in Members(f) /\ Valid(y)
      BY <2>1 DEF TokenClaims, Members, Valid
    <3>2. y = x => ~Active(r)
      BY <1>6, <3>1 DEF SlotClaims, Active
    <3> QED BY <1>4, <2>1, <3>2
  <2>2. Shrinks(f)
    BY <1>3, <2>1 DEF Shrinks
  <2> QED BY <2>2 DEF Moves
<1> QED BY <1>5, <1>6

(* The server that refuses a live token gives the claim back to it.        *)
LEMMA LookClaims ==
  ASSUME Basics, NEW r \in Slots, Look(r), NEW f \in Token
  PROVE  Moves(f)
<1>1. /\ req[r].at = "sent" /\ UNCHANGED <<fate, family, stored, overtaken, strays, faults>>
      /\ \/ /\ Picked(r) # {} \/ req[r].kind \in {"login", "endAll"}
            /\ Becomes(r, req[r].kind, req[r].by, req[r].token, "looked", Picked(r))
         \/ req[r].by = Nobody /\ Ends(r)
         \/ req[r].by # Nobody /\ Becomes(r, req[r].kind, req[r].by, req[r].token, "refused", {})
  BY LookShape
<1>2. \A q \in Slots : q # r => req'[q] = req[q]
  BY <1>1 DEF Becomes, Ends
<1>3. \A y \in Token : Older(y, f)
  BY <1>1 DEF Older
<1>4. CASE req[r].kind # "refresh"
  <2>1. req'[r].kind # "refresh"
    BY <1>1, <1>4, IdleShape DEF Becomes, Ends
  <2>2. Shrinks(f)
    BY <1>1, <1>2, <1>3, <1>4, <2>1, OthersShrink
  <2> QED BY <1>1, <2>2 DEF Moves
<1>5. CASE /\ req[r].kind = "refresh" /\ Picked(r) # {}
           /\ Becomes(r, req[r].kind, req[r].by, req[r].token, "looked", Picked(r))
  <2>1. /\ req'[r].kind = "refresh" /\ req'[r].by = req[r].by /\ req'[r].token = req[r].token
        /\ req'[r].at = "looked"
    BY <1>5 DEF Becomes
  <2>2. Valid(req[r].token)
    BY <1>5 DEF Picked
  <2>3. ASSUME NEW q \in Slots, SlotClaims(q, f)'
        PROVE  /\ SlotClaims(q, f) /\ req'[q].token = req[q].token
               /\ req[q].at = "looked" => req'[q].at = "looked"
    BY <1>1, <1>2, <1>3, <1>5, <2>1, <2>2, <2>3, BasicsFacts, SlotKept
  <2>4. ASSUME NEW y \in Token, TokenClaims(y, f)'
        PROVE  TokenClaims(y, f)
    <3>1. \A q \in Slots : Active(q) => Active(q)' /\ req'[q].token = req[q].token
      BY <1>2, <2>1 DEF Active
    <3>2. \A c \in Browsers, q \in Slots : Refreshing(q, c, y) => Refreshing(q, c, y)'
      BY <1>2, <2>1 DEF Refreshing
    <3>3. HeldIdle(y)' => HeldIdle(y)
      BY <1>1, <3>2, HeldKept
    <3> QED BY <1>3, <2>4, <3>1, <3>3, TokenKept
  <2>5. Shrinks(f)
    BY <2>3, <2>4 DEF Shrinks
  <2> QED BY <1>1, <2>5 DEF Moves
<1>6. CASE /\ req[r].kind = "refresh"
           /\ \/ req[r].by = Nobody /\ Ends(r)
              \/ /\ req[r].by # Nobody
                 /\ Becomes(r, req[r].kind, req[r].by, req[r].token, "refused", {})
  <2>1. req'[r].kind # "refresh" \/ req'[r].at \notin {"sent", "looked"}
    BY <1>6, IdleShape DEF Becomes, Ends
  <2>2. \A c \in Browsers, q \in Slots, y \in Token : Refreshing(q, c, y) => Refreshing(q, c, y)'
    BY <1>2, <1>6, BasicsFacts DEF Refreshing, Becomes
  <2>3. \A y \in Token : HeldIdle(y)' => HeldIdle(y)
    BY <1>1, <2>2, HeldKept
  <2> QED BY <1>1, <1>2, <1>6, <2>1, <2>3, RefreshGoes
<1> QED BY <1>1, <1>4, <1>5, <1>6

(* The page that goes on without its requests: what it holds it does not   *)
(* present, but it holds nothing more than before.                         *)
LEMMA HeldWithout ==
  ASSUME Basics, NEW b, NEW y \in Token,
         \A c \in Browsers : c # b => stored'[c] = stored[c],
         b \in Browsers => stored'[b] # y,
         \A q \in Slots : req[q].by # b => req'[q] = req[q]
  PROVE  HeldIdle(y)' => HeldIdle(y)
<1>1. \A c \in Browsers : stored'[c] = y => stored[c] = y
  OBVIOUS
<1>2. \A c \in Browsers, q \in Slots :
         stored'[c] = y /\ Refreshing(q, c, y) => Refreshing(q, c, y)'
  BY DEF Refreshing
<1> QED BY <1>1, <1>2, HeldKept

(* A new token that arrives was a claim on its own.                        *)
LEMMA AnswerClaims ==
  ASSUME Basics, Holders, NEW r \in Slots, Answer(r), NEW f \in Token
  PROVE  Moves(f)
<1>1. /\ Ends(r) /\ req[r].at \in {"done", "refused"}
      /\ UNCHANGED <<fate, family, overtaken, strays, faults>>
      /\ \/ req[r].kind # "refresh" /\ UNCHANGED stored
         \/ Store(req[r].by, 0)
         \/ /\ req[r].kind \in {"login", "refresh"} /\ req[r].at = "done"
            /\ Store(req[r].by, req[r].token)
  BY AnswerShape, BasicsFacts
<1>2. /\ \A q \in Slots : q # r => req'[q] = req[q]
      /\ req'[r].kind = "none" /\ ~Active(r)
  BY <1>1, IdleShape DEF Ends, Active
<1>3. \A y \in Token : Older(y, f)
  BY <1>1 DEF Older
<1>4. ASSUME NEW q \in Slots, SlotClaims(q, f)'
      PROVE  /\ SlotClaims(q, f) /\ req'[q].token = req[q].token
             /\ req[q].at = "looked" => req'[q].at = "looked"
  <2>1. q # r
    BY <1>2, <1>4 DEF SlotClaims
  <2> QED BY <1>2, <1>3, <1>4, <2>1, BasicsFacts, SlotKept
<1>5. \A q \in Slots : Active(q) => Active(q)' /\ req'[q].token = req[q].token
  BY <1>2 DEF Active
<1>6. ASSUME NEW y \in Token, TokenClaims(y, f)'
      PROVE  TokenClaims(y, f)
  <2>1. CASE req[r].kind # "refresh" /\ UNCHANGED stored
    <3>1. \A c \in Browsers, q \in Slots : Refreshing(q, c, y) => Refreshing(q, c, y)'
      BY <1>2, <2>1 DEF Refreshing
    <3>2. HeldIdle(y)' => HeldIdle(y)
      BY <2>1, <3>1, HeldKept
    <3> QED BY <1>3, <1>5, <1>6, <3>2, TokenKept
  <2>2. ASSUME NEW t \in Token \cup {0}, Store(req[r].by, t), t # y
        PROVE  TokenClaims(y, f)
    <3>1. /\ \A c \in Browsers : c # req[r].by => stored'[c] = stored[c]
          /\ req[r].by \in Browsers => stored'[req[r].by] # y
      BY <2>2, BasicsFacts, StoredTyped
    <3>2. HeldIdle(y)' => HeldIdle(y)
      BY <1>2, <3>1, HeldWithout
    <3> QED BY <1>3, <1>5, <1>6, <3>2, TokenKept
  <2>3. CASE req[r].kind \in {"login", "refresh"} /\ req[r].at = "done" /\ req[r].token = y
    <3>1. Fetched(r)
      BY <2>3 DEF Fetched
    <3>2. \A q \in Slots : Presents(q) => req[q].token # y
      BY <2>3, <3>1 DEF Holders, OneHolder
    <3>3. ~\E q \in Slots : Active(q) /\ req[q].token = y
      BY <3>2 DEF Active, Presents
    <3> QED BY <1>3, <1>6, <3>3, TokenKept
  <2> QED BY <1>1, <2>1, <2>2, <2>3, BasicsFacts
<1>7. Shrinks(f)
  BY <1>4, <1>6 DEF Shrinks
<1> QED BY <1>1, <1>7 DEF Moves

(* The page whose connection breaks forgets its token.                     *)
LEMMA BreaksClaims ==
  ASSUME Basics, Holders, NEW r \in Slots, BreaksFor(r), NEW f \in Token
  PROVE  Moves(f)
<1>1. /\ Leaves(r) /\ req[r].by # Nobody /\ UNCHANGED <<fate, family, strays>>
      /\ \A q \in Slots : q # r => req'[q] = req[q]
  BY DEF BreaksFor
<1>2. \A y \in Token : Older(y, f)
  BY <1>1 DEF Older
<1>3. \A c \in Browsers : stored'[c] \in {stored[c], 0}
  BY BasicsFacts, StoredTyped DEF BreaksFor
<1>4. CASE req[r].kind # "refresh"
  <2>1. req'[r].kind # "refresh"
    BY <1>1, <1>4, IdleShape DEF Leaves
  <2>2. Shrinks(f)
    BY <1>1, <1>2, <1>3, <1>4, <2>1, OthersShrink
  <2> QED BY <1>1, <2>2 DEF Moves
<1>5. CASE req[r].kind = "refresh"
  <2>1. /\ \A c \in Browsers : c # req[r].by => stored'[c] = stored[c]
        /\ stored'[req[r].by] = 0 /\ req[r].by \in Browsers
    BY <1>1, <1>5, BasicsFacts, StoredTyped DEF BreaksFor
  <2>2. \A q \in Slots : req[q].by # req[r].by => req'[q] = req[q]
    BY <1>1
  <2>3. ASSUME NEW y \in Token
        PROVE  HeldIdle(y)' => HeldIdle(y)
    <3>1. stored'[req[r].by] # y
      BY <2>1, BasicsFacts
    <3> QED BY <2>1, <2>2, <3>1, HeldWithout
  <2>4. CASE req'[r] = Idle
    BY <1>1, <1>5, <2>3, <2>4, IdleShape, RefreshGoes
  <2>5. CASE req'[r] = [kind |-> req[r].kind, by |-> Nobody, token |-> req[r].token,
                        at |-> req[r].at, picked |-> req[r].picked]
    <3>1. /\ req'[r].kind = "refresh" /\ req'[r].token = req[r].token /\ req'[r].at = req[r].at
      BY <1>5, <2>5
    <3>2. \A q \in Slots : Active(q) => Active(q)' /\ req'[q].token = req[q].token
      BY <1>1, <3>1 DEF Active
    <3>3. ASSUME NEW q \in Slots, SlotClaims(q, f)'
          PROVE  /\ SlotClaims(q, f) /\ req'[q].token = req[q].token
                 /\ req[q].at = "looked" => req'[q].at = "looked"
      BY <1>1, <1>2, <1>5, <3>1, <3>3, BasicsFacts, SlotKept
    <3>4. ASSUME NEW y \in Token, TokenClaims(y, f)'
          PROVE  TokenClaims(y, f)
      BY <1>2, <2>3, <3>2, <3>4, TokenKept
    <3>5. Shrinks(f)
      BY <3>3, <3>4 DEF Shrinks
    <3> QED BY <1>1, <3>5 DEF Moves
  <2> QED BY <1>1, <2>4, <2>5 DEF Leaves
<1> QED BY <1>4, <1>5

(* A reloaded page keeps its token beside the refresh: one claim more, and *)
(* one stray more.                                                         *)
LEMMA ReloadClaims ==
  ASSUME Basics, Holders, NEW b \in Browsers, ReloadsAt(b), NEW f \in Token
  PROVE  Moves(f)
<1>1. /\ \A q \in Slots : IF req[q].by = b THEN Leaves(q) ELSE req'[q] = req[q]
      /\ UNCHANGED <<fate, family>>
  BY DEF ReloadsAt
<1>2. \A y \in Token : Older(y, f)
  BY <1>1 DEF Older
<1>3. \A c \in Browsers : stored'[c] \in {stored[c], 0}
  BY BasicsFacts, StoredTyped DEF ReloadsAt
<1>4. strays'[f] = IF \E r \in Slots : /\ req[r].by = b /\ req[r].kind = "refresh"
                                       /\ family[req[r].token] = f
                   THEN strays[f] + 1 ELSE strays[f]
  BY DEF ReloadsAt
<1>5. CASE ~\E r \in Slots : req[r].by = b /\ req[r].kind = "refresh"
  <2>1. ASSUME NEW q \in Slots
        PROVE  req'[q] = req[q] \/ (req[q].kind # "refresh" /\ req'[q].kind # "refresh")
    <3>1. CASE req[q].by # b
      BY <1>1, <3>1
    <3>2. CASE req[q].by = b
      <4>1. Leaves(q) /\ req[q].kind # "refresh"
        BY <1>1, <1>5, <3>2
      <4> QED BY <4>1, IdleShape DEF Leaves
    <3> QED BY <3>1, <3>2
  <2>2. Shrinks(f)
    BY <1>2, <1>3, <2>1, OthersShrink
  <2> QED BY <1>4, <1>5, <2>2 DEF Moves
<1>6. ASSUME NEW r \in Slots, req[r].by = b, req[r].kind = "refresh"
      PROVE  Moves(f)
  <2>1. \A q \in Slots : q # r /\ req[q].kind = "refresh" => req[q].by # b /\ req'[q] = req[q]
    BY <1>1, <1>6, BasicsFacts DEF Holders, OneRefresh
  <2>2. PICK x \in Token : x = req[r].token
    BY <1>6, BasicsFacts DEF Carries
  <2>3. ASSUME NEW q \in Slots, req'[q].kind = "refresh"
        PROVE  req[q].kind = "refresh" /\ req'[q].token = req[q].token /\ req'[q].at = req[q].at
    <3>1. req'[q] = req[q] \/ Leaves(q)
      BY <1>1
    <3> QED BY <2>3, <3>1, IdleShape DEF Leaves
  <2>4. ASSUME NEW q \in Slots, SlotClaims(q, f)'
        PROVE  /\ SlotClaims(q, f) /\ req'[q].token = req[q].token
               /\ req[q].at = "looked" => req'[q].at = "looked"
    BY <1>2, <2>3, <2>4, BasicsFacts, SlotKept
  <2>5. ASSUME NEW y \in Token, y # x, TokenClaims(y, f)'
        PROVE  TokenClaims(y, f)
    <3>1. \A q \in Slots : Active(q) /\ req[q].token = y => Active(q)' /\ req'[q].token = y
      BY <2>1, <2>2, <2>5 DEF Active
    <3>2. \A c \in Browsers, q \in Slots : Refreshing(q, c, y) => Refreshing(q, c, y)'
      BY <2>1, <2>2, <2>5 DEF Refreshing
    <3>3. \A c \in Browsers : stored'[c] = y => stored[c] = y
      BY <1>3, BasicsFacts
    <3>4. HeldIdle(y)' => HeldIdle(y)
      BY <3>2, <3>3, HeldKept
    <3> QED BY <1>2, <2>5, <3>1, <3>4, TokenKept
  <2>6. CASE family[x] = f
    <3>1. strays'[f] = strays[f] + 1
      BY <1>4, <1>6, <2>2, <2>6
    <3> DEFINE n == <<"token", x>>
    <3>2. ASSUME NEW c \in Claims(f)'
          PROVE  c \in Claims(f) \cup {n}
      <4>1. CASE \E q \in Slots : c = <<"request", q>> /\ SlotClaims(q, f)'
        BY <2>4, <4>1, ClaimOf
      <4>2. CASE \E y \in Token : c = <<"token", y>> /\ TokenClaims(y, f)'
        BY <2>5, <4>2, ClaimOf
      <4> QED BY <3>2, <4>1, <4>2, ClaimOfNext
    <3> HIDE DEF n
    <3>3. Claims(f)' \subseteq Claims(f) \cup {n}
      BY <3>2
    <3> QED BY <3>1, <3>3 DEF Moves
  <2>7. CASE family[x] # f
    <3>1. ~TokenClaims(x, f)'
      BY <1>1, <2>7 DEF TokenClaims, Members
    <3>2. Shrinks(f)
      BY <2>4, <2>5, <3>1 DEF Shrinks
    <3>3. strays'[f] = strays[f]
      BY <1>4, <1>6, <2>1, <2>2, <2>7
    <3> QED BY <3>2, <3>3 DEF Moves
  <2> QED BY <2>6, <2>7
<1> QED BY <1>5, <1>6

--------------------------------------------------------------------------------
(* Tight: a login has one claim, or none once it is over.                  *)

(* What keeps a settled login settled.                                     *)
LEMMA SettledByShrinking ==
  ASSUME NEW t \in Token, NEW f \in Token, SettledAt(t, f), Shrinks(f), strays'[f] = strays[f],
         family'[t] = f /\ fate'[t] \in {"ended", "expired"} =>
            /\ family[t] = f /\ fate[t] = fate'[t]
            /\ fate[t] = "ended" /\ t \in overtaken => t \in overtaken'
  PROVE  SettledAt(t, f)'
<1>1. Claims(f)' \subseteq Claims(f)
  BY ShrinksIs
<1>2. SUFFICES ASSUME family'[t] = f, strays'[f] = 0
               PROVE  /\ fate'[t] = "ended" /\ t \notin overtaken' => Claims(f)' = {}
                      /\ fate'[t] = "expired" => \A c \in Claims(f)' :
                            /\ c[1] = "request" /\ req'[c[2]].at = "looked"
                            /\ req'[c[2]].token = t
  BY DEF SettledAt
<1>3. CASE fate'[t] = "ended" /\ t \notin overtaken'
  BY <1>1, <1>2, <1>3 DEF SettledAt
<1>4. ASSUME fate'[t] = "expired", NEW c \in Claims(f)'
      PROVE  /\ c[1] = "request" /\ req'[c[2]].at = "looked"
             /\ req'[c[2]].token = t
  <2>1. c[1] = "request" /\ req[c[2]].at = "looked" /\ req[c[2]].token = t
    BY <1>1, <1>2, <1>4 DEF SettledAt
  <2>2. PICK r \in Slots : c = <<"request", r>> /\ SlotClaims(r, f)'
    BY <2>1, ClaimOfNext
  <2> QED BY <2>1, <2>2 DEF Shrinks
<1> QED BY <1>3, <1>4

LEMMA SettledBySwap ==
  ASSUME NEW t \in Token, NEW f \in Token, SettledAt(t, f), strays'[f] = strays[f],
         NEW o \in Claims(f),
         family'[t] = f /\ fate'[t] \in {"ended", "expired"} =>
            /\ family[t] = f /\ fate[t] = fate'[t]
            /\ fate[t] = "ended" /\ t \in overtaken => t \in overtaken'
            /\ fate[t] = "expired" =>
                  ~(o[1] = "request" /\ req[o[2]].at = "looked" /\ req[o[2]].token = t)
  PROVE  SettledAt(t, f)'
BY DEF SettledAt

(* A swap of claims needs a live token, and a login that is over has none. *)
LEMMA QuietSettled ==
  ASSUME Basics, Settled, UNCHANGED <<fate, family, overtaken>>, \A f \in Token : Moves(f)
  PROVE  Settled'
<1>1. SUFFICES ASSUME NEW t \in Token, NEW f \in Token
               PROVE  SettledAt(t, f)'
  BY DEF Settled
<1>2. SettledAt(t, f) /\ Moves(f) /\ strays[f] \in Nat
  BY BasicsFacts DEF Settled
<1>3. CASE strays[f] = strays'[f] /\ Shrinks(f)
  BY <1>2, <1>3, SettledByShrinking
<1>4. ASSUME strays[f] = strays'[f], NEW o, NEW n, Swaps(f, o, n), Spoils(o)
      PROVE  SettledAt(t, f)'
  <2>1. o \in Claims(f)
    BY <1>4 DEF Swaps
  <2>2. fate[t] = "expired" =>
           ~(o[1] = "request" /\ req[o[2]].at = "looked" /\ req[o[2]].token = t)
    BY <1>4 DEF Spoils
  <2> QED BY <1>2, <1>4, <2>1, <2>2, SettledBySwap
<1>5. CASE strays'[f] = strays[f] + 1
  <2>1. strays'[f] # 0
    BY <1>2, <1>5
  <2> QED BY <2>1 DEF SettledAt
<1> QED BY <1>2, <1>3, <1>4, <1>5 DEF Moves

LEMMA QuietFewClaims ==
  ASSUME Basics, Basics', FewClaims, \A f \in Token : Moves(f)
  PROVE  FewClaims'
<1>1. SUFFICES ASSUME NEW f \in Token
               PROVE  Cardinality(Claims(f)') <= 1 + strays'[f]
  BY DEF FewClaims
<1>2. strays[f] \in Nat /\ strays'[f] \in Nat
  <2>1. strays \in [Token -> 0..MaxFaults] /\ strays' \in [Token -> 0..MaxFaults] /\ MaxFaults \in Nat
    BY SessionsAssumption DEF Basics, TypeOK
  <2> QED BY <2>1
<1>3. Moves(f)
  OBVIOUS
<1> QED BY <1>2, <1>3, FewClaimsKept DEF Moves

(* The fourth layer: OneLivePerLogin and EndedForGood are its              *)
(* consequences.                                                           *)
Tight == FewClaims /\ Settled

LEMMA TightQuietly ==
  ASSUME Basics, Basics', Tight, UNCHANGED <<fate, family, overtaken>>,
         \A f \in Token : Moves(f)
  PROVE  Tight'
BY QuietSettled, QuietFewClaims DEF Tight

(* A live token of a login nobody strayed from is the whole of its claims. *)
LEMMA SoleClaim ==
  ASSUME Basics, FewClaims, NEW t \in Token, NEW f \in Token, family[t] = f, Valid(t), strays[f] = 0
  PROVE  \/ Claims(f) = {<<"token", t>>}
         \/ \E r \in Slots : /\ Claims(f) = {<<"request", r>>}
                             /\ Active(r) /\ req[r].token = t
<1>1. IsFiniteSet(Claims(f)) /\ Cardinality(Claims(f)) \in Nat /\ Cardinality(Claims(f)) <= 1
  BY FiniteClaims DEF FewClaims
<1>2. ASSUME NEW c \in Claims(f)
      PROVE  Claims(f) = {c}
  <2>1. Cardinality(Claims(f)) # 0
    BY <1>1, <1>2, FS_EmptySet
  <2>2. Cardinality(Claims(f)) = 1
    BY <1>1, <2>1
  <2>3. PICK x : Claims(f) = {x}
    BY <1>1, <2>2, FS_Singleton
  <2> QED BY <2>3
<1>3. ASSUME NEW r \in Slots, Active(r), req[r].token = t
      PROVE  Claims(f) = {<<"request", r>>}
  <2>1. SlotClaims(r, f)
    BY <1>3 DEF SlotClaims, Active, Members
  <2> QED BY <1>2, <2>1, ClaimOf
<1>4. CASE ~\E r \in Slots : Active(r) /\ req[r].token = t
  <2>1. TokenClaims(t, f)
    BY <1>4 DEF TokenClaims, Members
  <2> QED BY <1>2, <2>1, ClaimOf
<1> QED BY <1>3, <1>4

(* The token that is ended or expires while it works.                      *)
LEMMA Closed ==
  ASSUME Basics, Tight, NEW t \in Token, NEW f \in Token, family[t] = f, Valid(t),
         strays[f] = 0, ~Valid(t)', UNCHANGED family, Shrinks(f),
         \A r \in Slots : req[r].kind = "refresh" => req'[r] = req[r]
  PROVE  \A c \in Claims(f)' :
            /\ c[1] = "request" /\ c[2] \in Slots /\ Claims(f) = {c}
            /\ req[c[2]].at = "looked" /\ req[c[2]].kind = "refresh" /\ req[c[2]].token = t
            /\ req'[c[2]].at = "looked" /\ req'[c[2]].token = t
<1>1. SUFFICES ASSUME NEW c \in Claims(f)'
               PROVE  /\ c[1] = "request" /\ c[2] \in Slots /\ Claims(f) = {c}
                      /\ req[c[2]].at = "looked" /\ req[c[2]].kind = "refresh"
                      /\ req[c[2]].token = t
                      /\ req'[c[2]].at = "looked" /\ req'[c[2]].token = t
  OBVIOUS
<1>2. c \in Claims(f)
  BY ShrinksIs
<1>3. CASE Claims(f) = {<<"token", t>>}
  <2>1. c = <<"token", t>>
    BY <1>2, <1>3
  <2>2. TokenClaims(t, f)'
    BY <2>1, ClaimOfNext
  <2> QED BY <2>2 DEF TokenClaims
<1>4. ASSUME NEW r \in Slots, Claims(f) = {<<"request", r>>}, Active(r), req[r].token = t
      PROVE  /\ c[1] = "request" /\ c[2] \in Slots /\ Claims(f) = {c}
             /\ req[c[2]].at = "looked" /\ req[c[2]].kind = "refresh"
             /\ req[c[2]].token = t
             /\ req'[c[2]].at = "looked" /\ req'[c[2]].token = t
  <2>1. c = <<"request", r>>
    BY <1>2, <1>4
  <2>2. SlotClaims(r, f)' /\ SlotClaims(r, f) /\ req'[r].token = t
    BY <1>4, <2>1, ClaimOfNext DEF Shrinks
  <2>3. req'[r].at = "looked"
    BY <2>2 DEF SlotClaims, Valid
  <2>4. req[r].at = "looked" /\ req[r].kind = "refresh"
    BY <1>4, <2>3 DEF Active
  <2> QED BY <1>4, <2>1, <2>2, <2>3, <2>4
<1> QED BY <1>3, <1>4, SoleClaim DEF Tight

(* A logout, a reset, the sessions page, or the expiry of a token: each    *)
(* login only loses.                                                       *)
LEMMA FadingTight ==
  ASSUME Basics, Basics', Tight, UNCHANGED <<family, stored, strays>>,
         \A u \in Token : Valid(u)' => Valid(u),
         \A u \in Token : fate'[u] = "ended" =>
            \/ fate[u] = "ended"
            \/ /\ fate[u] \in {"live", "expired"}
               /\ \A r \in Slots : req[r].kind = "refresh" /\ req[r].at = "looked"
                                   /\ req[r].token = u => u \in overtaken',
         \A u \in Token : fate'[u] = "expired" => fate[u] \in {"live", "expired"},
         overtaken \subseteq overtaken',
         \A r \in Slots : req'[r] = req[r] \/ (req[r].kind # "refresh" /\ req'[r].kind # "refresh")
  PROVE  Tight'
<1>1. \A f, u \in Token : Older(u, f)
  BY DEF Older, Valid
<1>2. \A f \in Token : Shrinks(f)
  BY <1>1, OthersShrink
<1>3. FewClaims'
  <2>1. \A f \in Token : Moves(f)
    BY <1>2 DEF Moves
  <2> QED BY <2>1, QuietFewClaims DEF Tight
<1>4. ASSUME NEW t \in Token, NEW f \in Token
      PROVE  SettledAt(t, f)'
  <2>1. SettledAt(t, f) /\ Shrinks(f) /\ \A r \in Slots : req[r].kind = "refresh" => req'[r] = req[r]
    BY <1>2 DEF Tight, Settled
  <2>2. CASE fate'[t] \in {"ended", "expired"} => fate[t] = fate'[t]
    BY <2>1, <2>2, SettledByShrinking
  <2>3. CASE family[t] = f /\ strays[f] = 0 /\ Valid(t) /\ fate'[t] \in {"ended", "expired"}
    <3>1. \A c \in Claims(f)' :
            /\ c[1] = "request" /\ c[2] \in Slots /\ Claims(f) = {c}
            /\ req[c[2]].at = "looked" /\ req[c[2]].kind = "refresh" /\ req[c[2]].token = t
            /\ req'[c[2]].at = "looked" /\ req'[c[2]].token = t
      <4>1. ~Valid(t)'
        BY <2>3 DEF Valid
      <4> QED BY <2>1, <2>3, <4>1, Closed
    <3>2. fate'[t] = "ended" /\ t \notin overtaken' => Claims(f)' = {}
      BY <2>3, <3>1 DEF Valid
    <3> QED BY <3>1, <3>2 DEF SettledAt
  <2>4. CASE family[t] = f /\ strays[f] = 0 /\ fate[t] = "expired" /\ fate'[t] = "ended"
    <3>1. Claims(f)' \subseteq Claims(f)
      BY <2>1, ShrinksIs
    <3>2. \A c \in Claims(f) : /\ c[1] = "request" /\ req[c[2]].at = "looked"
                               /\ req[c[2]].token = t
      BY <2>1, <2>4 DEF SettledAt
    <3>3. ASSUME NEW c \in Claims(f)'
          PROVE  t \in overtaken'
      <4>1. c \in Claims(f)
        BY <3>1
      <4>2. PICK r \in Slots : c = <<"request", r>> /\ SlotClaims(r, f)
        BY <3>2, <4>1, ClaimOf
      <4>3. req[r].kind = "refresh" /\ req[r].at = "looked" /\ req[r].token = t
        BY <3>2, <4>1, <4>2 DEF SlotClaims
      <4> QED BY <2>4, <4>3
    <3> QED BY <2>4, <3>3 DEF SettledAt
  <2>5. CASE family[t] # f \/ strays[f] # 0
    BY <2>5 DEF SettledAt
  <2> QED BY <2>2, <2>3, <2>4, <2>5 DEF Valid
<1> QED BY <1>3, <1>4 DEF Tight, Settled

LEMMA RevokesTight ==
  ASSUME Basics, Basics', Tight, NEW r \in Slots, RevokesAll(r), UNCHANGED <<stored, strays>>
  PROVE  Tight'
<1>1. \A u \in Token : fate'[u] = IF u \in req[r].picked /\ fate[u] \in {"live", "expired"}
                                  THEN "ended" ELSE fate[u]
  BY DEF RevokesAll
<1>2. \A u \in Token : Valid(u)' => Valid(u)
  BY <1>1 DEF Valid
<1>3. overtaken' = overtaken \cup
         {t \in req[r].picked : \E q \in Slots :
             req[q].kind = "refresh" /\ req[q].at = "looked" /\ req[q].token = t}
  BY DEF RevokesAll
<1>4. ASSUME NEW u \in Token, fate'[u] = "ended", fate[u] # "ended"
      PROVE  /\ fate[u] \in {"live", "expired"}
             /\ \A q \in Slots : req[q].kind = "refresh" /\ req[q].at = "looked"
                                 /\ req[q].token = u => u \in overtaken'
  BY <1>1, <1>3, <1>4
<1>5. ASSUME NEW q \in Slots
      PROVE  req'[q] = req[q] \/ (req[q].kind # "refresh" /\ req'[q].kind # "refresh")
  BY IdleShape DEF RevokesAll, EndsOrBecomes, Ends, Becomes, Ending
<1>6. \A u \in Token : fate'[u] = "expired" => fate[u] \in {"live", "expired"}
  BY <1>1
<1>7. UNCHANGED family /\ overtaken \subseteq overtaken'
  BY <1>3 DEF RevokesAll
<1> QED BY <1>2, <1>4, <1>5, <1>6, <1>7, FadingTight

LEMMA ExpireTight ==
  ASSUME Basics, Basics', Tight, NEW t \in Token, Expire(t)
  PROVE  Tight'
<1>1. /\ fate[t] = "live" /\ UNCHANGED <<family, stored, req, overtaken, strays, faults>>
      /\ \A u \in Token : fate'[u] = IF u = t THEN "expired" ELSE fate[u]
  BY BasicsFacts DEF Expire
<1>2. \A u \in Token : Valid(u)' => Valid(u)
  BY <1>1 DEF Valid
<1> QED BY <1>1, <1>2, FadingTight

LEMMA SweepTight ==
  ASSUME Basics, Basics', Tight, NEW t \in Token, Sweep(t)
  PROVE  Tight'
<1>1. /\ UNCHANGED <<stored, req, strays, faults>> /\ overtaken' = overtaken \ {t}
      /\ \A u \in Token : /\ fate'[u] = IF u = t THEN "gone" ELSE fate[u]
                          /\ family'[u] = IF u = t THEN 0 ELSE family[u]
  BY BasicsFacts DEF Sweep
<1>2. 0 \notin Token
  BY BasicsFacts
<1>3. \A f, u \in Token : Older(u, f)
  BY <1>1, <1>2 DEF Older
<1>4. \A f \in Token : Shrinks(f)
  BY <1>1, <1>3, OthersShrink
<1>5. FewClaims'
  <2>1. \A f \in Token : Moves(f)
    BY <1>1, <1>4 DEF Moves
  <2> QED BY <2>1, QuietFewClaims DEF Tight
<1>6. ASSUME NEW u \in Token, NEW f \in Token
      PROVE  SettledAt(u, f)'
  <2>1. SettledAt(u, f) /\ Shrinks(f)
    BY <1>4 DEF Tight, Settled
  <2> QED BY <1>1, <1>2, <2>1, SettledByShrinking
<1> QED BY <1>5, <1>6 DEF Tight, Settled

(* What becomes of a slot when a new token is issued.                      *)
LEMMA IssueSlots ==
  ASSUME NEW r \in Slots, NEW t \in Token, EndsOrBecomes(r, t, "done")
  PROVE  /\ \A q \in Slots : q # r => req'[q] = req[q]
         /\ req'[r].at \notin {"sent", "looked"}
         /\ req'[r].kind = "refresh" => req'[r].token = t /\ req'[r].by = req[r].by
BY IdleShape DEF EndsOrBecomes, Ends, Becomes

(* A login starts a family of its own, with one claim.                     *)
LEMMA LoginTight ==
  ASSUME Basics, Basics', Tight, NEW r \in Slots, req[r].kind = "login", NEW t \in Token,
         Issues(t, t, {}), EndsOrBecomes(r, t, "done"), UNCHANGED <<stored, strays>>
  PROVE  Tight'
<1>1. /\ fate[t] = "unused" /\ fate'[t] = "live" /\ family'[t] = t /\ UNCHANGED overtaken
      /\ \A u \in Token : u # t => fate'[u] = fate[u] /\ family'[u] = family[u]
  BY DEF Issues
<1>2. req'[r].kind # "refresh" /\ \A q \in Slots : q # r => req'[q] = req[q]
  BY IdleShape DEF EndsOrBecomes, Ends, Becomes
<1>3. \A u \in Token : family[u] # t
  BY <1>1, BasicsFacts DEF Rows
<1>4. \A q \in Slots : req[q].token # t
  BY <1>1, BasicsFacts
<1>5. ASSUME NEW f \in Token, f # t
      PROVE  Shrinks(f)
  <2>1. \A u \in Token : Older(u, f)
    BY <1>1, <1>5 DEF Older
  <2> QED BY <1>2, <2>1, OthersShrink
<1>6. Claims(t)' \subseteq {<<"token", t>>}
  <2>1. \A u \in Token : family'[u] = t => u = t
    BY <1>1, <1>3
  <2>2. ASSUME NEW q \in Slots, SlotClaims(q, t)'
        PROVE  FALSE
    <3>1. q # r /\ req'[q] = req[q]
      BY <1>2, <2>2 DEF SlotClaims
    <3>2. req[q].token = t
      BY <2>1, <2>2, <3>1 DEF SlotClaims, Members
    <3> QED BY <1>4, <3>2
  <2>3. \A u \in Token : TokenClaims(u, t)' => u = t
    BY <2>1 DEF TokenClaims, Members
  <2> QED BY <2>2, <2>3, ClaimOfNext
<1>7. FewClaims'
  <2>1. ASSUME NEW f \in Token
        PROVE  Cardinality(Claims(f)') <= 1 + strays'[f]
    <3>1. strays[f] \in Nat /\ strays'[f] = strays[f]
      BY BasicsFacts
    <3>2. Shrinks(f) \/ \E n : Claims(f)' \subseteq {n}
      BY <1>5, <1>6
    <3> QED BY <3>1, <3>2, FewClaimsKept DEF Tight
  <2> QED BY <2>1 DEF FewClaims
<1>8. ASSUME NEW u \in Token, NEW f \in Token
      PROVE  SettledAt(u, f)'
  <2>1. SettledAt(u, f)
    BY DEF Tight, Settled
  <2>2. CASE f # t
    <3>1. Shrinks(f)
      BY <1>5, <2>2
    <3> QED BY <1>1, <2>1, <2>2, <3>1, SettledByShrinking
  <2>3. CASE f = t
    <3>1. family'[u] = f => fate'[u] = "live"
      BY <1>1, <1>3, <2>3
    <3> QED BY <3>1 DEF SettledAt
  <2> QED BY <2>2, <2>3
<1> QED BY <1>7, <1>8 DEF Tight, Settled

(* A refresh turns its claim into the token it issues.                     *)
LEMMA RefreshTight ==
  ASSUME Basics, Basics', Tight, NEW r \in Slots, req[r].kind = "refresh", req[r].at = "looked",
         NEW x \in Token, x = req[r].token, Exists(x), NEW t \in Token, t # x,
         Issues(t, family[x], {x}), EndsOrBecomes(r, t, "done"), UNCHANGED <<stored, strays>>
  PROVE  Tight'
<1>1. /\ fate[t] = "unused" /\ fate'[t] = "live" /\ family'[t] = family[x] /\ UNCHANGED overtaken
      /\ \A u \in Token : u # t =>
            /\ family'[u] = family[u]
            /\ fate'[u] = IF u = x /\ fate[u] \in {"live", "expired"} THEN "rotated" ELSE fate[u]
  BY DEF Issues
<1>2. /\ \A q \in Slots : q # r => req'[q] = req[q]
      /\ req'[r].at \notin {"sent", "looked"}
      /\ req'[r].kind = "refresh" => req'[r].token = t /\ req'[r].by = req[r].by
  BY IssueSlots
<1>3. /\ \A q \in Slots : req[q].token # t
      /\ \A b \in Browsers : stored[b] # t
  BY <1>1, BasicsFacts
<1>4. \A f, u \in Token : u # t => Older(u, f)
  BY <1>1 DEF Older
<1>5. ~Valid(x)'
  BY <1>1 DEF Valid
<1>6. ASSUME NEW f \in Token, NEW q \in Slots, SlotClaims(q, f)'
      PROVE  /\ q # r /\ SlotClaims(q, f) /\ req'[q].token = req[q].token
             /\ req[q].at = "looked" => req'[q].at = "looked"
  <2>1. q # r
    BY <1>2, <1>6 DEF SlotClaims
  <2>2. req[q].token \in Token => Older(req[q].token, f)
    BY <1>3, <1>4
  <2> QED BY <1>2, <1>6, <2>1, <2>2, BasicsFacts, SlotKept
<1>7. ASSUME NEW f \in Token, NEW u \in Token, TokenClaims(u, f)', u # t
      PROVE  TokenClaims(u, f)
  <2>1. u # x
    BY <1>5, <1>7 DEF TokenClaims, Valid
  <2>2. \A q \in Slots : Active(q) /\ req[q].token = u => Active(q)' /\ req'[q].token = u
    BY <1>2, <2>1 DEF Active
  <2>3. \A c \in Browsers, q \in Slots : Refreshing(q, c, u) => Refreshing(q, c, u)'
    BY <1>2, <2>1 DEF Refreshing
  <2>4. HeldIdle(u)' => HeldIdle(u)
    BY <2>3, HeldKept
  <2> QED BY <1>4, <1>7, <2>2, <2>4, TokenKept
<1>8. ASSUME NEW f \in Token, f # family[x]
      PROVE  Shrinks(f)
  <2>1. ~TokenClaims(t, f)'
    BY <1>1, <1>8 DEF TokenClaims, Members
  <2> QED BY <1>6, <1>7, <2>1 DEF Shrinks
<1>9. family[x] \in Token
  BY BasicsFacts DEF Rows
<1>10. PICK o : o = <<"request", r>>
  OBVIOUS
<1>11. o \in Claims(family[x])
  <2>1. SlotClaims(r, family[x])
    BY DEF SlotClaims, Members
  <2> QED BY <1>10, <2>1, ClaimOf
<1>12. ASSUME NEW f \in Token, f = family[x]
       PROVE  Swaps(f, o, <<"token", t>>)
  <2> DEFINE n == <<"token", t>>
  <2>1. \A q \in Slots : SlotClaims(q, f)' =>
          n = <<"request", q>> \/ (SlotClaims(q, f) /\ o # <<"request", q>>)
    BY <1>6, <1>10
  <2>2. \A u \in Token : TokenClaims(u, f)' =>
          n = <<"token", u>> \/ (TokenClaims(u, f) /\ o # <<"token", u>>)
    BY <1>7, <1>10
  <2> HIDE DEF n
  <2>3. o \in Claims(f)
    BY <1>11, <1>12
  <2>4. Swaps(f, o, n)
    BY <2>1, <2>2, <2>3, SwapsFrom
  <2> QED BY <2>4 DEF n
<1>13. FewClaims'
  <2>1. ASSUME NEW f \in Token
        PROVE  Cardinality(Claims(f)') <= 1 + strays'[f]
    <3>1. strays[f] \in Nat /\ strays'[f] = strays[f]
      BY BasicsFacts
    <3>2. Shrinks(f) \/ \E p, n : Swaps(f, p, n)
      BY <1>8, <1>12
    <3> QED BY <3>1, <3>2, FewClaimsKept DEF Tight
  <2> QED BY <2>1 DEF FewClaims
<1>14. ASSUME NEW u \in Token, NEW f \in Token
       PROVE  SettledAt(u, f)'
  <2>1. SettledAt(u, f)
    BY DEF Tight, Settled
  <2>2. /\ fate'[u] \in {"ended", "expired"} => family'[u] = family[u] /\ fate[u] = fate'[u]
        /\ fate'[u] = "expired" => u # x
    BY <1>1
  <2>3. CASE f # family[x]
    <3>1. Shrinks(f)
      BY <1>8, <2>3
    <3> QED BY <1>1, <2>1, <2>2, <3>1, SettledByShrinking
  <2>4. CASE f = family[x]
    <3>1. o \in Claims(f)
      BY <1>11, <2>4
    <3>2. fate'[u] = "expired" => ~(o[1] = "request" /\ req[o[2]].at = "looked" /\ req[o[2]].token = u)
      BY <1>10, <2>2
    <3> QED BY <1>1, <2>1, <2>2, <3>1, <3>2, SettledBySwap
  <2> QED BY <2>3, <2>4
<1> QED BY <1>13, <1>14 DEF Tight, Settled

LEMMA CommitTight ==
  ASSUME Basics, Basics', Tight, NEW r \in Slots, Commit(r)
  PROVE  Tight'
<1>1. req[r].at = "looked" /\ UNCHANGED <<stored, strays, faults>>
  BY CommitShape
<1>2. CASE UNCHANGED <<fate, family, overtaken>> /\ EndsOrBecomes(r, req[r].token, "refused")
  <2>1. ASSUME NEW f \in Token
        PROVE  Moves(f)
    <3>1. /\ \A q \in Slots : q # r => req'[q] = req[q]
          /\ req'[r].kind # "refresh" \/ req'[r].at \notin {"sent", "looked"}
          /\ req[r].kind # "refresh" => req'[r].kind # "refresh"
      BY <1>2, IdleShape DEF EndsOrBecomes, Ends, Becomes
    <3>2. CASE req[r].kind # "refresh"
      <4>1. \A u \in Token : Older(u, f)
        BY <1>2 DEF Older
      <4>2. Shrinks(f)
        BY <1>1, <3>1, <3>2, <4>1, OthersShrink
      <4> QED BY <1>1, <4>2 DEF Moves
    <3>3. CASE req[r].kind = "refresh"
      <4>1. \A c \in Browsers, q \in Slots, y \in Token :
               Refreshing(q, c, y) => Refreshing(q, c, y)'
        BY <1>2, <3>1, BasicsFacts, IdleShape DEF Refreshing, EndsOrBecomes, Becomes
      <4>2. \A y \in Token : HeldIdle(y)' => HeldIdle(y)
        BY <1>1, <4>1, HeldKept
      <4> QED BY <1>1, <1>2, <3>1, <3>3, <4>2, RefreshGoes
    <3> QED BY <3>2, <3>3
  <2> QED BY <1>2, <2>1, TightQuietly
<1>3. CASE RevokesAll(r)
  BY <1>1, <1>3, RevokesTight
<1>4. CASE /\ req[r].kind = "login"
           /\ \E t \in Token : Issues(t, t, {}) /\ EndsOrBecomes(r, t, "done")
  BY <1>1, <1>4, LoginTight
<1>5. CASE /\ req[r].kind = "refresh" /\ req[r].token \in Token /\ Exists(req[r].token)
           /\ \E t \in Token :
                 /\ t # req[r].token
                 /\ Issues(t, family[req[r].token], {req[r].token})
                 /\ EndsOrBecomes(r, t, "done")
  BY <1>1, <1>5, RefreshTight
<1> QED BY <1>2, <1>3, <1>4, <1>5, CommitShape

(* The inductive invariant.                                                *)
TightInv == SessionsInv /\ Tight

LEMMA TightInit == Init => Tight
<1> SUFFICES ASSUME Init
             PROVE  Tight
  OBVIOUS
<1>1. /\ \A t \in Token : fate[t] = "unused" /\ family[t] = 0 /\ strays[t] = 0
      /\ 0 \notin Token
  BY DEF Init, Token
<1>2. \A f \in Token : Claims(f) = {}
  BY <1>1 DEF Claims, SlotClaims, TokenClaims, Members
<1>3. FewClaims
  BY <1>1, <1>2, FS_EmptySet DEF FewClaims
<1>4. Settled
  BY <1>1 DEF Settled, SettledAt
<1> QED BY <1>3, <1>4 DEF Tight

LEMMA TightStutter ==
  ASSUME Tight, UNCHANGED vars
  PROVE  Tight'
<1>1. UNCHANGED <<fate, family, stored, req, overtaken, strays, faults>>
  BY DEF vars, tokenVars
<1>2. ASSUME NEW f
      PROVE  Claims(f)' = Claims(f)
  <2>1. \A x : HeldIdle(x)' <=> HeldIdle(x)
    BY <1>1 DEF HeldIdle, Refreshing
  <2>2. \A r \in Slots : SlotClaims(r, f)' <=> SlotClaims(r, f)
    BY <1>1 DEF SlotClaims, Members, Valid
  <2>3. \A x \in Token : TokenClaims(x, f)' <=> TokenClaims(x, f)
    BY <1>1, <2>1 DEF TokenClaims, Members, Valid, Active
  <2> QED BY <2>2, <2>3 DEF Claims
<1> QED BY <1>1, <1>2 DEF Tight, FewClaims, Settled, SettledAt

LEMMA TightSteps ==
  ASSUME SessionsInv, SessionsInv', Tight, Steps
  PROVE  Tight'
<1>1. Basics /\ Basics' /\ Holders
  BY DEF SessionsInv
<1>2. ASSUME NEW r \in Slots, NEW kind \in Kind, NEW b \in Browsers \cup {Nobody},
             NEW t \in Token \cup {0}, Sends(r, kind, b, t)
      PROVE  Tight'
  <2>1. UNCHANGED <<fate, family, overtaken>>
    BY <1>2 DEF Sends
  <2>2. \A f \in Token : Moves(f)
    BY <1>1, <1>2, SendsClaims
  <2> QED BY <1>1, <2>1, <2>2, TightQuietly
<1>3. ASSUME NEW r \in Slots, Look(r)
      PROVE  Tight'
  <2>1. UNCHANGED <<fate, family, overtaken>>
    BY <1>1, <1>3, LookShape
  <2>2. \A f \in Token : Moves(f)
    BY <1>1, <1>3, LookClaims
  <2> QED BY <1>1, <2>1, <2>2, TightQuietly
<1>4. ASSUME NEW r \in Slots, Answer(r)
      PROVE  Tight'
  <2>1. UNCHANGED <<fate, family, overtaken>>
    BY <1>1, <1>4, BasicsFacts, AnswerShape
  <2>2. \A f \in Token : Moves(f)
    BY <1>1, <1>4, AnswerClaims
  <2> QED BY <1>1, <2>1, <2>2, TightQuietly
<1>5. ASSUME NEW r \in Slots, BreaksFor(r)
      PROVE  Tight'
  <2>1. UNCHANGED <<fate, family, overtaken>>
    BY <1>5 DEF BreaksFor
  <2>2. \A f \in Token : Moves(f)
    BY <1>1, <1>5, BreaksClaims
  <2> QED BY <1>1, <2>1, <2>2, TightQuietly
<1>6. ASSUME NEW b \in Browsers, ReloadsAt(b)
      PROVE  Tight'
  <2>1. UNCHANGED <<fate, family, overtaken>>
    BY <1>6 DEF ReloadsAt
  <2>2. \A f \in Token : Moves(f)
    BY <1>1, <1>6, ReloadClaims
  <2> QED BY <1>1, <2>1, <2>2, TightQuietly
<1>7. ASSUME NEW r \in Slots, Commit(r)
      PROVE  Tight'
  BY <1>1, <1>7, CommitTight
<1>8. ASSUME NEW t \in Token, Expire(t) \/ Sweep(t)
      PROVE  Tight'
  BY <1>1, <1>8, ExpireTight, SweepTight
<1> QED BY <1>2, <1>3, <1>4, <1>5, <1>6, <1>7, <1>8 DEF Steps

LEMMA TightInvNext == TightInv /\ [Next]_vars => TightInv'
<1>1. ASSUME SessionsInv, Tight, [Next]_vars
      PROVE  SessionsInv' /\ Tight'
  <2>1. SessionsInv'
    BY <1>1, SessionsInvNext
  <2>2. CASE UNCHANGED vars
    BY <1>1, <2>1, <2>2, TightStutter
  <2>3. CASE Next
    <3>1. Steps
      BY <1>1, <2>3, NextIsSteps DEF SessionsInv
    <3> QED BY <1>1, <2>1, <3>1, TightSteps
  <2> QED BY <1>1, <2>2, <2>3
<1> QED BY <1>1 DEF TightInv

LEMMA TightInvInit == Init => TightInv
BY SessionsInvInit, TightInit DEF TightInv

(* Whoever could use a live token is a claim on its login.                 *)
LEMMA LiveTokenClaims ==
  ASSUME NEW f, NEW t \in Token, family[t] = f, Valid(t)
  PROVE  \/ <<"token", t>> \in Claims(f)
         \/ \E r \in Slots : req[r].token = t /\ <<"request", r>> \in Claims(f)
<1>1. ASSUME NEW r \in Slots, Active(r), req[r].token = t
      PROVE  <<"request", r>> \in Claims(f)
  <2>1. SlotClaims(r, f)
    BY <1>1 DEF SlotClaims, Active, Members
  <2> QED BY <2>1, ClaimOf
<1>2. CASE ~\E r \in Slots : Active(r) /\ req[r].token = t
  <2>1. TokenClaims(t, f)
    BY <1>2 DEF TokenClaims, Members
  <2> QED BY <2>1, ClaimOf
<1> QED BY <1>1, <1>2

(* Each live token has a claim of its own, so there are no more than       *)
(* claims.                                                                 *)
LEMMA FewLive ==
  ASSUME Basics, Tight
  PROVE  OneLivePerLogin
<1>1. SUFFICES ASSUME NEW f \in Token
               PROVE  Cardinality({t \in Members(f) : Valid(t)}) <= 1 + strays[f]
  BY DEF OneLivePerLogin
<1> DEFINE L == {t \in Members(f) : Valid(t)}
           c(t) == IF <<"token", t>> \in Claims(f) THEN <<"token", t>>
                   ELSE <<"request", CHOOSE r \in Slots :
                            req[r].token = t /\ <<"request", r>> \in Claims(f)>>
           g == [t \in L |-> c(t)]
<1>2. ASSUME NEW t \in L
      PROVE  /\ c(t) \in Claims(f)
             /\ \/ c(t) = <<"token", t>>
                \/ \E r \in Slots : c(t) = <<"request", r>> /\ req[r].token = t
  <2>1. t \in Token /\ family[t] = f /\ Valid(t)
    BY DEF Members
  <2>2. \/ <<"token", t>> \in Claims(f)
        \/ \E r \in Slots : req[r].token = t /\ <<"request", r>> \in Claims(f)
    BY <2>1, LiveTokenClaims
  <2> QED BY <2>2
<1> HIDE DEF c
<1>3. \A s, t \in L : c(s) = c(t) => s = t
  BY <1>2
<1>4. g \in Injection(L, Claims(f))
  BY <1>2, <1>3 DEF Injection, IsInjective
<1>5. IsFiniteSet(Claims(f)) /\ Cardinality(Claims(f)) <= 1 + strays[f]
      /\ Cardinality(Claims(f)) \in Nat
  BY FiniteClaims DEF Tight, FewClaims
<1> HIDE DEF g, L
<1>6. IsFiniteSet(L) /\ Cardinality(L) <= Cardinality(Claims(f))
  BY <1>4, <1>5, FS_Injection
<1>7. Cardinality(L) \in Nat /\ strays[f] \in Nat
  BY <1>6, FS_CardinalityType, BasicsFacts
<1>8. Cardinality(L) <= 1 + strays[f]
  BY <1>5, <1>6, <1>7
<1> QED BY <1>8 DEF L

LEMMA EndedIsOver ==
  ASSUME Basics, Tight
  PROVE  EndedForGood
<1>1. SUFFICES ASSUME NEW t \in Token, fate[t] = "ended", t \notin overtaken,
                      strays[family[t]] = 0, NEW u \in Members(family[t]), Valid(u)
               PROVE  FALSE
  BY DEF EndedForGood
<1>2. family[t] \in Token
  BY <1>1, BasicsFacts DEF Rows, Exists
<1>3. Claims(family[t]) = {}
  BY <1>1, <1>2 DEF Tight, Settled, SettledAt
<1>4. PICK f \in Token : f = family[t]
  BY <1>2
<1>5. u \in Token /\ family[u] = f /\ Claims(f) = {}
  BY <1>3, <1>4 DEF Members
<1> QED BY <1>1, <1>5, LiveTokenClaims

(* Rotation never forks a session: of the tokens a login led to one works, *)
(* and one more for each refresh a reloaded page left under way, whatever  *)
(* the number of browsers, requests and tokens.                            *)
THEOREM RotationNeverForks == Spec => []OneLivePerLogin
<1>1. TightInv => OneLivePerLogin
  BY FewLive DEF TightInv, SessionsInv
<1> QED BY <1>1, TightInvInit, TightInvNext, PTL DEF Spec

(* What a logout, a reset or the sessions page has ended stays over: no    *)
(* token of that login works, unless a refresh had read it valid before.   *)
THEOREM EndedStaysOver == Spec => []EndedForGood
<1>1. TightInv => EndedForGood
  BY EndedIsOver DEF TightInv, SessionsInv
<1> QED BY <1>1, TightInvInit, TightInvNext, PTL DEF Spec
================================================================================
