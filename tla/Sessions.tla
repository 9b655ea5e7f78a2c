-------------------------------- MODULE Sessions --------------------------------
(***************************************************************************)
(* The sessions of one user: the rows of refresh_tokens                    *)
(* (app/services/auth.py), the handlers that issue, rotate and revoke them *)
(* (app/api/routes/auth.py, users.py), the sweep that deletes them, and    *)
(* the browsers that hold one each and share one refresh among all callers *)
(* of a page (frontend/src/api/client.ts, AuthContext.tsx).                *)
(*                                                                         *)
(* A handler is two steps: what it reads (Look) and what it commits        *)
(* (Commit); between them other handlers commit.                           *)
(***************************************************************************)
EXTENDS Naturals, FiniteSets

CONSTANTS Browsers,
          Nobody,      \* sender of a request whose answer no page waits for
          Slots,       \* bound: requests under way at once
          MaxTokens,   \* bound: tokens issued in a behaviour
          MaxFaults    \* bound: pages reloaded and answers lost

ASSUME SessionsAssumption ==
    /\ IsFiniteSet(Browsers) /\ Nobody \notin Browsers
    /\ IsFiniteSet(Slots) /\ Slots \subseteq Nat
    /\ {MaxTokens, MaxFaults} \subseteq Nat

VARIABLES fate,       \* [Token -> Fate]: the row of each token
          family,     \* [Token -> Token \cup {0}]: the token its login issued
          stored,     \* [Browsers -> Token \cup {0}]: localStorage
          req,        \* [Slots -> Request]
          overtaken,  \* tokens revoked while a refresh that read them valid
                      \* was under way
          strays,     \* [Token -> Nat]: refreshes of a family the page left
          faults

tokenVars == <<fate, family>>
vars == <<tokenVars, stored, req, overtaken, strays, faults>>

Token == 1..MaxTokens

(* "rotated": revoked by a refresh; "ended": by a logout, a reset or the    *)
(* sessions page.  The row has revoked_at for both.  "gone": row deleted.  *)
Fate == {"unused", "live", "expired", "rotated", "ended", "gone"}

(* endOne: a logout, if a page waits for it, or the sessions page; endAll: *)
(* logout-all, or a password reset by an administrator or by a link.       *)
Ending == {"endOne", "endAll"}
Kind == {"none", "login", "refresh"} \cup Ending
Request == [kind : Kind, by : Browsers \cup {Nobody}, token : Token \cup {0},
            at : {"idle", "sent", "looked", "done", "refused"},
            picked : SUBSET Token]
Idle == [kind |-> "none", by |-> Nobody, token |-> 0, at |-> "idle", picked |-> {}]

Init ==
    /\ fate = [t \in Token |-> "unused"]
    /\ family = [t \in Token |-> 0]
    /\ stored = [b \in Browsers |-> 0]
    /\ req = [r \in Slots |-> Idle]
    /\ overtaken = {}
    /\ strays = [t \in Token |-> 0]
    /\ faults = 0

Exists(t) == fate[t] \notin {"unused", "gone"}
Unrevoked == {t \in Token : fate[t] \in {"live", "expired"}}
Members(f) == {t \in Token : family[t] = f}

(* Mutant: is_valid asks for the expiry only.                              *)
Unexpired(t) == fate[t] \in {"live", "rotated", "ended"}

Valid(t) == fate[t] = "live"

(* A page has at most one request of each of these groups under way.       *)
Waits(b, kinds) == \E r \in Slots : req[r].by = b /\ req[r].kind \in kinds

Send(r, kind, b, t) ==
    /\ req[r] = Idle /\ \A q \in Slots : q < r => req[q] # Idle
    /\ req' = [req EXCEPT ![r] =
                 [kind |-> kind, by |-> b, token |-> t, at |-> "sent", picked |-> {}]]
    /\ UNCHANGED <<tokenVars, stored, overtaken, strays, faults>>

(* MaxTokens: every login or refresh under way finds a token.              *)
TokensLeft ==
    Cardinality({r \in Slots : req[r].kind \in {"login", "refresh"}
                               /\ req[r].at \in {"sent", "looked"}})
      < Cardinality({t \in Token : fate[t] = "unused"})

Store(b, t) ==
    stored' = [c \in Browsers |-> IF c = b THEN t ELSE stored[c]]
--------------------------------------------------------------------------------
(* Requests leave the browsers.                                            *)

SendLogin(r, b) ==
    /\ stored[b] = 0
    /\ ~Waits(b, {"login"} \cup Ending)
    /\ TokensLeft
    /\ Send(r, "login", b, 0)

(* Mutant: each caller starts a rotation of its own.                       *)
SendRefreshEach(r, b) ==
    /\ stored[b] # 0
    /\ TokensLeft
    /\ Send(r, "refresh", b, stored[b])

(* refreshTokens: a 401 or the timer; callers share the one in flight.     *)
SendRefresh(r, b) ==
    /\ stored[b] # 0
    /\ ~Waits(b, {"refresh"})
    /\ TokensLeft
    /\ Send(r, "refresh", b, stored[b])

SendLogout(r, b) ==
    /\ stored[b] # 0
    /\ ~Waits(b, Ending)
    /\ \E kind \in Ending : Send(r, kind, b, stored[b])

(* The sessions page, or a reset; with nothing unrevoked it has no effect. *)
SendRevoke(r) ==
    \/ Unrevoked # {} /\ Send(r, "endAll", Nobody, 0)
    \/ \E t \in Unrevoked : Send(r, "endOne", Nobody, t)
--------------------------------------------------------------------------------
(* The server reads ...                                                    *)

(* Mutant: a request nobody waits for keeps what it read.                  *)
EndedUncleared(r, at, t) ==
    IF req[r].by = Nobody THEN [req[r] EXCEPT !.at = "idle"]
    ELSE [req[r] EXCEPT !.at = at, !.token = t, !.picked = {}]

(* The answer is on its way, if anybody waits for it.                      *)
Ended(r, at, t) ==
    IF req[r].by = Nobody THEN Idle
    ELSE [req[r] EXCEPT !.at = at, !.token = t, !.picked = {}]

Picked(r) ==
    LET q == req[r] IN
    CASE q.kind = "login" -> {}
      [] q.kind = "refresh" -> {t \in {q.token} : Valid(t)}
      [] q.kind = "endOne" -> {t \in {q.token} : Exists(t)}
      [] q.kind = "endAll" -> Unrevoked

(* 401, 403 or 404: no such row, expired or revoked, or the account is     *)
(* inactive just now, which an administrator decides.                      *)
Look(r) ==
    /\ req[r].at = "sent"
    /\ \E admitted \in BOOLEAN :
          req' = IF admitted /\ (Picked(r) # {} \/ req[r].kind \in {"login", "endAll"})
                 THEN [req EXCEPT ![r].at = "looked", ![r].picked = Picked(r)]
                 ELSE [req EXCEPT ![r] = Ended(r, "refused", @.token)]
    /\ UNCHANGED <<tokenVars, stored, overtaken, strays, faults>>

(* ... and commits.                                                        *)
Answered(r, t) == req' = [req EXCEPT ![r] = Ended(r, "done", t)]

(* A row the sweep deleted in between fails the whole transaction.         *)
Stale(r) == \E t \in req[r].picked : ~Exists(t)

CommitFails(r) ==
    /\ req' = [req EXCEPT ![r] = Ended(r, "refused", @.token)]
    /\ UNCHANGED <<tokenVars, overtaken>>

(* The rows in `old` get revoked_at, also those that had it.               *)
Revoke(old, to) ==
    [t \in Token |-> IF t \in old \cap Unrevoked THEN to ELSE fate[t]]

(* A new row, of family f.                                                 *)
Issue(t, f, old) ==
    /\ fate' = [Revoke(old, "rotated") EXCEPT ![t] = "live"]
    /\ family' = [family EXCEPT ![t] = f]
    /\ UNCHANGED overtaken

NextToken(t) == fate[t] = "unused" /\ \A u \in Token : u < t => fate[u] # "unused"

CommitLogin(r) ==
    /\ req[r].kind = "login"
    /\ \E t \in Token : NextToken(t) /\ Issue(t, t, {}) /\ Answered(r, t)

(* Mutant: the presented token is not revoked.                             *)
CommitRefreshKeeping(r) ==
    /\ req[r].kind = "refresh"
    /\ \E t \in Token :
          /\ NextToken(t)
          /\ Issue(t, family[req[r].token], {})
          /\ Answered(r, t)

CommitRefresh(r) ==
    /\ req[r].kind = "refresh"
    /\ \E t \in Token :
          /\ NextToken(t)
          /\ Issue(t, family[req[r].token], req[r].picked)
          /\ Answered(r, t)

CommitRevoke(r) ==
    /\ req[r].kind \in Ending
    /\ fate' = Revoke(req[r].picked, "ended")
    /\ overtaken' = overtaken \cup
         {t \in req[r].picked : \E q \in Slots :
             req[q].kind = "refresh" /\ req[q].at = "looked" /\ req[q].token = t}
    /\ Answered(r, 0)
    /\ UNCHANGED family

Commit(r) ==
    /\ req[r].at = "looked"
    /\ IF Stale(r) THEN CommitFails(r)
       ELSE CommitLogin(r) \/ CommitRefresh(r) \/ CommitRevoke(r)
    /\ UNCHANGED <<stored, strays, faults>>
--------------------------------------------------------------------------------
(* The answer arrives: a refresh that failed in any way clears the storage, *)
(* whatever is in it by now, and so does every logout.                     *)
Answer(r) ==
    /\ req[r].at \in {"done", "refused"}
    /\ LET q == req[r] IN
          IF q.kind \in Ending \/ (q.kind = "refresh" /\ q.at = "refused")
          THEN Store(q.by, 0)
          ELSE IF q.kind \in {"login", "refresh"} /\ q.at = "done"
          THEN Store(q.by, q.token)
          ELSE UNCHANGED stored
    /\ req' = [req EXCEPT ![r] = Idle]
    /\ UNCHANGED <<tokenVars, overtaken, strays, faults>>

(* What becomes of a request nobody waits for any more: it may have got    *)
(* lost before it reached the server.                                      *)
Abandoned(r, lost) ==
    IF (req[r].at = "sent" /\ lost) \/ req[r].at \in {"done", "refused"}
    THEN Idle ELSE [req[r] EXCEPT !.by = Nobody]

(* The connection breaks: to the page the request has failed.              *)
Breaks(r) ==
    /\ req[r].at # "idle" /\ req[r].by # Nobody
    /\ faults < MaxFaults
    /\ faults' = faults + 1
    /\ \E lost \in BOOLEAN : req' = [req EXCEPT ![r] = Abandoned(r, lost)]
    /\ IF req[r].kind = "login" THEN UNCHANGED stored ELSE Store(req[r].by, 0)
    /\ UNCHANGED <<tokenVars, overtaken, strays>>

(* The page is loaded anew: no answer finds it, the storage stays, unless  *)
(* checkSession is told the user is inactive.                              *)
Reload(b) ==
    /\ faults < MaxFaults
    /\ faults' = faults + 1
    /\ \E lost \in BOOLEAN :
          req' = [r \in Slots |-> IF req[r].by = b THEN Abandoned(r, lost) ELSE req[r]]
    /\ strays' = [f \in Token |->
                    IF \E r \in Slots : /\ req[r].by = b /\ req[r].kind = "refresh"
                                        /\ family[req[r].token] = f
                    THEN strays[f] + 1 ELSE strays[f]]
    /\ \E active \in BOOLEAN : IF active THEN UNCHANGED stored ELSE Store(b, 0)
    /\ UNCHANGED <<tokenVars, overtaken>>
--------------------------------------------------------------------------------
(* An answer is not days under way.                                        *)
OnItsWay(t) == \E r \in Slots : req[r].at = "done" /\ req[r].token = t

Expire(t) ==
    /\ fate[t] = "live"
    /\ ~OnItsWay(t)
    /\ fate' = [fate EXCEPT ![t] = "expired"]
    /\ UNCHANGED <<family, stored, req, overtaken, strays, faults>>

Unusable(t) == fate[t] \in {"expired", "rotated", "ended"}

(* sweep_refresh_tokens.  The retention, a day or more, is longer than any *)
(* request that read the token before it was revoked.                      *)
Sweep(t) ==
    /\ Unusable(t)
    /\ ~OnItsWay(t)
    /\ fate[t] = "expired" \/ \A r \in Slots : t \notin req[r].picked
    /\ fate' = [fate EXCEPT ![t] = "gone"]
    /\ family' = [family EXCEPT ![t] = 0]
    /\ overtaken' = overtaken \ {t}
    /\ UNCHANGED <<stored, req, strays, faults>>

Serve(r) == Look(r) \/ Commit(r) \/ Answer(r)

Next ==
    \/ \E r \in Slots :
          \/ \E b \in Browsers :
                SendLogin(r, b) \/ SendRefresh(r, b) \/ SendLogout(r, b)
          \/ SendRevoke(r)
          \/ Serve(r)
          \/ Breaks(r)
    \/ \E b \in Browsers : Reload(b)
    \/ \E t \in Token : Expire(t) \/ Sweep(t)

Spec == Init /\ [][Next]_vars
--------------------------------------------------------------------------------
TypeOK ==
    /\ fate \in [Token -> Fate]
    /\ family \in [Token -> Token \cup {0}]
    /\ stored \in [Browsers -> Token \cup {0}]
    /\ req \in [Slots -> Request]
    /\ \A r \in Slots : req[r].at = "idle" <=> req[r] = Idle
    /\ overtaken \subseteq Token
    /\ strays \in [Token -> 0..MaxFaults]
    /\ faults \in 0..MaxFaults

(* client.ts:62-75: no page is thrown out of a session by its own rotation. *)
(* A stored token disappears because the user logs out, the connection     *)
(* broke, the account is inactive at a reload, or a refresh was refused;   *)
(* and it was not refused for presenting a token another refresh of the    *)
(* same session had just replaced, unless a reload left that one behind.   *)
ThrownOutForCause ==
    [][\A b \in Browsers : stored[b] # 0 /\ stored'[b] = 0 =>
          \/ faults' # faults
          \/ \E r \in Slots :
                /\ req[r].by = b /\ req'[r] = Idle
                /\ \/ req[r].kind \in Ending
                   \/ /\ req[r].kind = "refresh"
                      /\ \/ fate[req[r].token] # "rotated"
                         \/ strays[family[req[r].token]] > 0]_vars

(* Rotation never forks a session: however logins, refreshes, logouts and   *)
(* lost answers interleave, a login has at most one token that works, and  *)
(* one more for each refresh a reloaded page left under way.               *)
OneLivePerLogin ==
    \A f \in Token : Cardinality({t \in Members(f) : Valid(t)}) <= 1 + strays[f]

(* Once a token has been ended by a logout, a reset or the sessions page,   *)
(* its whole login is over: neither it nor any successor works, unless a   *)
(* refresh had read it valid before.                                       *)
EndedForGood ==
    \A t \in Token :
        fate[t] = "ended" /\ t \notin overtaken /\ strays[family[t]] = 0 =>
            ~\E u \in Members(family[t]) : Valid(u)
================================================================================
