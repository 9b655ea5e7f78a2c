-------------------------------- MODULE MCServices --------------------------------
(* The parts that share no state with the builds or with each other, side  *)
(* by side: the initial state chooses the one a behaviour is about.        *)
EXTENDS TaskStream, Downloads, RateLimiter, GitAccess

VARIABLE part

Request(method, path) == [method |-> method, path |-> path]
MCLimited == <<Request(AnyMethod, <<"auth", "login">>), Request("POST", <<"api", "tasks">>)>>
MCPathLimit == [k \in {MCLimited[1], MCLimited[2]} |-> 1]
MCRequests == {Request("POST", <<"auth", "login">>), Request("POST", <<"auth", "login", "2">>),
               Request("GET", <<"auth", "me">>), Request("GET", <<"ws">>),
               Request("POST", <<"api", "tasks">>), Request("GET", <<"api", "tasks">>)}
MCSurfaces == {<<"api">>, <<"auth">>}
MCExcluded == {<<"ws">>}
MCFree == {<<"api", "tasks">>}

Parts == {"stream", "download", "limiter", "git"}
vars == <<part, streamVars, downloadVars, limiterVars, gitVars>>

Init ==
    /\ part \in Parts
    /\ StreamInit /\ DownloadInit /\ LimiterInit /\ GitInit

Next ==
    /\ UNCHANGED part
    /\ \/ /\ part = "stream" /\ StreamNext
          /\ UNCHANGED <<downloadVars, limiterVars, gitVars>>
       \/ /\ part = "download" /\ DownloadNext
          /\ UNCHANGED <<streamVars, limiterVars, gitVars>>
       \/ /\ part = "limiter" /\ LimiterNext
          /\ UNCHANGED <<streamVars, downloadVars, gitVars>>
       \/ /\ part = "git" /\ GitNext
          /\ UNCHANGED <<streamVars, downloadVars, limiterVars>>

Fairness ==
    \/ part = "stream" /\ StreamFairness
    \/ part = "download" /\ DownloadFairness
    \/ part \in {"limiter", "git"}

Spec == Init /\ [][Next]_vars /\ Fairness

TypesOK == StreamTypeOK /\ DownloadTypeOK /\ LimiterTypeOK /\ GitTypeOK
================================================================================
