------------------------------- MODULE RateLimiter -------------------------------
(***************************************************************************)
(* The fixed-window rate limiter (middleware/rate_limiter.py) under        *)
(* requests, the passing of time and its own clean-up.                     *)
(***************************************************************************)
EXTENDS Naturals, Sequences, SequencesExt

CONSTANTS Clients,
          Requests,          \* [method, path]; a path is cut into pieces where
                             \* the configured ones end, so that startswith is
                             \* IsPrefix
          Limited,           \* the keys of path_limits, in their order
          PathLimit,         \* [keys -> Nat]
          Surfaces,          \* limited_prefixes
          Excluded, Free,    \* excluded_paths and excluded_prefixes
          PerMinute, PerHour,
          Minute, Hour, CleanUpEvery,  \* in ticks
          MaxTime            \* bound: ticks

(* A key for every method of a path has this in place of one.              *)
AnyMethod == "any"
Keys == {Limited[i] : i \in DOMAIN Limited}

ASSUME LimiterAssumption ==
    /\ \A k \in Keys : k.path \in Seq(STRING) /\ PathLimit[k] \in Nat
    /\ PerMinute \in Nat /\ PerHour \in Nat
    /\ Minute \in Nat \ {0} /\ Hour \in Nat \ {0} /\ Hour % Minute = 0
    /\ CleanUpEvery \in Nat /\ MaxTime \in Nat

VARIABLES now, cleaned,   \* the time, and when the clean-up last ran
          minuteCounts,   \* [Clients -> [windows -> Nat]]; 0: no entry
          hourCounts,
          pathCounts,     \* [Clients \X Keys -> [windows -> Nat]]
          served          \* what was let through, in the same three ways,
                          \* and never cleaned

limiterVars == <<now, cleaned, minuteCounts, hourCounts, pathCounts, served>>

Windows == 0..MaxTime
Zero == [w \in Windows |-> 0]
MinuteOf(t) == t \div Minute
HourOf(t) == t \div Hour

LimiterInit ==
    /\ now = 0 /\ cleaned = 0
    /\ minuteCounts = [c \in Clients |-> Zero]
    /\ hourCounts = [c \in Clients |-> Zero]
    /\ pathCounts = [x \in Clients \X Keys |-> Zero]
    /\ served = [minute |-> minuteCounts, hour |-> hourCounts, path |-> pathCounts]
--------------------------------------------------------------------------------
(* _get_path_key, most specific first.                                     *)
NoKey == [method |-> "none", path |-> <<>>]
PrefixKeys(r) == SelectSeq(Limited, LAMBDA k : k.method = AnyMethod /\ IsPrefix(k.path, r.path))

PathKey(r) ==
    CASE r \in Keys -> r
      [] r \notin Keys /\ [r EXCEPT !.method = AnyMethod] \in Keys -> [r EXCEPT !.method = AnyMethod]
      [] OTHER -> IF PrefixKeys(r) = <<>> THEN NoKey ELSE Head(PrefixKeys(r))

Exempt(r) ==
    \/ Surfaces # {} /\ \A p \in Surfaces : ~IsPrefix(p, r.path)
    \/ r.path \in Excluded
    \/ \E p \in Free : IsPrefix(p, r.path)

Uncounted(r) == PathKey(r) = NoKey /\ Exempt(r)

Due == now - cleaned >= CleanUpEvery
Recent(counts, w) == [x \in DOMAIN counts |->
                        [v \in Windows |-> IF v + 1 < w THEN 0 ELSE counts[x][v]]]

(* Mutant: the hours are cleaned by the minute.                            *)
KeptHoursByMinute == IF Due THEN Recent(hourCounts, MinuteOf(now)) ELSE hourCounts

KeptHours == IF Due THEN Recent(hourCounts, HourOf(now)) ELSE hourCounts
KeptMinutes == IF Due THEN Recent(minuteCounts, MinuteOf(now)) ELSE minuteCounts
KeptPaths == IF Due THEN Recent(pathCounts, MinuteOf(now)) ELSE pathCounts

ServedBy(c, r) ==
    IF PathKey(r) # NoKey
    THEN [served EXCEPT !.path[<<c, PathKey(r)>>][MinuteOf(now)] = @ + 1]
    ELSE [served EXCEPT !.minute[c][MinuteOf(now)] = @ + 1,
                        !.hour[c][HourOf(now)] = @ + 1]

PassThrough(c, r) ==
    /\ Uncounted(r)
    /\ UNCHANGED limiterVars

(* A path with a limit of its own is not counted against the others.       *)
CountPath(c, r) ==
    LET x == <<c, PathKey(r)>>  w == MinuteOf(now) IN
    /\ IF KeptPaths[x][w] >= PathLimit[PathKey(r)]
       THEN pathCounts' = KeptPaths /\ UNCHANGED served
       ELSE /\ pathCounts' = [KeptPaths EXCEPT ![x][w] = @ + 1]
            /\ served' = ServedBy(c, r)
    /\ minuteCounts' = KeptMinutes /\ hourCounts' = KeptHours

CountGlobal(c, r) ==
    LET m == MinuteOf(now)  h == HourOf(now) IN
    /\ IF KeptMinutes[c][m] >= PerMinute \/ KeptHours[c][h] >= PerHour
       THEN minuteCounts' = KeptMinutes /\ hourCounts' = KeptHours /\ UNCHANGED served
       ELSE /\ minuteCounts' = [KeptMinutes EXCEPT ![c][m] = @ + 1]
            /\ hourCounts' = [KeptHours EXCEPT ![c][h] = @ + 1]
            /\ served' = ServedBy(c, r)
    /\ pathCounts' = KeptPaths

Count(c, r) ==
    /\ ~Uncounted(r)
    /\ IF PathKey(r) # NoKey THEN CountPath(c, r) ELSE CountGlobal(c, r)
    /\ cleaned' = IF Due THEN now ELSE cleaned
    /\ UNCHANGED now

Tick ==
    /\ now < MaxTime
    /\ now' = now + 1
    /\ UNCHANGED <<cleaned, minuteCounts, hourCounts, pathCounts, served>>

LimiterNext ==
    \/ \E c \in Clients, r \in Requests : PassThrough(c, r) \/ Count(c, r)
    \/ Tick

LimiterSpec == LimiterInit /\ [][LimiterNext]_limiterVars
--------------------------------------------------------------------------------
Counts == [Clients -> [Windows -> Nat]]
PathCounts == [Clients \X Keys -> [Windows -> Nat]]

LimiterTypeOK ==
    /\ now \in 0..MaxTime /\ cleaned \in 0..now
    /\ minuteCounts \in Counts /\ hourCounts \in Counts /\ pathCounts \in PathCounts
    /\ served \in [minute : Counts, hour : Counts, path : PathCounts]

(* rate_limiter.py:57-62: in no minute and no hour does a client get more  *)
(* through than the limit of the path, or the general ones, however the    *)
(* requests fall between the clean-ups.                                    *)
NeverOverLimit ==
    \A c \in Clients, w \in Windows :
        /\ served.minute[c][w] <= PerMinute
        /\ served.hour[c][w] <= PerHour
        /\ \A k \in Keys : served.path[<<c, k>>][w] <= PathLimit[k]
================================================================================
