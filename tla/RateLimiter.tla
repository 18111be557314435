---------------------------- MODULE RateLimiter ----------------------------
(***************************************************************************)
(* The in-process rate limiter (core/rate_limit.py) in front of            *)
(* /auth/register, /auth/login, /auth/refresh and /statements/upload.      *)
(*                                                                         *)
(* allow() contains no await, so on the one event loop a decision is one   *)
(* step.  time.monotonic() is an integer clock; a request may take no time *)
(* at all, so several decisions can carry the same timestamp.              *)
(***************************************************************************)
EXTENDS Integers, Sequences

CONSTANTS IP,        \* client addresses
          Max,       \* Max[s]: rate_limit_<s>_max_requests
          Window,    \* Window[s]: rate_limit_<s>_window_seconds
          NoKey,
          MaxTime    \* bound: the clock stops here

Endpoint == {"register", "login", "refresh", "upload"}

(* The scope each route's dependency was built with: the three auth routes *)
(* draw on one allowance.                                                  *)
ScopeOf == [e \in Endpoint |-> IF e = "upload" THEN "upload" ELSE "auth"]

Scope == {"auth", "upload"}

Key == Scope \X IP

ASSUME RateLimiterAssumption ==
    /\ Max \in [Scope -> Nat]
    /\ Window \in [Scope -> Nat]
    /\ MaxTime \in Nat
    /\ NoKey \notin Key

VARIABLES now,       \* time.monotonic()
          hits,      \* limiter._hits
          accepted,  \* history: every admission since the process started
          refused    \* the key the last step answered 429 to, or NoKey

vars == <<now, hits, accepted, refused>>

Limit(k) == Max[k[1]]
Width(k) == Window[k[1]]

Init ==
    /\ now = 0
    /\ hits = [k \in Key |-> << >>]
    /\ accepted = [k \in Key |-> << >>]
    /\ refused = NoKey

(* Mutation: a hit is dropped one tick early.                              *)
StaleEarly(k, t) == t + Width(k) <= now + 1

(* not t > cutoff                                                          *)
Stale(k, t) == t + Width(k) <= now

(* The list comprehension [t for t in bucket if t > cutoff].  A bucket is  *)
(* in order of time, so what it drops is a prefix, here of length d.       *)
Prunes(k, d) ==
    /\ \A i \in 1..d : Stale(k, hits[k][i])
    /\ \A i \in (d + 1)..Len(hits[k]) : ~Stale(k, hits[k][i])

Pruned(k, d) == SubSeq(hits[k], d + 1, Len(hits[k]))

Full(k, d) == Len(hits[k]) - d >= Limit(k)

Admit(k, d) ==
    /\ Prunes(k, d)
    /\ ~Full(k, d)
    /\ hits' = [hits EXCEPT ![k] = Append(Pruned(k, d), now)]
    /\ accepted' = [accepted EXCEPT ![k] = Append(@, now)]
    /\ refused' = NoKey
    /\ UNCHANGED now

(* Mutation: a refused request is logged as well, and so prolongs the      *)
(* lockout of the client that sent it.                                     *)
RefuseCounted(k, d) ==
    /\ Prunes(k, d)
    /\ Full(k, d)
    /\ hits' = [hits EXCEPT ![k] = Append(Pruned(k, d), now)]
    /\ refused' = k
    /\ UNCHANGED <<now, accepted>>

Refuse(k, d) ==
    /\ Prunes(k, d)
    /\ Full(k, d)
    /\ hits' = [hits EXCEPT ![k] = Pruned(k, d)]
    /\ refused' = k
    /\ UNCHANGED <<now, accepted>>

Allow(k) == \E d \in 0..Len(hits[k]) : Admit(k, d) \/ Refuse(k, d)

Tick ==
    /\ now < MaxTime
    /\ now' = now + 1
    /\ refused' = NoKey
    /\ UNCHANGED <<hits, accepted>>

(* The process restarts (or a test calls reset()): the log was in memory.  *)
Restart ==
    /\ hits' = [k \in Key |-> << >>]
    /\ accepted' = [k \in Key |-> << >>]
    /\ refused' = NoKey
    /\ UNCHANGED now

Next ==
    \/ \E e \in Endpoint, ip \in IP : Allow(<<ScopeOf[e], ip>>)
    \/ Tick
    \/ Restart

Spec == Init /\ [][Next]_vars

-----------------------------------------------------------------------------
(* Types, with the bound on memory: a bucket never outgrows the limit of   *)
(* its scope, however often a client is refused (rate_limit.py:30-34).     *)
TypeOK ==
    /\ now \in Nat
    /\ hits \in [Key -> Seq(Nat)]
    /\ accepted \in [Key -> Seq(Nat)]
    /\ refused \in Key \cup {NoKey}
    /\ \A k \in Key : Len(hits[k]) <= Limit(k)

(* No stretch of time shorter than the window holds more than the limit of *)
(* admissions, wherever it starts.  The class calls itself a fixed window, *)
(* which would let a burst of twice the limit through at a boundary; this  *)
(* log does not, although it forgets what it dropped (rate_limit.py:27-35).*)
WindowBound ==
    \A k \in Key : \A i, j \in DOMAIN accepted[k] :
        j = i + Limit(k) => accepted[k][i] + Width(k) <= accepted[k][j]

(* A client that is answered 429 really made as many admitted requests as  *)
(* the limit within the last window: its refused ones do not keep it out,  *)
(* and neither do those of another client (rate_limit.py:32-34).           *)
RefusesOnlyWhenFull ==
    refused # NoKey =>
        LET a == accepted[refused]
        IN  \A i \in (Len(a) - Limit(refused) + 1)..Len(a) :
                i >= 1 /\ ~Stale(refused, a[i])

=============================================================================
