----------------------------- MODULE RateLimit -----------------------------
(***************************************************************************)
(* The sliding-window rate limiter of backend/middleware/rate_limit.py and *)
(* the identities its endpoints group requests by.  A request reads the    *)
(* monotonic clock outside the lock (line 220) and is checked under it     *)
(* later, so requests may be checked in another order than they were       *)
(* stamped in.  A window is a set of calls: the sorted list of timestamps  *)
(* is the bag of their stamps.                                             *)
(***************************************************************************)
EXTENDS Configuration, Sequences

CONSTANTS
  Calls,        \* the limited requests of a behaviour
  Requests,     \* Calls -> what of a request the limiter looks at
  Rules,        \* the limited endpoints: the rule key is the function's name
  Threshold,    \* Rules -> hits a window holds
  Window,       \* Rules -> seconds
  Addresses,    \* what ipaddress.ip_address parses
  Proxies,      \* addresses in ECDAT_TRUSTED_PROXIES; {} when it is unset
  RoleHeader,   \* ECDAT_ALLOW_ROLE_HEADER is "true"
  MaxLag,       \* seconds a request may wait between its clock and the lock
  MaxClock      \* bound on the clock, for TLC

ASSUME LimitAssumption ==
  /\ Threshold \in [Rules -> Nat \ {0}]
  /\ Window \in [Rules -> Nat \ {0}]
  /\ MaxLag \in Nat
  /\ MaxClock \in Nat
  /\ \A c \in Calls : Requests[c].rule \in Rules

VARIABLES
  clock,        \* time.monotonic()
  stamp,        \* the `now` of each call, -1 before it is read
  windows,      \* _windows: hits by <<rule key, client key>>
  verdict,      \* "none", "allowed" or "refused"
  retryAt,      \* when a refused caller was told to come back
  charged       \* every hit ever recorded under a key, for the properties

limitVars == <<clock, stamp, windows, verdict, retryAt, charged>>

----------------------------------------------------------------------------
\* Identities.

\* _is_trusted_proxy: an empty list and an unparsable peer trust nobody.
IsTrustedProxy(peer) == peer \in Addresses /\ peer \in Proxies

\* _client_ip: the forwarded address counts only from a trusted proxy and
\* only when it parses.
ClientIp(q) ==
  IF q.forwarded \in Addresses /\ IsTrustedProxy(q.peer) THEN q.forwarded ELSE q.peer

\* _client_key
ClientKey(q) ==
  IF RoleHeader /\ q.role # NoValue THEN <<"demo-role", q.role>>
                                    ELSE <<"client", ClientIp(q)>>

\* _login_rate_limit_keys: the address first, then the normalised user name.
LoginKeys(q) == << <<"client", ClientIp(q)>>, <<"username", q.username>> >>

ClientKeys(q) == IF q.rule = "login" THEN LoginKeys(q) ELSE <<ClientKey(q)>>

KeyPosition(c) == DOMAIN ClientKeys(Requests[c])
KeyAt(c, i) == <<Requests[c].rule, ClientKeys(Requests[c])[i]>>
WindowKeys == UNION {{KeyAt(c, i) : i \in KeyPosition(c)} : c \in Calls}
----------------------------------------------------------------------------
\* The store.

\* _prune: hits of this rule that left the window `now` are forgotten.
Prune(rule, now) ==
  [k \in DOMAIN windows |->
     IF k[1] = rule THEN {d \in windows[k] : stamp[d] >= now - Window[rule]}
                    ELSE windows[k]]

\* Faulty variant: one hit too many fits.
HasRoomOneMore(rule, w, k) == Cardinality(w[k]) <= Threshold[rule]

HasRoom(rule, w, k) == Cardinality(w[k]) < Threshold[rule]

\* all(_allow(...)): keys are charged in order until one has no room, and a
\* refused call keeps the charges it made before the refusal.
ChargedKeys(c, w) ==
  {KeyAt(c, i) : i \in {j \in KeyPosition(c) :
                          \A m \in 1..j : HasRoom(Requests[c].rule, w, KeyAt(c, m))}}

Admitted(c, w) == \A i \in KeyPosition(c) : HasRoom(Requests[c].rule, w, KeyAt(c, i))

\* Faulty variant: the caller is told the shortest wait, not the longest.
RetryAfterShortest(c, w) ==
  LET rule == Requests[c].rule
      full == {k \in {KeyAt(c, i) : i \in KeyPosition(c)} : ~HasRoom(rule, w, k)}
      oldest(k) == CHOOSE s \in {stamp[d] : d \in w[k]} : \A d \in w[k] : s <= stamp[d]
      waits == {oldest(k) + Window[rule] - stamp[c] : k \in full}
  IN  CHOOSE wait \in waits : \A x \in waits : wait <= x

\* _retry_after: the longest wait for the oldest hit of a full key to leave.
RetryAfter(c, w) ==
  LET rule == Requests[c].rule
      full == {k \in {KeyAt(c, i) : i \in KeyPosition(c)} : ~HasRoom(rule, w, k)}
      oldest(k) == CHOOSE s \in {stamp[d] : d \in w[k]} : \A d \in w[k] : s <= stamp[d]
      waits == {1} \cup {oldest(k) + Window[rule] - stamp[c] : k \in full}
  IN  CHOOSE wait \in waits : \A x \in waits : x <= wait

----------------------------------------------------------------------------
LimitInit ==
  /\ clock = 0
  /\ stamp = [c \in Calls |-> -1]
  /\ windows = [k \in WindowKeys |-> {}]
  /\ verdict = [c \in Calls |-> "none"]
  /\ retryAt = [c \in Calls |-> -1]
  /\ charged = [k \in WindowKeys |-> {}]

Waiting(c) == stamp[c] >= 0 /\ verdict[c] = "none"

\* Time passes; no caller waits for the lock longer than MaxLag.
Tick ==
  /\ clock < MaxClock
  /\ \A c \in Calls : Waiting(c) => clock < stamp[c] + MaxLag
  /\ clock' = clock + 1
  /\ UNCHANGED <<stamp, windows, verdict, retryAt, charged>>

\* _check_and_call, line 220.
ReadClock(c) ==
  /\ stamp[c] = -1
  /\ stamp' = [stamp EXCEPT ![c] = clock]
  /\ UNCHANGED <<clock, windows, verdict, retryAt, charged>>

\* InMemoryRateLimitStore.check, then the endpoint or the 429.
Check(c) ==
  LET rule == Requests[c].rule
      kept == Prune(rule, stamp[c])
      paid == ChargedKeys(c, kept)
      after == [k \in DOMAIN windows |->
                  IF k \in paid THEN kept[k] \cup {c} ELSE kept[k]]
  IN /\ Waiting(c)
     /\ windows' = after
     /\ charged' = [k \in DOMAIN charged |->
                      IF k \in paid THEN charged[k] \cup {c} ELSE charged[k]]
     /\ \/ /\ Admitted(c, kept)
           /\ verdict' = [verdict EXCEPT ![c] = "allowed"]
           /\ UNCHANGED retryAt
        \/ /\ ~Admitted(c, kept)
           /\ verdict' = [verdict EXCEPT ![c] = "refused"]
           /\ retryAt' = [retryAt EXCEPT ![c] = stamp[c] + RetryAfter(c, after)]
     /\ UNCHANGED <<clock, stamp>>

LimitNext ==
  \/ Tick
  \/ \E c \in Calls : ReadClock(c) \/ Check(c)

LimitSpec == LimitInit /\ [][LimitNext]_limitVars
----------------------------------------------------------------------------
\* "Max requests per window" (line 164) holds although requests are pruned
\* and charged in another order than they were stamped in, and although the
\* rules share one table: under every key, the requests stamped within a
\* window, shortened by the time a request may wait for the lock, are at
\* most the threshold.
LimitHeld ==
  \A k \in WindowKeys, t \in 0..MaxClock :
     Cardinality({c \in charged[k] :
                    t <= stamp[c] /\ stamp[c] <= t + Window[k[1]] - MaxLag})
       <= Threshold[k[1]]

\* The Retry-After of line 233 is enough: of the hits that were in the way of
\* a refused request, on any of its keys, fewer than the threshold are still
\* in the window the second after.
RetryAfterSuffices ==
  [][\A c \in Calls : verdict[c] = "none" /\ verdict'[c] = "refused" =>
       \A i \in KeyPosition(c) :
          LET k == KeyAt(c, i)
          IN  Cardinality({d \in windows'[k] : stamp[d] > retryAt'[c] - Window[k[1]]})
                < Threshold[k[1]]]_limitVars
=============================================================================
