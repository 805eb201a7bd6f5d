----------------------------- MODULE TossClient -----------------------------
(***************************************************************************)
(* One TossRestClient.get, or one check_auth_health, at a time: pacing by  *)
(* GroupThrottle, the token cached by TossOAuthClient, requests retried on *)
(* 429/5xx by send_with_status_retry and, inside each of those attempts,   *)
(* on timeouts by BaseApiClient, and one refresh after a 401.              *)
(*                                                                         *)
(* Time is kept as ages and remaining times, capped where nothing depends  *)
(* on them any more, so the state space is finite without a last instant.  *)
(***************************************************************************)
EXTENDS Naturals

CONSTANTS
    MaxRetries,     \* max_retries of both retry loops
    BackoffBase,    \* backoff_base_seconds; backoff_multiplier is 2
    Timeout,        \* the longest a request is waited for, see below
    MaxRetryAfter,  \* bound on the Retry-After of a 429
    Leeway,         \* expiry_leeway_seconds
    Lifetimes,      \* the expires_in values the server may grant
    AuthInterval,   \* 1 / tps of the AUTH group
    DataInterval,   \* 1 / tps of the group of the path that is read
    NoToken

\* httpx applies timeout_seconds to connecting, to writing and to each read, so a
\* request with one read takes up to three times that: 30 seconds of 30 by default.
ASSUME ClientAssumption ==
    /\ {MaxRetries, BackoffBase, Timeout, MaxRetryAfter, Leeway, AuthInterval, DataInterval} \subseteq Nat
    /\ Lifetimes \subseteq Nat \ {0}
    /\ Timeout <= Leeway
    /\ \A l \in Lifetimes : Timeout < l         \* expires_in outlasts one request

VARIABLES
    pc,         \* where the call is
    op,         \* "get" or "health"
    target,     \* what the HTTP request under way is for: "token" or "data"
    cache,      \* _cached_token, or NoToken
    bearer,     \* the token in the headers of the data request
    waited,     \* waited[g]: time since _last_call_at[g], capped at the interval
    quiet,      \* quiet[g]: time since a request of the group was sent, capped
    outer,      \* attempt of send_with_status_retry
    inner,      \* attempt of BaseApiClient.request
    refreshed,  \* whether this get has had its 401
    elapsed,    \* time since the request under way was sent
    nap,        \* remaining sleep before the next attempt
    requests,   \* HTTP requests sent by this call
    outcome     \* how the last call ended, "none" while there is none

Lesser(a, b) == IF a <= b THEN a ELSE b

vars == <<pc, op, target, cache, bearer, waited, quiet, outer, inner, refreshed,
          elapsed, nap, requests, outcome>>

Groups == {"token", "data"}
Interval == [g \in Groups |-> IF g = "token" THEN AuthInterval ELSE DataInterval]

\* What the client believes is left of a token, what is left at the server, and
\* whether it was issued during the call under way.
Token == [left : Nat, atServer : Nat, fresh : BOOLEAN]

ASSUME NoTokenAssumption == NoToken \notin Token

\* A request per attempt of either retry loop, for each fetch of a token and each
\* _send; a get has two of both, a health check one fetch.
MaxRequests(o) == (IF o = "get" THEN 4 ELSE 1) * (MaxRetries + 1) * (MaxRetries + 1)
TooMany == MaxRequests("get") + 1       \* requests is counted no further

TypeOK ==
    /\ pc \in {"idle", "throttle", "token", "authThrottle", "send", "wait", "nap"}
    /\ op \in {"get", "health"}
    /\ target \in Groups
    /\ cache \in Token \cup {NoToken}
    /\ bearer \in Token \cup {NoToken}
    /\ waited \in [Groups -> Nat] /\ \A g \in Groups : waited[g] <= Interval[g]
    /\ quiet \in [Groups -> Nat] /\ \A g \in Groups : quiet[g] <= Interval[g]
    /\ outer \in 0..MaxRetries
    /\ inner \in 0..MaxRetries
    /\ refreshed \in BOOLEAN
    /\ elapsed \in 0..Timeout
    /\ nap \in Nat
    /\ requests \in 0..TooMany
    /\ outcome \in {"none", "ok", "unauthorized", "tokenRefused", "timeout", "server", "error"}

Init ==
    /\ pc = "idle"
    /\ op = "get"
    /\ target = "data"
    /\ cache = NoToken
    /\ bearer = NoToken
    /\ waited = Interval            \* no call yet: nothing to wait for
    /\ quiet = Interval
    /\ outer = 0
    /\ inner = 0
    /\ refreshed = FALSE
    /\ elapsed = 0
    /\ nap = 0
    /\ requests = 0
    /\ outcome = "none"

-----------------------------------------------------------------------------
Down(n) == IF n = 0 THEN 0 ELSE n - 1

Aged(t) ==
    IF t = NoToken THEN NoToken
    ELSE [left |-> Down(t.left), atServer |-> Down(t.atServer), fresh |-> t.fresh]

\* Time passes anywhere, but a request is not waited for longer than its timeout.
Tick ==
    /\ pc = "wait" => elapsed < Timeout
    /\ cache' = Aged(cache)
    /\ bearer' = Aged(bearer)
    /\ waited' = [g \in Groups |-> Lesser(waited[g] + 1, Interval[g])]
    /\ quiet' = [g \in Groups |-> Lesser(quiet[g] + 1, Interval[g])]
    /\ elapsed' = IF pc = "wait" THEN elapsed + 1 ELSE elapsed
    /\ nap' = Down(nap)
    /\ UNCHANGED <<pc, op, target, outer, inner, refreshed, requests, outcome>>

Stale(t) == IF t = NoToken THEN NoToken ELSE [t EXCEPT !.fresh = FALSE]

Start(o) ==
    /\ pc = "idle"
    /\ op' = o
    /\ refreshed' = FALSE
    /\ requests' = 0
    /\ outcome' = "none"
    /\ UNCHANGED <<target, bearer, waited, quiet, outer, inner, elapsed, nap>>

\* TossRestClient.get up to the throttle of its first _send.
StartGet ==
    /\ Start("get")
    /\ pc' = "throttle"
    /\ cache' = Stale(cache)

\* Mutant: the health check trusts the cached token.
StartHealthCached ==
    /\ Start("health")
    /\ pc' = "token"
    /\ cache' = Stale(cache)

\* check_auth_health drops the cached token first.
StartHealth ==
    /\ Start("health")
    /\ pc' = "token"
    /\ cache' = NoToken

\* GroupThrottle.wait: sleeps what remains of the interval, then notes the time.
Pass(g) ==
    /\ waited[g] = Interval[g]
    /\ waited' = [waited EXCEPT ![g] = 0]

\* _send paces the data request before it asks for the token.
Throttle ==
    /\ pc = "throttle"
    /\ Pass("data")
    /\ pc' = "token"
    /\ UNCHANGED <<op, target, cache, bearer, quiet, outer, inner, refreshed, elapsed, nap,
                   requests, outcome>>

\* Mutant: no leeway.
ExpiringLate(t) == t.left = 0

Expiring(t) == t.left <= Leeway

\* get_valid_token has to fetch.
MustFetch == IF cache = NoToken THEN TRUE ELSE Expiring(cache)

\* A first attempt of both retry loops.
Dispatch(t) == pc' = "send" /\ target' = t /\ outer' = 0 /\ inner' = 0

\* get_valid_token finds a token that is good for the leeway.
UseCached ==
    /\ pc = "token"
    /\ ~MustFetch
    /\ bearer' = cache
    /\ Dispatch("data")
    /\ UNCHANGED <<op, cache, waited, quiet, refreshed, elapsed, nap, requests, outcome>>

\* Otherwise it fetches one, at the pace of the AUTH group.
NeedToken ==
    /\ pc = "token"
    /\ MustFetch
    /\ pc' = "authThrottle"
    /\ UNCHANGED <<op, target, cache, bearer, waited, quiet, outer, inner, refreshed, elapsed,
                   nap, requests, outcome>>

AuthThrottle ==
    /\ pc = "authThrottle"
    /\ Pass("token")
    /\ Dispatch("token")
    /\ UNCHANGED <<op, cache, bearer, quiet, refreshed, elapsed, nap, requests, outcome>>

\* One HTTP request leaves.
Send ==
    /\ pc = "send"
    /\ pc' = "wait"
    /\ elapsed' = 0
    /\ quiet' = [quiet EXCEPT ![target] = 0]
    /\ requests' = Lesser(requests + 1, TooMany)
    /\ UNCHANGED <<op, target, cache, bearer, waited, outer, inner, refreshed, nap, outcome>>

End(how) == pc' = "idle" /\ outcome' = how

Sleep(n) == pc' = "nap" /\ nap' = n

\* httpx raises a timeout or another transport error; BaseApiClient tries again.
TimedOut ==
    /\ pc = "wait"
    /\ IF inner < MaxRetries
       THEN /\ inner' = inner + 1
            /\ Sleep(BackoffBase * 2^inner)
            /\ UNCHANGED outcome
       ELSE End("timeout") /\ UNCHANGED <<inner, nap>>
    /\ UNCHANGED <<op, target, cache, bearer, waited, quiet, outer, refreshed, elapsed, requests>>

\* 429 or 5xx; a 429 may carry a Retry-After of its own, which is any float: time.sleep
\* raises at a negative one, nan or inf, and the call ends there.
Retryable ==
    /\ pc = "wait"
    /\ IF outer < MaxRetries
       THEN \/ /\ outer' = outer + 1
               /\ inner' = 0
               /\ Sleep(BackoffBase * 2^outer) \/ \E n \in 0..MaxRetryAfter : Sleep(n)
               /\ UNCHANGED outcome
            \/ End("error") /\ UNCHANGED <<outer, inner, nap>>
       ELSE End("server") /\ UNCHANGED <<outer, inner, nap>>
    /\ UNCHANGED <<op, target, cache, bearer, waited, quiet, refreshed, elapsed, requests>>

Wake ==
    /\ pc = "nap"
    /\ nap = 0
    /\ pc' = "send"
    /\ UNCHANGED <<op, target, cache, bearer, waited, quiet, outer, inner, refreshed, elapsed,
                   nap, requests, outcome>>

\* Mutant: a 401 refreshes the token as often as it comes.
UnauthorizedAgain ==
    /\ pc = "wait"
    /\ target = "data"
    /\ cache' = NoToken
    /\ pc' = "throttle"
    /\ UNCHANGED <<op, target, bearer, waited, quiet, outer, inner, refreshed, elapsed, nap,
                   requests, outcome>>

\* The data request is refused: the token has expired, or the server revoked it.
\* The first time, the token is dropped and _send runs once more.
Unauthorized ==
    /\ pc = "wait"
    /\ target = "data"
    /\ IF refreshed
       THEN End("unauthorized") /\ UNCHANGED <<cache, refreshed>>
       ELSE /\ cache' = NoToken
            /\ refreshed' = TRUE
            /\ pc' = "throttle"
            /\ UNCHANGED outcome
    /\ UNCHANGED <<op, target, bearer, waited, quiet, outer, inner, elapsed, nap, requests>>

\* Any other status raises, and so does a 2xx body that cannot be parsed.
Refused ==
    /\ pc = "wait"
    /\ End(IF target = "token" THEN "tokenRefused" ELSE "error")
    /\ UNCHANGED <<op, target, cache, bearer, waited, quiet, outer, inner, refreshed, elapsed,
                   nap, requests>>

\* The token's life counts from when the server issued it, at some moment since the
\* request left; the client counts from the moment the response is there.
Granted ==
    /\ pc = "wait"
    /\ target = "token"
    /\ \E life \in Lifetimes, late \in 0..elapsed :
          cache' = [left |-> life, atServer |-> life - late, fresh |-> TRUE]
    /\ IF op = "health"
       THEN End("ok") /\ UNCHANGED <<target, bearer, outer, inner>>
       ELSE bearer' = cache' /\ Dispatch("data") /\ UNCHANGED outcome
    /\ UNCHANGED <<op, waited, quiet, refreshed, elapsed, nap, requests>>

\* A data response; an expired token does not get one.
Answered ==
    /\ pc = "wait"
    /\ target = "data"
    /\ bearer.atServer > 0
    /\ End("ok")
    /\ UNCHANGED <<op, target, cache, bearer, waited, quiet, outer, inner, refreshed, elapsed,
                   nap, requests>>

Step ==
    \/ Throttle \/ UseCached \/ NeedToken \/ AuthThrottle \/ Send \/ Wake
    \/ TimedOut \/ Retryable \/ Unauthorized \/ Refused \/ Granted \/ Answered

Next == Tick \/ StartGet \/ StartHealth \/ Step

\* sleep_fn returns and httpx answers or times out; when a call starts is up to the caller.
Spec == Init /\ [][Next]_vars /\ WF_vars(Tick) /\ WF_vars(Step)

-----------------------------------------------------------------------------
(***************************************************************************)
(* A cached token that get_valid_token hands out is still good at the      *)
(* server: the leeway covers the time its response took to arrive.         *)
(***************************************************************************)
CachedTokenIsGood ==
    pc = "token" /\ ~MustFetch => cache.atServer > 0

(***************************************************************************)
(* A get that ends unauthorized was refused with a token issued during the *)
(* call, and a health check that reports ok has fetched one: neither says  *)
(* anything about a token left over from an earlier call.                  *)
(***************************************************************************)
VerdictsAreFresh ==
    /\ outcome = "unauthorized" => bearer.fresh
    /\ op = "health" /\ outcome = "ok" => cache # NoToken /\ cache.fresh

(***************************************************************************)
(* However retries, timeouts and the refresh combine, a call sends no more *)
(* than (MaxRetries + 1)^2 requests per token and per _send.               *)
(***************************************************************************)
RequestsBounded == requests <= MaxRequests(op)

(***************************************************************************)
(* The nested retries and the refresh end: every call returns or raises.   *)
(***************************************************************************)
CallsEnd == pc # "idle" ~> pc = "idle"

(***************************************************************************)
(* app/toss/rate_limit.py:43-44: consecutive calls in the same group are   *)
(* kept an interval apart - here, the requests of a group as they leave.   *)
(***************************************************************************)
SendsArePaced ==
    [][pc = "send" /\ pc' = "wait" => quiet[target] = Interval[target]]_vars
=============================================================================
