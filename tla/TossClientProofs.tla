-------------------------- MODULE TossClientProofs --------------------------
(***************************************************************************)
(* Proofs about TossClient, for any number of retries, backoff, timeout,   *)
(* leeway, token lifetimes and pace.                                       *)
(***************************************************************************)
EXTENDS TossClient, TLAPS

Attempts == MaxRetries + 1

\* The requests one first attempt of both loops can lead to.
PerDispatch == Attempts * Attempts

InDispatch == pc \in {"send", "wait", "nap"}
Between == pc \in {"throttle", "token", "authThrottle"}

(***************************************************************************)
(* The inductive invariant.                                                *)
(***************************************************************************)
\* The types the properties depend on; the length of a nap is not one of them.
TypeInv ==
    /\ pc \in {"idle", "throttle", "token", "authThrottle", "send", "wait", "nap"}
    /\ op \in {"get", "health"}
    /\ target \in Groups
    /\ cache \in Token \cup {NoToken}
    /\ bearer \in Token \cup {NoToken}
    /\ outer \in 0..MaxRetries
    /\ inner \in 0..MaxRetries
    /\ refreshed \in BOOLEAN
    /\ elapsed \in 0..Timeout
    /\ requests \in Nat
    /\ outcome \in {"none", "ok", "unauthorized", "tokenRefused", "timeout", "server", "error"}

\* A health check reads no data, and starts without a token.
HealthInv ==
    op = "health" =>
        /\ ~refreshed /\ pc # "throttle"
        /\ InDispatch => target = "token"
        /\ pc = "token" => cache = NoToken

\* The requests of the dispatches a call has behind it.
Before == (IF refreshed THEN 2 * PerDispatch ELSE 0)
          + (IF op = "get" /\ target = "data" THEN PerDispatch ELSE 0)

\* Every attempt of either loop has sent one request.
CountInv ==
    /\ pc = "idle" => requests <= MaxRequests(op)
    /\ Between => requests <= IF refreshed THEN 2 * PerDispatch ELSE 0
    /\ InDispatch =>
          requests <= Before + (outer * Attempts) + inner + (IF pc = "wait" THEN 1 ELSE 0)

\* The client overrates a token by no more than a response can be late.
AgeInv == cache # NoToken => cache.left <= cache.atServer + Timeout

\* After a 401 the old token is gone until a new one is granted, and then used.
FreshInv ==
    /\ pc # "idle" => outcome = "none"
    /\ refreshed =>
          /\ Between \/ (InDispatch /\ target = "token") => cache = NoToken
          /\ InDispatch /\ target = "data" => bearer # NoToken /\ bearer.fresh
    /\ outcome = "unauthorized" => bearer # NoToken /\ bearer.fresh
    /\ op = "health" /\ outcome = "ok" => cache # NoToken /\ cache.fresh

ClientInv == TypeInv /\ HealthInv /\ CountInv /\ AgeInv /\ FreshInv

(***************************************************************************)
(* Arithmetic of the two nested loops.                                     *)
(***************************************************************************)
LEMMA BoundsAreNat ==
    MaxRetries \in Nat /\ Timeout \in Nat /\ Leeway \in Nat /\ 0 \in 0..MaxRetries /\ 0 \in 0..Timeout
<1>1. MaxRetries \in Nat /\ Timeout \in Nat /\ Leeway \in Nat
  BY ClientAssumption
<1> QED BY <1>1

LEMMA AttemptsAreNat == Attempts \in Nat /\ PerDispatch \in Nat /\ Attempts >= 1
  BY ClientAssumption DEF Attempts, PerDispatch

LEMMA LoopsFit ==
    ASSUME NEW o \in 0..MaxRetries, NEW i \in 0..MaxRetries
    PROVE  /\ o * Attempts \in Nat
           /\ (o + 1) * Attempts = o * Attempts + Attempts
           /\ o * Attempts + i + 1 <= (o + 1) * Attempts
           /\ o * Attempts + i + 1 <= PerDispatch
<1>1. o \in Nat /\ i \in Nat /\ o + 1 <= Attempts /\ i + 1 <= Attempts /\ Attempts \in Nat
  BY ClientAssumption DEF Attempts
<1>2. o * Attempts \in Nat /\ (o + 1) * Attempts = o * Attempts + Attempts
  BY <1>1
<1>3. \A a, b, n \in Nat : a <= b => a * n <= b * n
  OBVIOUS
<1>4. (o + 1) * Attempts <= PerDispatch
  BY <1>1, <1>3 DEF PerDispatch
<1> QED BY <1>1, <1>2, <1>4, AttemptsAreNat

LEMMA MaxRequestsIs ==
    MaxRequests("get") = 4 * PerDispatch /\ MaxRequests("health") = PerDispatch
  BY ClientAssumption DEF MaxRequests, PerDispatch, Attempts

LEMMA InitClient == Init => ClientInv
<1> SUFFICES ASSUME Init PROVE ClientInv
  OBVIOUS
<1>1. TypeInv
  BY BoundsAreNat DEF Init, TypeInv, Groups
<1>2. HealthInv /\ AgeInv /\ FreshInv
  BY DEF Init, HealthInv, AgeInv, FreshInv, InDispatch, Between
<1>3. CountInv
  BY MaxRequestsIs, AttemptsAreNat DEF Init, CountInv, InDispatch, Between
<1> QED BY <1>1, <1>2, <1>3 DEF ClientInv

LEMMA AgedToken ==
    ASSUME NEW t \in Token \cup {NoToken}
    PROVE  /\ Aged(t) \in Token \cup {NoToken}
           /\ Aged(t) = NoToken <=> t = NoToken
           /\ t # NoToken => /\ Aged(t).fresh = t.fresh
                             /\ t.left <= t.atServer + Timeout =>
                                  Aged(t).left <= Aged(t).atServer + Timeout
<1>1. CASE t = NoToken
  BY <1>1 DEF Aged
<1>2. CASE t # NoToken
  <2>1. t \in Token /\ Aged(t) = [left |-> Down(t.left), atServer |-> Down(t.atServer), fresh |-> t.fresh]
    BY <1>2 DEF Aged
  <2>2. Down(t.left) \in Nat /\ Down(t.atServer) \in Nat /\ t.left \in Nat /\ t.atServer \in Nat
    BY <2>1 DEF Token, Down
  <2>3. Aged(t) \in Token
    BY <2>1, <2>2 DEF Token
  <2>4. t.left <= t.atServer + Timeout => Down(t.left) <= Down(t.atServer) + Timeout
    BY <2>2, ClientAssumption DEF Down
  <2> QED BY <1>2, <2>1, <2>3, <2>4, NoTokenAssumption
<1> QED BY <1>1, <1>2

LEMMA TickClient == ASSUME ClientInv, Tick PROVE ClientInv'
<1> USE DEF ClientInv
<1>1. /\ cache' = Aged(cache) /\ bearer' = Aged(bearer)
      /\ UNCHANGED <<pc, op, target, outer, inner, refreshed, requests, outcome>>
  BY DEF Tick
<1>2. cache \in Token \cup {NoToken} /\ bearer \in Token \cup {NoToken}
  BY DEF TypeInv
<1>3. TypeInv'
  <2>1. elapsed' \in 0..Timeout
    BY ClientAssumption DEF TypeInv, Tick
  <2>2. cache' \in Token \cup {NoToken} /\ bearer' \in Token \cup {NoToken}
    BY <1>1, <1>2, AgedToken
  <2> QED BY <1>1, <2>1, <2>2 DEF TypeInv
<1>4. HealthInv' /\ AgeInv'
  BY <1>1, <1>2, AgedToken DEF HealthInv, InDispatch, AgeInv
<1>5. CountInv'
  BY <1>1 DEF CountInv, InDispatch, Between, Before, MaxRequests
<1>6. FreshInv'
  BY <1>1, <1>2, AgedToken DEF FreshInv, InDispatch, Between
<1> QED BY <1>3, <1>4, <1>5, <1>6

LEMMA StartClient == ASSUME ClientInv, StartGet \/ StartHealth PROVE ClientInv'
<1> USE DEF ClientInv
<1>1. /\ \/ pc' = "throttle" /\ op' = "get"
         \/ pc' = "token" /\ op' = "health" /\ cache' = NoToken
      /\ refreshed' = FALSE /\ requests' = 0 /\ outcome' = "none"
      /\ UNCHANGED <<target, bearer, outer, inner, elapsed>>
      /\ cache' = NoToken \/ cache' = Stale(cache)
  BY DEF StartGet, StartHealth, Start
<1>2. /\ cache' \in Token \cup {NoToken}
      /\ cache' # NoToken => /\ cache # NoToken
                             /\ cache'.left = cache.left /\ cache'.atServer = cache.atServer
  BY <1>1 DEF Stale, TypeInv, Token
<1>3. TypeInv'
  BY <1>1, <1>2 DEF TypeInv
<1>4. HealthInv' /\ FreshInv'
  BY <1>1 DEF HealthInv, FreshInv, InDispatch, Between
<1>5. AgeInv'
  BY <1>2 DEF AgeInv
<1>6. CountInv'
  BY <1>1, AttemptsAreNat DEF CountInv, InDispatch, Between
<1> QED BY <1>3, <1>4, <1>5, <1>6

(***************************************************************************)
(* The steps before a request leaves.                                      *)
(***************************************************************************)
LEMMA PrepareClient ==
    ASSUME ClientInv, Throttle \/ NeedToken \/ UseCached \/ AuthThrottle PROVE ClientInv'
<1> USE DEF ClientInv
<1>1. /\ UNCHANGED <<op, cache, refreshed, elapsed, requests, outcome>>
      /\ Between
  BY DEF Throttle, NeedToken, UseCached, AuthThrottle, Between
<1>2. CASE Throttle \/ NeedToken
  <2>1. /\ UNCHANGED <<target, bearer, outer, inner>>
        /\ \/ pc = "throttle" /\ pc' = "token"
           \/ pc = "token" /\ pc' = "authThrottle"
    BY <1>2 DEF Throttle, NeedToken
  <2>2. TypeInv'
    BY <1>1, <2>1 DEF TypeInv
  <2>3. HealthInv' /\ AgeInv' /\ FreshInv'
    BY <1>1, <2>1 DEF HealthInv, AgeInv, FreshInv, InDispatch, Between
  <2>4. CountInv'
    BY <1>1, <2>1 DEF CountInv, InDispatch, Between
  <2> QED BY <2>2, <2>3, <2>4
<1>3. CASE UseCached \/ AuthThrottle
  <2>1. /\ pc' = "send" /\ outer' = 0 /\ inner' = 0
        /\ \/ target' = "token" /\ bearer' = bearer
           \/ target' = "data" /\ bearer' = cache /\ pc = "token" /\ cache # NoToken
    BY <1>3 DEF UseCached, AuthThrottle, Dispatch, MustFetch
  <2>2. TypeInv'
    BY <1>1, <2>1, BoundsAreNat DEF TypeInv, Groups
  <2>3. HealthInv' /\ AgeInv' /\ FreshInv'
    BY <1>1, <2>1 DEF HealthInv, AgeInv, FreshInv, InDispatch, Between
  <2>4. CountInv'
    BY <1>1, <2>1, AttemptsAreNat DEF CountInv, InDispatch, Between, Before, TypeInv
  <2> QED BY <2>2, <2>3, <2>4
<1> QED BY <1>2, <1>3

LEMMA SendClient == ASSUME ClientInv, Send \/ Wake PROVE ClientInv'
<1> USE DEF ClientInv
<1>1. UNCHANGED <<op, target, cache, bearer, outer, inner, refreshed, outcome>> /\ InDispatch /\ InDispatch'
  BY DEF Send, Wake, InDispatch
<1>2. pc # "wait" /\ requests' \in Nat /\ requests' <= requests + (IF pc' = "wait" THEN 1 ELSE 0)
  BY ClientAssumption DEF Send, Wake, Lesser, TypeInv, TooMany, MaxRequests
<1>3. elapsed' \in 0..Timeout /\ pc' \in {"send", "wait"}
  BY ClientAssumption DEF Send, Wake, TypeInv
<1>4. TypeInv'
  BY <1>1, <1>2, <1>3 DEF TypeInv
<1>5. HealthInv' /\ AgeInv' /\ FreshInv'
  BY <1>1 DEF HealthInv, AgeInv, FreshInv, InDispatch, Between
<1>6. CountInv'
  <2>1. requests <= Before + (outer * Attempts) + inner
    <3>1. requests <= Before + (outer * Attempts) + inner + 0
      BY <1>1, <1>2 DEF CountInv
    <3>2. Before \in Nat /\ outer * Attempts \in Nat /\ inner \in Nat
      BY LoopsFit, AttemptsAreNat DEF Before, TypeInv
    <3> QED BY <3>1, <3>2
  <2>2. Before' = Before /\ Before \in Nat /\ outer * Attempts \in Nat /\ inner \in Nat
    BY <1>1, LoopsFit, AttemptsAreNat DEF Before, TypeInv
  <2>3. requests' <= Before + (outer * Attempts) + inner + (IF pc' = "wait" THEN 1 ELSE 0)
    BY <1>2, <2>1, <2>2 DEF TypeInv
  <2> QED BY <1>1, <2>2, <2>3 DEF CountInv, InDispatch, Between
<1> QED BY <1>4, <1>5, <1>6

(***************************************************************************)
(* The ends of a request.                                                  *)
(***************************************************************************)
LEMMA WaitBounds ==
    ASSUME ClientInv, pc = "wait"
    PROVE  /\ requests <= Before + (outer * Attempts) + inner + 1
           /\ requests <= Before + PerDispatch
           /\ requests <= MaxRequests(op)
           /\ Before \in Nat /\ outer * Attempts \in Nat /\ PerDispatch \in Nat
           /\ op = "health" => Before = 0
<1>1. /\ requests <= Before + (outer * Attempts) + inner + 1
      /\ outer \in 0..MaxRetries /\ inner \in 0..MaxRetries /\ requests \in Nat
      /\ refreshed \in BOOLEAN /\ op \in {"get", "health"}
  BY DEF ClientInv, CountInv, InDispatch, TypeInv
<1>2. Before \in Nat /\ Before <= 3 * PerDispatch /\ PerDispatch \in Nat
  BY <1>1, AttemptsAreNat DEF Before
<1>3. op = "health" => Before = 0
  BY DEF ClientInv, HealthInv, InDispatch, Before
<1>4. outer * Attempts \in Nat /\ outer * Attempts + inner + 1 <= PerDispatch
  BY <1>1, LoopsFit
<1>5. requests <= Before + PerDispatch
  BY <1>1, <1>2, <1>4
<1> QED BY <1>1, <1>2, <1>3, <1>4, <1>5, MaxRequestsIs

LEMMA EndClient ==
    ASSUME ClientInv, pc = "wait", pc' = "idle",
           UNCHANGED <<op, target, cache, bearer, outer, inner, refreshed, elapsed, requests>>,
           outcome' \in {"ok", "unauthorized", "tokenRefused", "timeout", "server", "error"},
           outcome' = "unauthorized" => refreshed /\ target = "data",
           outcome' = "ok" => op = "get"
    PROVE  ClientInv'
<1>1. TypeInv'
  BY DEF ClientInv, TypeInv
<1>2. HealthInv' /\ AgeInv'
  BY DEF ClientInv, HealthInv, AgeInv, InDispatch
<1>3. CountInv'
  BY WaitBounds DEF CountInv, InDispatch, Between
<1>4. FreshInv'
  BY DEF ClientInv, TypeInv, FreshInv, InDispatch, Between
<1> QED BY <1>1, <1>2, <1>3, <1>4 DEF ClientInv

LEMMA RetryClient ==
    ASSUME ClientInv, pc = "wait", pc' = "nap",
           UNCHANGED <<op, target, cache, bearer, refreshed, elapsed, requests, outcome>>,
           \/ inner < MaxRetries /\ inner' = inner + 1 /\ outer' = outer
           \/ outer < MaxRetries /\ outer' = outer + 1 /\ inner' = 0
    PROVE  ClientInv'
<1>1. TypeInv'
  BY ClientAssumption DEF ClientInv, TypeInv
<1>2. HealthInv' /\ AgeInv' /\ FreshInv'
  BY DEF ClientInv, HealthInv, AgeInv, FreshInv, InDispatch, Between
<1>3. CountInv'
  <2>1. outer \in 0..MaxRetries /\ inner \in 0..MaxRetries /\ requests \in Nat
    BY DEF ClientInv, TypeInv
  <2>2. requests <= Before + (outer * Attempts) + inner + 1 /\ Before \in Nat
    BY WaitBounds
  <2>3. outer * Attempts + inner + 1 <= (outer + 1) * Attempts /\ (outer + 1) * Attempts \in Nat
        /\ outer * Attempts \in Nat
    BY <2>1, LoopsFit, AttemptsAreNat
  <2>4. requests <= Before + (outer' * Attempts) + inner'
    <3>1. CASE inner' = inner + 1 /\ outer' = outer
      BY <2>1, <2>2, <2>3, <3>1
    <3>2. CASE outer' = outer + 1 /\ inner' = 0
      <4>1. requests <= Before + (outer + 1) * Attempts
        BY <2>1, <2>2, <2>3
      <4> QED BY <2>2, <2>3, <3>2, <4>1
    <3> QED BY <3>1, <3>2
  <2>5. Before' = Before
    BY DEF Before
  <2>6. /\ ~ (pc' = "idle" \/ Between') /\ pc' # "wait"
        /\ Attempts' = Attempts /\ requests' = requests
    BY DEF Between, Attempts
  <2>7. requests' <= Before' + (outer' * Attempts) + inner' + 0
    <3>1. Before + (outer' * Attempts) + inner' \in Nat
      BY <1>1, <2>2, LoopsFit DEF TypeInv
    <3> QED BY <2>4, <2>5, <2>6, <3>1
  <2> QED BY <2>6, <2>7 DEF CountInv
<1> QED BY <1>1, <1>2, <1>3 DEF ClientInv

LEMMA UnauthorizedClient == ASSUME ClientInv, Unauthorized PROVE ClientInv'
<1>1. CASE refreshed
  BY <1>1, EndClient DEF Unauthorized, End
<1>2. CASE ~refreshed
  <2>1. /\ pc = "wait" /\ target = "data" /\ pc' = "throttle" /\ cache' = NoToken /\ refreshed' = TRUE
        /\ UNCHANGED <<op, target, bearer, outer, inner, elapsed, requests, outcome>>
    BY <1>2 DEF Unauthorized
  <2>2. op = "get"
    BY <2>1 DEF ClientInv, HealthInv, InDispatch, TypeInv
  <2>3. TypeInv'
    BY <2>1 DEF ClientInv, TypeInv
  <2>4. HealthInv' /\ AgeInv' /\ FreshInv'
    BY <2>1, <2>2 DEF ClientInv, HealthInv, AgeInv, FreshInv, InDispatch, Between
  <2>5. CountInv'
    <3>1. requests <= Before + PerDispatch /\ Before = 0 + PerDispatch /\ PerDispatch \in Nat
      BY <1>2, <2>1, <2>2, WaitBounds DEF Before
    <3>2. requests' <= 2 * PerDispatch
      BY <2>1, <3>1 DEF ClientInv, TypeInv
    <3> QED BY <2>1, <3>2 DEF CountInv, InDispatch, Between, PerDispatch, Attempts
  <2> QED BY <2>3, <2>4, <2>5 DEF ClientInv
<1> QED BY <1>1, <1>2

LEMMA GrantedClient == ASSUME ClientInv, Granted PROVE ClientInv'
<1>1. PICK life \in Lifetimes, late \in 0..elapsed :
         cache' = [left |-> life, atServer |-> life - late, fresh |-> TRUE]
  BY DEF Granted
<1>2. life \in Nat /\ life - late \in Nat /\ late \in Nat /\ late <= Timeout /\ Timeout \in Nat
  <2>1. life \in Nat /\ Timeout < life /\ late \in Nat /\ late <= Timeout
    BY BoundsAreNat, ClientAssumption DEF ClientInv, TypeInv
  <2> QED BY <2>1, BoundsAreNat
<1>3. cache' \in Token /\ cache' # NoToken /\ cache'.fresh /\ cache'.left <= cache'.atServer + Timeout
  <2>1. cache' \in Token
    BY <1>1, <1>2 DEF Token
  <2>2. cache'.left = life /\ cache'.atServer = life - late /\ cache'.fresh
    BY <1>1
  <2> QED BY <1>2, <2>1, <2>2, NoTokenAssumption
<1>4. pc = "wait" /\ target = "token" /\ UNCHANGED <<op, refreshed, elapsed, requests>>
  BY DEF Granted
<1>5. AgeInv'
  BY <1>3 DEF AgeInv
<1>6. CASE op = "health"
  <2>1. pc' = "idle" /\ outcome' = "ok" /\ UNCHANGED <<target, bearer, outer, inner>>
    BY <1>6 DEF Granted, End
  <2>2. TypeInv'
    BY <1>3, <1>4, <2>1 DEF ClientInv, TypeInv
  <2>3. HealthInv' /\ FreshInv'
    BY <1>3, <1>4, <1>6, <2>1 DEF ClientInv, HealthInv, FreshInv, InDispatch, Between
  <2>4. CountInv'
    BY <1>4, <2>1, WaitBounds DEF CountInv, InDispatch, Between
  <2> QED BY <1>5, <2>2, <2>3, <2>4 DEF ClientInv
<1>7. CASE op = "get"
  <2>1. /\ bearer' = cache' /\ pc' = "send" /\ target' = "data" /\ outer' = 0 /\ inner' = 0
        /\ outcome' = outcome
    BY <1>7 DEF Granted, Dispatch
  <2>2. TypeInv'
    BY <1>3, <1>4, <2>1, BoundsAreNat DEF ClientInv, TypeInv, Groups
  <2>3. HealthInv' /\ FreshInv'
    BY <1>3, <1>4, <1>7, <2>1 DEF ClientInv, HealthInv, FreshInv, InDispatch, Between
  <2>4. CountInv'
    <3>1. /\ requests <= Before + PerDispatch /\ Before = (IF refreshed THEN 2 * PerDispatch ELSE 0)
          /\ PerDispatch \in Nat
      BY <1>4, WaitBounds, AttemptsAreNat DEF Before
    <3>2. Before' = (IF refreshed THEN 2 * PerDispatch ELSE 0) + PerDispatch
      BY <1>4, <1>7, <2>1 DEF Before
    <3>3. outer' * Attempts = 0
      BY <2>1, AttemptsAreNat
    <3>4. requests' <= Before' + (outer' * Attempts) + inner' + 0
      BY <1>4, <2>1, <3>1, <3>2, <3>3 DEF ClientInv, TypeInv
    <3> QED BY <2>1, <3>4 DEF CountInv, InDispatch, Between
  <2> QED BY <1>5, <2>2, <2>3, <2>4 DEF ClientInv
<1> QED BY <1>6, <1>7 DEF ClientInv, TypeInv

LEMMA NextClient == ClientInv /\ [Next]_vars => ClientInv'
<1> SUFFICES ASSUME ClientInv, [Next]_vars PROVE ClientInv'
  OBVIOUS
<1>1. CASE UNCHANGED vars
  <2> USE <1>1 DEF ClientInv, vars
  <2>1. TypeInv'
    BY DEF TypeInv
  <2>2. HealthInv' /\ AgeInv' /\ FreshInv'
    BY DEF HealthInv, AgeInv, FreshInv, InDispatch, Between
  <2>3. CountInv'
    BY DEF CountInv, InDispatch, Between, Before, MaxRequests
  <2> QED BY <2>1, <2>2, <2>3
<1>2. CASE TimedOut \/ Retryable
  <2>1. \/ pc' = "idle" /\ outcome' \in {"timeout", "server", "error"} /\ UNCHANGED <<outer, inner>>
        \/ /\ pc' = "nap" /\ outcome' = outcome
           /\ \/ inner < MaxRetries /\ inner' = inner + 1 /\ outer' = outer
              \/ outer < MaxRetries /\ outer' = outer + 1 /\ inner' = 0
    BY <1>2 DEF TimedOut, Retryable, End, Sleep
  <2>2. pc = "wait" /\ UNCHANGED <<op, target, cache, bearer, refreshed, elapsed, requests>>
    BY <1>2 DEF TimedOut, Retryable
  <2> QED BY <2>1, <2>2, EndClient, RetryClient
<1>3. CASE Refused
  BY <1>3, EndClient DEF Refused, End
<1>4. CASE Answered
  <2>1. op = "get"
    BY <1>4 DEF Answered, ClientInv, HealthInv, InDispatch, TypeInv
  <2> QED BY <1>4, <2>1, EndClient DEF Answered, End
<1> QED BY <1>1, <1>2, <1>3, <1>4, TickClient, StartClient, PrepareClient, SendClient,
           UnauthorizedClient, GrantedClient DEF Next, Step

LEMMA ClientInvariant == Spec => []ClientInv
  BY InitClient, NextClient, PTL DEF Spec

(***************************************************************************)
(* The nested retries and the refresh after a 401 multiply to no more than *)
(* (MaxRetries + 1)^2 requests per token fetched and per _send.            *)
(***************************************************************************)
THEOREM RequestsAreBounded == Spec => []RequestsBounded
<1>1. ClientInv => RequestsBounded
  <2> SUFFICES ASSUME ClientInv PROVE requests <= MaxRequests(op)
    BY DEF RequestsBounded
  <2>1. CASE pc = "idle"
    BY <2>1 DEF ClientInv, CountInv
  <2>2. CASE Between
    BY <2>2, MaxRequestsIs, AttemptsAreNat DEF ClientInv, CountInv, TypeInv, HealthInv
  <2>3. CASE InDispatch
    <3>1. /\ requests <= Before + (outer * Attempts) + inner + 1
          /\ Before \in Nat /\ Before <= 3 * PerDispatch /\ (op = "health" => Before = 0)
      <4>1. Before \in Nat /\ Before <= 3 * PerDispatch /\ (op = "health" => Before = 0)
        BY <2>3, AttemptsAreNat DEF Before, ClientInv, HealthInv, TypeInv
      <4>2. outer * Attempts \in Nat /\ inner \in Nat /\ requests \in Nat
        BY LoopsFit DEF ClientInv, TypeInv
      <4> QED BY <2>3, <4>1, <4>2 DEF ClientInv, CountInv
    <3>2. outer * Attempts + inner + 1 <= PerDispatch /\ outer * Attempts \in Nat
      BY LoopsFit DEF ClientInv, TypeInv
    <3> QED BY <3>1, <3>2, MaxRequestsIs, AttemptsAreNat DEF ClientInv, TypeInv
  <2> QED BY <2>1, <2>2, <2>3 DEF ClientInv, TypeInv, InDispatch, Between
<1> QED BY <1>1, ClientInvariant, PTL

(***************************************************************************)
(* A cached token that get_valid_token hands out is good at the server,    *)
(* however late the response that brought it was.                          *)
(***************************************************************************)
THEOREM CachedTokensAreGood == Spec => []CachedTokenIsGood
<1>1. ClientInv => CachedTokenIsGood
  <2> SUFFICES ASSUME ClientInv, ~MustFetch PROVE cache.atServer > 0
    BY DEF CachedTokenIsGood
  <2>1. cache \in Token /\ cache.left > Leeway /\ cache.left <= cache.atServer + Timeout
    BY ClientAssumption DEF MustFetch, Expiring, ClientInv, TypeInv, AgeInv, Token
  <2> QED BY <2>1, ClientAssumption DEF Token
<1> QED BY <1>1, ClientInvariant, PTL

(***************************************************************************)
(* "unauthorized" and a healthy "ok" are about a token issued during the   *)
(* call that reports them.                                                 *)
(***************************************************************************)
THEOREM VerdictsStayFresh == Spec => []VerdictsAreFresh
<1>1. ClientInv => VerdictsAreFresh
  BY DEF ClientInv, FreshInv, VerdictsAreFresh
<1> QED BY <1>1, ClientInvariant, PTL
=============================================================================
