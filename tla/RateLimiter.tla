---------------------------- MODULE RateLimiter ----------------------------
(***************************************************************************)
(* The per-caller token bucket of internal/httpapi/ops.go, as              *)
(* RateLimitMiddleware uses it: a request reads the clock, and only then   *)
(* takes the limiter's mutex, so requests reach the bucket in another      *)
(* order than they read the clock.                                         *)
(*                                                                         *)
(* Time is counted in ticks and tokens in parts: a token is Unit parts and *)
(* Rate parts are refilled per tick (milliseconds, 60000 parts and         *)
(* requests_per_minute in the code, whose float64 arithmetic is taken to   *)
(* be exact).                                                              *)
(***************************************************************************)
EXTENDS Integers

CONSTANTS Key,      \* rate limit keys: auth subjects or addresses
          Req,      \* concurrent requests
          Unit,     \* parts of a token
          Rate,     \* parts refilled per tick
          Burst,    \* tokens a bucket holds
          MaxTime,  \* bound on the clock
          None

ASSUME RateAssumption ==
  /\ Unit \in Nat \ {0} /\ Rate \in Nat \ {0} /\ Burst \in Nat \ {0}
  /\ MaxTime \in Nat
  /\ None \notin [tokens: Int, last: Nat]

VARIABLES now,      \* the clock
          bucket,   \* per key: tokens and the time of the last refill, or None
          request,  \* per request: its key and the time it read, or its decision
          since,    \* per key: the refill at which an observer began to count,
          granted   \* and the requests allowed from then on

vars == <<now, bucket, request, since, granted>>

Bucket == [tokens: Int, last: Nat]

(* normalizeRateLimitConfig refuses a rate below one and replaces a burst   *)
(* below one by a default of at least one.                                  *)
Init == /\ now = 0
        /\ bucket = [k \in Key |-> None]
        /\ request = [q \in Req |-> [pc |-> "idle"]]
        /\ since = [k \in Key |-> 0]
        /\ granted = [k \in Key |-> 0]

Tick == /\ now < MaxTime
        /\ now' = now + 1
        /\ UNCHANGED <<bucket, request, since, granted>>

(* RateLimitMiddleware evaluates time.Now() for the call of allow.          *)
ReadClock(q, k) ==
  /\ request[q].pc # "stamped"
  /\ request' = [request EXCEPT ![q] = [pc |-> "stamped", key |-> k, at |-> now]]
  /\ UNCHANGED <<now, bucket, since, granted>>

MinOf(a, b) == IF a < b THEN a ELSE b

(* Mutant: the refill is not remembered, so the same time refills again.    *)
RefilledAgain(b, t) ==
  IF t > b.last
  THEN [b EXCEPT !.tokens = MinOf(Burst * Unit, b.tokens + (t - b.last) * Rate)]
  ELSE b

(* allow, first half: a new bucket is full; time that passed refills it.    *)
Refilled(b, t) ==
  IF t > b.last
  THEN [tokens |-> MinOf(Burst * Unit, b.tokens + (t - b.last) * Rate), last |-> t]
  ELSE b

Found(k, t) ==
  IF bucket[k] = None THEN [tokens |-> Burst * Unit, last |-> t] ELSE bucket[k]

(* Mutant: any remainder of a token is enough.                              *)
HasTokenPart(b) == b.tokens > 0

HasToken(b) == b.tokens >= Unit

(* Mutant: the wait is rounded down.                                        *)
ResetAfterFloor(tokens) ==
  IF tokens >= Unit THEN 0 ELSE (Unit - tokens) \div Rate

(* resetAfter: the ticks until one token is there, rounded up.              *)
ResetAfter(tokens) ==
  IF tokens >= Unit THEN 0 ELSE (Unit - tokens + Rate - 1) \div Rate

(* allow, under the mutex.                                                  *)
Allow(q) ==
  LET k == request[q].key
      b == Refilled(Found(k, request[q].at), request[q].at)
      left == IF HasToken(b) THEN b.tokens - Unit ELSE b.tokens
  IN
  /\ request[q].pc = "stamped"
  /\ bucket' = [bucket EXCEPT ![k] = [tokens |-> left, last |-> b.last]]
  /\ request' = [request EXCEPT ![q] =
       [pc |-> "decided", allowed |-> HasToken(b), tokens |-> left,
        reset |-> ResetAfter(left)]]
  /\ granted' = [granted EXCEPT ![k] = IF HasToken(b) THEN @ + 1 ELSE @]
  /\ since' = [since EXCEPT ![k] = IF bucket[k] = None THEN b.last ELSE @]
  /\ UNCHANGED now

(* An observer starts to count anew at the last refill.                     *)
Observe(k) ==
  /\ bucket[k] # None
  /\ since' = [since EXCEPT ![k] = bucket[k].last]
  /\ granted' = [granted EXCEPT ![k] = 0]
  /\ UNCHANGED <<now, bucket, request>>

Next == \/ Tick
        \/ \E q \in Req, k \in Key : ReadClock(q, k)
        \/ \E q \in Req : Allow(q)
        \/ \E k \in Key : Observe(k)

Spec == Init /\ [][Next]_vars

-----------------------------------------------------------------------------
(* Type correctness; a bucket is never overdrawn and never above its burst. *)
TypeOK ==
  /\ now \in Nat
  /\ bucket \in [Key -> Bucket \cup {None}]
  /\ since \in [Key -> Nat] /\ granted \in [Key -> Nat]
  /\ \A k \in Key : bucket[k] # None =>
       /\ bucket[k].tokens >= 0 /\ bucket[k].tokens <= Burst * Unit
       /\ bucket[k].last <= now /\ since[k] <= bucket[k].last

(* Whenever one starts to count, a caller is allowed no more than the burst *)
(* and what the elapsed time refills, however late requests reach the       *)
(* bucket with an old clock reading.                                        *)
GrantsAreBounded ==
  \A k \in Key : bucket[k] # None =>
    granted[k] * Unit <= Burst * Unit + (bucket[k].last - since[k]) * Rate

(* A refused caller that waits for the advertised reset, and has the bucket *)
(* to itself, finds a token; one that is told to wait 0 ticks has one.      *)
ResetIsEnough ==
  \A q \in Req : request[q].pc = "decided" =>
    request[q].tokens + request[q].reset * Rate >= Unit
=============================================================================
