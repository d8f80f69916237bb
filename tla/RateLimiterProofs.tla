------------------------- MODULE RateLimiterProofs -------------------------
(***************************************************************************)
(* Proof that the token bucket of RateLimiter bounds the requests it       *)
(* allows, for every rate, burst and number of callers and requests.       *)
(***************************************************************************)
EXTENDS RateLimiter, TLAPS

(* The strengthening: what was allowed and what is still in the bucket were *)
(* both paid for by the burst or by the time that refilled it.              *)
Paid(k) ==
  granted[k] * Unit + bucket[k].tokens
    <= Burst * Unit + (bucket[k].last - since[k]) * Rate

RInv ==
  /\ TypeOK
  /\ \A k \in Key : bucket[k] # None => Paid(k)
  /\ \A k \in Key : bucket[k] = None => granted[k] = 0
  /\ request = [q \in Req |-> request[q]]
  /\ \A q \in Req : request[q].pc = "stamped" =>
       request[q].key \in Key /\ request[q].at \in Nat /\ request[q].at <= now

(* A product of the constants is a natural number.                          *)
LEMMA Products ==
  ASSUME NEW a \in Int, NEW b \in Int
  PROVE  a * b \in Int
  OBVIOUS

(* Rate distributes over consecutive intervals.                             *)
LEMMA Intervals ==
  ASSUME NEW a \in Int, NEW b \in Int, NEW c \in Int, NEW r \in Int
  PROVE  (b - a) * r + (c - b) * r = (c - a) * r
  OBVIOUS

(* Time that passed refills a non-negative amount.                          *)
LEMMA Positive ==
  ASSUME NEW a \in Nat, NEW r \in Nat
  PROVE  a * r \in Nat
  OBVIOUS

(* One more request allowed is one more token paid.                         *)
LEMMA OneMore ==
  ASSUME NEW g \in Nat
  PROVE  (g + 1) * Unit = g * Unit + Unit /\ g * Unit \in Nat
  BY RateAssumption

(* A bucket that is refilled stays within its burst, never goes back, and   *)
(* gains at most what the time allows (allow, before it takes a token).     *)
LEMMA RefillPays ==
  ASSUME NEW b \in Bucket, NEW t \in Nat, NEW s \in Nat, NEW g \in Nat,
         b.tokens >= 0, b.tokens <= Burst * Unit, s <= b.last,
         g * Unit + b.tokens <= Burst * Unit + (b.last - s) * Rate
  PROVE  LET r == Refilled(b, t) IN
         /\ r \in Bucket
         /\ r.tokens >= 0 /\ r.tokens <= Burst * Unit
         /\ r.last >= b.last /\ (r.last = b.last \/ r.last = t)
         /\ g * Unit + r.tokens <= Burst * Unit + (r.last - s) * Rate
<1> DEFINE full == Burst * Unit
           gain == (t - b.last) * Rate
           before == (b.last - s) * Rate
           after == (t - s) * Rate
           paid == g * Unit
<1>1. /\ full \in Int /\ gain \in Int /\ before \in Int /\ after \in Int
      /\ paid \in Int /\ b.tokens \in Int /\ b.last \in Nat
  BY Products, RateAssumption DEF Bucket
<1>2. before + gain = after
  BY Intervals, RateAssumption, <1>1
<1>3. CASE t > b.last
  <2>1. t - b.last \in Nat
    BY <1>1, <1>3
  <2>2. gain \in Nat
    BY <2>1, Positive, RateAssumption
  <2>3. Refilled(b, t) = [tokens |-> MinOf(full, b.tokens + gain), last |-> t]
    BY <1>3 DEF Refilled
  <2>4. paid + b.tokens <= full + before
    OBVIOUS
  <2>5. b.tokens <= full
    OBVIOUS
  <2> HIDE DEF full, gain, before, after, paid
  <2>6. /\ MinOf(full, b.tokens + gain) \in Int
        /\ MinOf(full, b.tokens + gain) >= 0
        /\ MinOf(full, b.tokens + gain) <= full
        /\ paid + MinOf(full, b.tokens + gain) <= full + after
    BY <1>1, <1>2, <2>2, <2>4, <2>5 DEF MinOf
  <2> QED
    BY <1>1, <1>3, <2>3, <2>6 DEF Bucket, full, after, paid
<1>4. CASE ~(t > b.last)
  BY <1>1, <1>4 DEF Refilled
<1> QED
  BY <1>3, <1>4

(* The invariant holds initially.                                           *)
LEMMA InitRInv == Init => RInv
  BY RateAssumption DEF Init, RInv, TypeOK, Bucket

(* A decision keeps the invariant: a token is only taken when it is there.  *)
LEMMA AllowKeepsRInv ==
  ASSUME RInv, NEW q \in Req, Allow(q)
  PROVE  RInv'
<1> DEFINE k == request[q].key
           t == request[q].at
           f == Found(k, t)
           b == Refilled(f, t)
           left == IF HasToken(b) THEN b.tokens - Unit ELSE b.tokens
           s == IF bucket[k] = None THEN b.last ELSE since[k]
           n == IF HasToken(b) THEN granted[k] + 1 ELSE granted[k]
<1>1. /\ k \in Key /\ t \in Nat /\ t <= now /\ now \in Nat
      /\ granted[k] \in Nat /\ since[k] \in Nat
  BY DEF RInv, TypeOK, Allow
<1>2. /\ b \in Bucket
      /\ b.tokens >= 0 /\ b.tokens <= Burst * Unit
      /\ s \in Nat /\ s <= b.last /\ b.last <= now
      /\ granted[k] * Unit + b.tokens <= Burst * Unit + (b.last - s) * Rate
  <2>1. CASE bucket[k] = None
    <3>1. f = [tokens |-> Burst * Unit, last |-> t]
      BY <2>1 DEF Found
    <3>2. Burst * Unit \in Nat
      BY Positive, RateAssumption
    <3>3. f \in Bucket /\ f.tokens = Burst * Unit /\ f.last = t
      BY <3>1, <3>2, <1>1 DEF Bucket
    <3>4. b = f
      BY <3>3, <1>1 DEF Refilled
    <3>5. granted[k] * Unit = 0
      BY <2>1, <1>1, RateAssumption DEF RInv
    <3>6. s = t /\ (t - t) * Rate = 0
      BY <2>1, <3>3, <3>4, <1>1, RateAssumption
    <3> HIDE DEF b, f, k, t, s
    <3> QED
      BY <3>2, <3>3, <3>4, <3>5, <3>6, <1>1 DEF Bucket
  <2>2. CASE bucket[k] # None
    <3>1. f = bucket[k] /\ s = since[k]
      BY <2>2 DEF Found
    <3>2. /\ f \in Bucket /\ f.tokens >= 0 /\ f.tokens <= Burst * Unit
          /\ since[k] <= f.last /\ f.last <= now
          /\ granted[k] * Unit + f.tokens <= Burst * Unit + (f.last - since[k]) * Rate
      BY <2>2, <3>1, <1>1 DEF RInv, TypeOK, Paid
    <3> HIDE DEF f, k, t
    <3>3. /\ b \in Bucket /\ b.tokens >= 0 /\ b.tokens <= Burst * Unit
          /\ b.last >= f.last /\ (b.last = f.last \/ b.last = t)
          /\ granted[k] * Unit + b.tokens <= Burst * Unit + (b.last - since[k]) * Rate
      BY <3>2, <1>1, RefillPays
    <3> HIDE DEF b, s
    <3> QED
      BY <3>1, <3>2, <3>3, <1>1 DEF Bucket
  <2> QED
    BY <2>1, <2>2
<1>3. /\ left \in Int /\ left >= 0 /\ left <= Burst * Unit /\ n \in Nat
      /\ n * Unit + left <= Burst * Unit + (b.last - s) * Rate
  <2>1. /\ Burst * Unit \in Nat /\ (b.last - s) * Rate \in Nat
    <3>1. b.last - s \in Nat
      BY <1>2 DEF Bucket
    <3> QED
      BY <3>1, Positive, RateAssumption
  <2>2. /\ granted[k] * Unit \in Nat
        /\ (granted[k] + 1) * Unit = granted[k] * Unit + Unit
    BY <1>1, OneMore
  <2>3. b.tokens \in Int
    BY <1>2 DEF Bucket
  <2> DEFINE full == Burst * Unit
             earned == (b.last - s) * Rate
             paid == granted[k] * Unit
             next == (granted[k] + 1) * Unit
  <2>4. paid + b.tokens <= full + earned /\ full \in Nat /\ earned \in Nat
        /\ paid \in Nat /\ next = paid + Unit /\ b.tokens >= 0 /\ b.tokens <= full
    BY <1>2, <2>1, <2>2
  <2>5. n * Unit = IF HasToken(b) THEN next ELSE paid
    OBVIOUS
  <2>6. n \in Nat
    BY <1>1
  <2> HIDE DEF b, s, k, full, earned, paid, next, n
  <2>7. /\ left \in Int /\ left >= 0 /\ left <= full
        /\ n * Unit + left <= full + earned
    BY <2>3, <2>4, <2>5, RateAssumption DEF HasToken
  <2> QED
    BY <2>6, <2>7 DEF full, earned
<1>4. /\ bucket' = [bucket EXCEPT ![k] = [tokens |-> left, last |-> b.last]]
      /\ granted' = [granted EXCEPT ![k] = n]
      /\ since' = [since EXCEPT ![k] = s]
      /\ now' = now
      /\ request' = [request EXCEPT ![q] = [pc |-> "decided", allowed |-> HasToken(b),
                       tokens |-> left, reset |-> ResetAfter(left)]]
  BY <1>1 DEF Allow, RInv, TypeOK
<1>5. b.last \in Nat
  BY <1>2 DEF Bucket
<1> HIDE DEF b, s, n, left, k
<1>6. [tokens |-> left, last |-> b.last] \in Bucket
  BY <1>3, <1>5 DEF Bucket
<1>7. TypeOK'
  BY <1>1, <1>2, <1>3, <1>4, <1>5, <1>6 DEF RInv, TypeOK
<1>8. \A j \in Key : bucket'[j] # None => Paid(j)'
  <2> SUFFICES ASSUME NEW j \in Key, bucket'[j] # None
               PROVE  Paid(j)'
    OBVIOUS
  <2>1. CASE j = k
    <3>1. /\ bucket'[j] = [tokens |-> left, last |-> b.last]
          /\ granted'[j] = n /\ since'[j] = s
      BY <2>1, <1>1, <1>4 DEF RInv, TypeOK
    <3> QED
      BY <3>1, <1>3 DEF Paid
  <2>2. CASE j # k
    <3>1. /\ bucket'[j] = bucket[j] /\ granted'[j] = granted[j]
          /\ since'[j] = since[j]
      BY <2>2, <1>4 DEF RInv, TypeOK
    <3> QED
      BY <3>1 DEF RInv, Paid
  <2> QED
    BY <2>1, <2>2
<1>9. \A j \in Key : bucket'[j] = None => granted'[j] = 0
  BY <1>1, <1>4, <1>6, RateAssumption DEF RInv, TypeOK, Bucket
<1>10. request' = [p \in Req |-> request'[p]]
  BY <1>4 DEF RInv
<1>11. \A p \in Req : request'[p].pc = "stamped" =>
         request'[p].key \in Key /\ request'[p].at \in Nat /\ request'[p].at <= now'
  BY <1>4 DEF RInv
<1> QED
  BY <1>7, <1>8, <1>9, <1>10, <1>11 DEF RInv

(* An observer that starts anew at the last refill keeps the invariant.     *)
LEMMA ObserveKeepsRInv ==
  ASSUME RInv, NEW k \in Key, Observe(k)
  PROVE  RInv'
<1>1. /\ bucket[k] # None /\ bucket' = bucket /\ now' = now /\ request' = request
      /\ since' = [since EXCEPT ![k] = bucket[k].last]
      /\ granted' = [granted EXCEPT ![k] = 0]
      /\ bucket[k] \in Bucket
  BY DEF Observe, RInv, TypeOK
<1>2. TypeOK'
  BY <1>1 DEF RInv, TypeOK, Bucket
<1>3. Paid(k)'
  <2>1. granted'[k] = 0 /\ since'[k] = bucket[k].last /\ bucket[k].last \in Nat
    BY <1>1 DEF RInv, TypeOK, Bucket
  <2>2. 0 * Unit = 0 /\ (bucket[k].last - bucket[k].last) * Rate = 0
    BY <2>1, RateAssumption
  <2>3. bucket[k].tokens \in Int /\ bucket[k].tokens <= Burst * Unit /\ Burst * Unit \in Int
    BY <1>1, Products, RateAssumption DEF RInv, TypeOK, Bucket
  <2> QED
    BY <1>1, <2>1, <2>2, <2>3 DEF Paid
<1>4. \A j \in Key : bucket'[j] # None => Paid(j)'
  <2> SUFFICES ASSUME NEW j \in Key, bucket'[j] # None, j # k
               PROVE  Paid(j)'
    BY <1>3
  <2>1. granted'[j] = granted[j] /\ since'[j] = since[j]
    BY <1>1 DEF RInv, TypeOK
  <2> QED
    BY <1>1, <2>1 DEF RInv, Paid
<1>5. \A j \in Key : bucket'[j] = None => granted'[j] = 0
  BY <1>1 DEF RInv, TypeOK
<1> QED
  BY <1>1, <1>2, <1>4, <1>5 DEF RInv

(* Every step keeps the invariant.                                          *)
LEMMA NextRInv == RInv /\ [Next]_vars => RInv'
<1> SUFFICES ASSUME RInv, [Next]_vars PROVE RInv'
  OBVIOUS
<1>1. CASE Tick
  BY <1>1 DEF Tick, RInv, TypeOK, Paid, Bucket
<1>2. ASSUME NEW q \in Req, NEW k \in Key, ReadClock(q, k) PROVE RInv'
  BY <1>2 DEF ReadClock, RInv, TypeOK, Paid
<1>3. ASSUME NEW q \in Req, Allow(q) PROVE RInv'
  BY <1>3, AllowKeepsRInv
<1>4. ASSUME NEW k \in Key, Observe(k) PROVE RInv'
  BY <1>4, ObserveKeepsRInv
<1>5. CASE UNCHANGED vars
  BY <1>5 DEF vars, RInv, TypeOK, Paid
<1> QED
  BY <1>1, <1>2, <1>3, <1>4, <1>5 DEF Next

(* The invariant gives the bound.                                           *)
LEMMA RInvBounds == RInv => GrantsAreBounded
<1> SUFFICES ASSUME RInv, NEW k \in Key, bucket[k] # None
             PROVE  granted[k] * Unit <= Burst * Unit + (bucket[k].last - since[k]) * Rate
  BY DEF GrantsAreBounded
<1>1. /\ bucket[k] \in Bucket /\ bucket[k].tokens >= 0 /\ since[k] \in Nat
      /\ granted[k] \in Nat
  BY DEF RInv, TypeOK
<1>2. /\ granted[k] * Unit \in Int /\ Burst * Unit \in Int
      /\ (bucket[k].last - since[k]) * Rate \in Int /\ bucket[k].tokens \in Int
  BY <1>1, Products, RateAssumption DEF Bucket
<1> QED
  BY <1>1, <1>2 DEF RInv, Paid

(* allow grants a caller at most the burst and the refill of the time that  *)
(* passed, from whichever refill one starts to count.                       *)
THEOREM LimiterBoundsGrants == Spec => []GrantsAreBounded
<1>1. Init => RInv
  BY InitRInv
<1>2. RInv /\ [Next]_vars => RInv'
  BY NextRInv
<1>3. RInv => GrantsAreBounded
  BY RInvBounds
<1> QED
  BY <1>1, <1>2, <1>3, PTL DEF Spec

(* allow never overdraws a bucket, never fills it above its burst and never *)
(* moves its refill time past the clock.                                    *)
THEOREM LimiterTypeOK == Spec => []TypeOK
<1>1. Init => RInv
  BY InitRInv
<1>2. RInv /\ [Next]_vars => RInv'
  BY NextRInv
<1>3. RInv => TypeOK
  BY DEF RInv
<1> QED
  BY <1>1, <1>2, <1>3, PTL DEF Spec
=============================================================================
