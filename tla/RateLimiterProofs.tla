------------------------- MODULE RateLimiterProofs -------------------------
(***************************************************************************)
(* What RateLimiter promises for every set of players, every capacity and  *)
(* refill rate, and every order of scripts, repetitions and expiries.      *)
(***************************************************************************)
EXTENDS RateLimiter, TLAPS

USE LimiterAssumption

\* A bucket's key outlives the refill that makes it full, by a second.
LEMMA TtlRefills ==
  ASSUME NEW k \in Keys
  PROVE  /\ Ttl(k) \in Nat
         /\ refill_rate(k) * Ttl(k) >= capacity(k) + refill_rate(k)
<1> DEFINE c == capacity(k)
           r == refill_rate(k)
           q == (c + r - 1) \div r
<1>1. c \in Nat \ {0} /\ r \in Nat \ {0}
  BY DEF capacity, refill_rate
<1> HIDE DEF c, r
<1>2. q \in Int /\ r * q >= c /\ q >= 0
  BY <1>1
<1>3. r * (q + 1) = r * q + r
  BY <1>1, <1>2
<1>4. QED
  BY <1>1, <1>2, <1>3 DEF Ttl, c, r

-----------------------------------------------------------------------------
(* The inductive invariant.                                                  *)

\* The most a bucket can hold for scripts that run with the clock at now.
Ceiling(k) == capacity(k) + refill_rate(k) * MaxDelay

\* The tokens that bucket k can still give, without counting those of the seconds
\* to come: an old timestamp in last_refill is worth more than the capacity.
Potential(k) ==
  IF ~bucket[k].live THEN Ceiling(k)
  ELSE Smaller(Ceiling(k), bucket[k].tokens + refill_rate(k) * (now - bucket[k].last_refill))

BucketOK(k) ==
  /\ bucket[k] \in Buckets(k)
  /\ bucket[k].live => bucket[k].expires >= bucket[k].last_refill + Ttl(k)

RequestOK(p) ==
  /\ request[p].kind # "none" => request[p].left >= 1
  /\ request[p].at # Unread => request[p].at <= now /\ now - request[p].at <= MaxDelay

WithinBound(k) ==
  windowSpent[k] + Potential(k)
    <= capacity(k) + refill_rate(k) * (now - windowStart + MaxDelay)

ClockOK == now \in 0 .. MaxTime /\ windowStart \in 0 .. now

Requests == [kind : {"none", "charge", "drain"}, left : Nat, at : {Unread} \cup 0 .. now]

RequestsOK == request \in [Players -> Requests] /\ \A p \in Players : RequestOK(p)

KeysOK ==
  /\ DOMAIN bucket = Keys /\ windowSpent \in [Keys -> Nat]
  /\ \A k \in Keys : BucketOK(k) /\ WithinBound(k)

LimiterInv == ClockOK /\ RequestsOK /\ KeysOK

\* Capacities and refill rates are positive numbers.
LEMMA KeyNumbers ==
  ASSUME NEW k \in Keys
  PROVE  capacity(k) \in Nat \ {0} /\ refill_rate(k) \in Nat \ {0}
BY DEF capacity, refill_rate

\* A script that takes n tokens from bucket k lowers its potential by n or more.
LEMMA TakeLowersPotential ==
  ASSUME LimiterInv, NEW k \in Keys, NEW at \in 0 .. now, now - at <= MaxDelay,
         NEW n \in 0 .. Refilled(k, at).tokens, n \in Int,
         bucket'[k] = Take(k, at, n), now' = now
  PROVE  /\ BucketOK(k)' /\ Potential(k)' \in Int
         /\ Potential(k)' + n <= Potential(k)
<1> DEFINE c == capacity(k)
           r == refill_rate(k)
           f == Refilled(k, at)
<1>1. c \in Nat \ {0} /\ r \in Nat \ {0} /\ Ttl(k) \in Nat /\ now \in Nat
  BY KeyNumbers, TtlRefills DEF LimiterInv, ClockOK
<1>2. /\ f.tokens \in 0 .. c /\ f.last_refill \in 0 .. now
      /\ bucket[k].live => f.last_refill >= bucket[k].last_refill
      /\ f.tokens + r * (now - f.last_refill) <= Potential(k)
  <2>1. CASE ~bucket[k].live
    <3>1. f = [tokens |-> c, last_refill |-> at]
      BY <2>1 DEF Refilled
    <3>2. now - at \in {0, 1}
      BY <1>1
    <3>3. r * (now - at) <= r * MaxDelay
      BY <1>1, <3>2
    <3>4. QED
      BY <1>1, <2>1, <3>1, <3>3 DEF Potential, Ceiling
  <2>2. CASE bucket[k].live
    <3> DEFINE t == bucket[k].tokens
               l == bucket[k].last_refill
               g == IF at > l THEN (at - l) * r ELSE 0
               m == IF g > 0 THEN at ELSE l
    <3>1. t \in 0 .. c /\ l \in 0 .. now
      BY DEF LimiterInv, KeysOK, BucketOK, Buckets
    <3>2. f = [tokens |-> Smaller(c, t + g), last_refill |-> m]
      BY <2>2 DEF Refilled
    <3>3. g \in Int /\ m \in Int
      BY <1>1, <3>1
    <3>4. Potential(k) = Smaller(c + r * MaxDelay, t + r * (now - l))
      BY <2>2 DEF Potential, Ceiling
    <3> HIDE DEF c, r, f, t, l, g, m
    <3>5. /\ m \in 0 .. now /\ m >= l /\ Smaller(c, t + g) \in 0 .. c
          /\ Smaller(c, t + g) + r * (now - m) <= Smaller(c + r * MaxDelay, t + r * (now - l))
      <4>1. /\ c \in Nat /\ r \in Nat \ {0} /\ now \in Nat
            /\ t \in 0 .. c /\ l \in 0 .. now /\ at \in 0 .. now
            /\ now - at \in {0, 1} /\ now - at <= MaxDelay /\ MaxDelay \in {0, 1}
        BY <1>1, <3>1
      <4>2. CASE at > l
        <5>1. g = (at - l) * r /\ at - l >= 1
          BY <4>1, <4>2 DEF g
        <5>2. g >= r /\ g \in Nat
          BY <4>1, <5>1
        <5>3. m = at
          BY <4>1, <5>2 DEF m
        <5>4. r * (now - l) = g + r * (now - at)
          BY <4>1, <5>1
        <5>5. r * (now - at) <= r * MaxDelay /\ r * (now - at) \in Int /\ r * MaxDelay \in Int
          BY <4>1
        <5>6. QED
          BY <4>1, <4>2, <5>2, <5>3, <5>4, <5>5 DEF Smaller
      <4>3. CASE at <= l
        <5>1. g = 0 /\ m = l
          BY <4>1, <4>3 DEF g, m
        <5>2. now - l \in {0, 1} /\ now - l <= MaxDelay
          BY <4>1, <4>3
        <5>3. r * (now - l) <= r * MaxDelay /\ r * (now - l) \in Int /\ r * MaxDelay \in Int
          BY <4>1, <5>2
        <5>4. QED
          BY <4>1, <5>1, <5>3 DEF Smaller
      <4>4. QED
        BY <4>1, <4>2, <4>3
    <3>6. QED
      BY <3>2, <3>4, <3>5 DEF l
  <2>3. QED
    BY <2>1, <2>2
<1>3. bucket'[k] = [live |-> TRUE, tokens |-> f.tokens - n, last_refill |-> f.last_refill,
                    expires |-> now + Ttl(k)]
  BY DEF Take
<1> HIDE DEF c, r, f
<1>4. BucketOK(k)'
  BY <1>1, <1>2, <1>3 DEF BucketOK, Buckets, c, f
<1>5. r * (now - f.last_refill) \in Int /\ f.tokens - n + r * (now - f.last_refill) + n <= Potential(k)
  BY <1>1, <1>2 DEF f
<1>6. Potential(k)' <= f.tokens - n + r * (now - f.last_refill)
  <2>1. Ceiling(k) \in Int
    BY KeyNumbers DEF Ceiling
  <2>2. Potential(k)' = Smaller(Ceiling(k), f.tokens - n + r * (now - f.last_refill))
    BY <1>3 DEF Potential, r, Ceiling
  <2>3. QED
    BY <1>1, <1>2, <1>5, <2>1, <2>2 DEF Smaller
<1>7. Potential(k) \in Int /\ Potential(k)' \in Int
  <2>1. Ceiling(k) \in Int
    BY KeyNumbers DEF Ceiling
  <2>2. QED
    BY <1>1, <1>2, <1>3, <2>1 DEF Potential, Smaller, LimiterInv, KeysOK, BucketOK, Buckets, r, c, Ceiling
<1>8. QED
  BY <1>1, <1>2, <1>4, <1>5, <1>6, <1>7

\* No bucket is worth more than its ceiling, and its potential is a number.
LEMMA PotentialBounded ==
  ASSUME LimiterInv, NEW k \in Keys
  PROVE  Potential(k) \in Int /\ Potential(k) <= Ceiling(k) /\ Ceiling(k) \in Int
<1>1. Ceiling(k) \in Int
  BY KeyNumbers DEF Ceiling
<1>2. bucket[k].live => bucket[k].tokens + refill_rate(k) * (now - bucket[k].last_refill) \in Int
  BY KeyNumbers DEF LimiterInv, ClockOK, KeysOK, BucketOK, Buckets
<1>3. QED
  BY <1>1, <1>2 DEF Potential, Smaller

\* Redis starts with no bucket.
LEMMA InitEstablishes == Init => LimiterInv
<1> SUFFICES ASSUME Init PROVE LimiterInv
  OBVIOUS
<1>1. ClockOK
  BY DEF Init, ClockOK
<1>2. RequestsOK
  BY DEF Init, RequestsOK, Requests, RequestOK, NoRequest, Unread
<1>3. ASSUME NEW k \in Keys PROVE BucketOK(k) /\ WithinBound(k)
  <2>1. bucket[k] = Absent /\ windowSpent[k] = 0 /\ now = 0 /\ windowStart = 0
    BY DEF Init
  <2>2. BucketOK(k)
    BY <2>1, KeyNumbers DEF BucketOK, Buckets, Absent
  <2>3. Potential(k) = capacity(k) + refill_rate(k) * MaxDelay
    BY <2>1 DEF Potential, Ceiling, Absent
  <2>4. WithinBound(k)
    BY <2>1, <2>3, KeyNumbers DEF WithinBound
  <2>5. QED
    BY <2>2, <2>4
<1>4. QED
  BY <1>1, <1>2, <1>3 DEF LimiterInv, KeysOK, Init

-----------------------------------------------------------------------------
(* The steps that touch a bucket.                                            *)

\* What a script with timestamp `at` may do to bucket k.
Untouched(k) == bucket'[k] = bucket[k] /\ windowSpent'[k] = windowSpent[k]

Taken(k, at) ==
  \E n \in 0 .. Refilled(k, at).tokens :
    bucket'[k] = Take(k, at, n) /\ windowSpent'[k] = windowSpent[k] + n

\* A script keeps every bucket within its bound.
LEMMA ScriptKeepsKeys ==
  ASSUME LimiterInv, NEW at \in 0 .. now, now - at <= MaxDelay,
         now' = now, windowStart' = windowStart,
         DOMAIN bucket' = Keys, windowSpent' \in [Keys -> Nat],
         \A k \in Keys : Untouched(k) \/ Taken(k, at)
  PROVE  KeysOK'
<1>1. ASSUME NEW k \in Keys PROVE BucketOK(k)' /\ WithinBound(k)'
  <2>1. BucketOK(k) /\ WithinBound(k) /\ windowSpent[k] \in Nat
    BY DEF LimiterInv, KeysOK
  <2>2. CASE Untouched(k)
    BY <2>1, <2>2 DEF Untouched, BucketOK, Buckets, WithinBound, Potential, Ceiling
  <2>3. CASE Taken(k, at)
    <3>1. PICK n \in 0 .. Refilled(k, at).tokens :
                 bucket'[k] = Take(k, at, n) /\ windowSpent'[k] = windowSpent[k] + n
      BY <2>3 DEF Taken
    <3>2. n \in Int
      OBVIOUS
    <3>3. BucketOK(k)' /\ Potential(k)' + n <= Potential(k) /\ Potential(k)' \in Int
      BY <3>1, <3>2, TakeLowersPotential
    <3>4. Potential(k) \in Int
      BY PotentialBounded
    <3>5. refill_rate(k) * (now - windowStart + MaxDelay) \in Int /\ capacity(k) \in Int
      BY KeyNumbers DEF LimiterInv, ClockOK
    <3>6. WithinBound(k)'
      BY <2>1, <3>1, <3>2, <3>3, <3>4, <3>5 DEF WithinBound
    <3>7. QED
      BY <3>3, <3>6
  <2>4. QED
    BY <2>2, <2>3
<1>2. QED
  BY <1>1 DEF KeysOK

\* A script always finds between zero and capacity tokens.
LEMMA RefilledRange ==
  ASSUME LimiterInv, NEW k \in Keys, NEW at \in 0 .. now
  PROVE  Refilled(k, at).tokens \in 0 .. capacity(k)
<1>1. capacity(k) \in Nat \ {0} /\ refill_rate(k) \in Nat \ {0} /\ now \in Nat
  BY KeyNumbers DEF LimiterInv, ClockOK
<1>2. CASE ~bucket[k].live
  BY <1>1, <1>2 DEF Refilled
<1>3. CASE bucket[k].live
  <2> DEFINE g == IF at > bucket[k].last_refill
                  THEN (at - bucket[k].last_refill) * refill_rate(k) ELSE 0
  <2>1. bucket[k].tokens \in 0 .. capacity(k) /\ bucket[k].last_refill \in 0 .. now
    BY DEF LimiterInv, KeysOK, BucketOK, Buckets
  <2>2. g \in Nat
    <3>1. at > bucket[k].last_refill => at - bucket[k].last_refill \in Nat
      BY <1>1, <2>1
    <3>2. QED
      BY <1>1, <3>1
  <2>3. Refilled(k, at).tokens = Smaller(capacity(k), bucket[k].tokens + g)
    BY <1>3 DEF Refilled
  <2> HIDE DEF g
  <2>4. QED
    BY <1>1, <2>1, <2>2, <2>3 DEF Smaller
<1>4. QED
  BY <1>2, <1>3

\* The timestamp of a request, and the records requests may become.
LEMMA RequestFacts ==
  ASSUME LimiterInv, NEW p \in Players
  PROVE  /\ request[p] \in Requests /\ RequestOK(p) /\ p \in Keys /\ Global \in Keys /\ p # Global
         /\ request[p].at # Unread => request[p].at \in 0 .. now /\ now - request[p].at <= MaxDelay
         /\ NoRequest \in Requests
<1>1. request[p] \in Requests /\ RequestOK(p)
  BY DEF LimiterInv, RequestsOK
<1>2. request[p].at \in {Unread} \cup 0 .. now
  BY <1>1 DEF Requests
<1>3. QED
  BY <1>1, <1>2 DEF RequestOK, Keys, NoRequest, Requests

\* Replacing one request by a good one keeps the requests good.
LEMMA RequestStep ==
  ASSUME LimiterInv, NEW p \in Players, NEW r \in Requests,
         r.kind # "none" => r.left >= 1,
         r.at # Unread => now - r.at <= MaxDelay,
         request' = [request EXCEPT ![p] = r], now' = now
  PROVE  RequestsOK'
<1>1. request' \in [Players -> Requests] /\ Requests' = Requests
  BY DEF LimiterInv, RequestsOK, Requests
<1>2. ASSUME NEW q \in Players PROVE RequestOK(q)'
  <2>1. CASE q = p
    <3>1. request'[q] = r
      BY <2>1 DEF LimiterInv, RequestsOK
    <3>2. r.at # Unread => r.at <= now
      BY DEF Requests, LimiterInv, ClockOK
    <3>3. QED
      BY <3>1, <3>2 DEF RequestOK
  <2>2. CASE q # p
    <3>1. request'[q] = request[q] /\ RequestOK(q)
      BY <2>2 DEF LimiterInv, RequestsOK
    <3>2. QED
      BY <3>1 DEF RequestOK
  <2>3. QED
    BY <2>1, <2>2
<1>3. QED
  BY <1>1, <1>2 DEF RequestsOK

\* However a script's reply fares, the request it leaves is a good one.
LEMMA AnswerStep ==
  ASSUME LimiterInv, NEW p \in Players, NEW r, r = NoRequest \/ r = Charged(p),
         request[p].kind # "none", request[p].at # Unread,
         Answer(p, r), now' = now
  PROVE  RequestsOK'
<1>1. /\ NoRequest \in Requests /\ NoRequest.kind = "none" /\ NoRequest.at = Unread
  BY RequestFacts DEF NoRequest
<1>2. r \in Requests /\ (r.kind # "none" => r.left >= 1) /\ r.at = Unread
  <2>1. CASE r = NoRequest
    BY <1>1, <2>1
  <2>2. CASE r = Charged(p) /\ request[p].left # 1
    <3>1. request[p] \in Requests /\ request[p].left >= 1
      BY RequestFacts DEF RequestOK
    <3>2. r = [request[p] EXCEPT !.left = @ - 1, !.at = Unread]
      BY <2>2 DEF Charged
    <3>3. request[p].left - 1 \in Nat /\ request[p].left - 1 >= 1
      BY <2>2, <3>1 DEF Requests
    <3>4. QED
      BY <3>1, <3>2, <3>3 DEF Requests
  <2>3. CASE r = Charged(p) /\ request[p].left = 1
    BY <1>1, <2>3 DEF Charged
  <2>4. QED
    BY <2>1, <2>2, <2>3
<1>3. CASE request' = [request EXCEPT ![p] = r]
  BY <1>2, <1>3, RequestStep
<1>4. CASE request' = [request EXCEPT ![p] = NoRequest]
  BY <1>1, <1>4, RequestStep
<1>5. CASE UNCHANGED request
  BY <1>5 DEF LimiterInv, RequestsOK, Requests, RequestOK
<1>6. QED
  BY <1>3, <1>4, <1>5 DEF Answer

-----------------------------------------------------------------------------
(* One lemma per action that does more than change a request.                *)

\* luaTokenBucket leaves every bucket alone or takes nothing or one token.
LEMMA AllowMutationStep ==
  ASSUME LimiterInv, NEW p \in Players, AllowMutation(p)
  PROVE  LimiterInv' /\ \A k \in Keys : Untouched(k) \/ Taken(k, request[p].at)
<1> DEFINE at == request[p].at
<1>1. /\ request[p].kind # "none" /\ at # Unread /\ now' = now /\ windowStart' = windowStart
      /\ at \in 0 .. now /\ now - at <= MaxDelay
  BY RequestFacts DEF AllowMutation
<1>2. DOMAIN bucket = Keys /\ windowSpent \in [Keys -> Nat]
  BY DEF LimiterInv, KeysOK
<1>3. \A k \in Keys : Refilled(k, at).tokens \in Nat
  BY <1>1, RefilledRange, KeyNumbers
<1>4. p \in Keys /\ Global \in Keys /\ p # Global
  BY RequestFacts
<1> HIDE DEF at
<1>5. CASE UNCHANGED <<bucket, windowSpent>> /\ Answer(p, NoRequest)
  BY <1>1, <1>2, <1>5, AnswerStep, ScriptKeepsKeys
     DEF Untouched, LimiterInv, ClockOK, at
<1>6. CASE /\ HasToken(Global, at)
           /\ bucket' = [bucket EXCEPT ![Global] = Take(Global, at, 0)]
           /\ Answer(p, NoRequest)
           /\ UNCHANGED windowSpent
  <2>1. Taken(Global, at)
    <3>1. 0 \in 0 .. Refilled(Global, at).tokens /\ windowSpent[Global] = windowSpent[Global] + 0
      BY <1>2, <1>3, <1>4
    <3>2. bucket'[Global] = Take(Global, at, 0) /\ windowSpent'[Global] = windowSpent[Global] + 0
      BY <1>2, <1>4, <1>6, <3>1
    <3>3. QED
      BY <3>1, <3>2 DEF Taken
  <2>2. \A k \in Keys : Untouched(k) \/ Taken(k, at)
    BY <1>2, <1>6, <2>1 DEF Untouched
  <2>3. DOMAIN bucket' = Keys /\ windowSpent' \in [Keys -> Nat]
    BY <1>2, <1>6
  <2>4. QED
    BY <1>1, <1>6, <2>2, <2>3, AnswerStep, ScriptKeepsKeys DEF LimiterInv, ClockOK, at
<1>7. CASE /\ HasToken(Global, at) /\ HasToken(p, at)
           /\ bucket' = [bucket EXCEPT ![Global] = Take(Global, at, 1), ![p] = Take(p, at, 1)]
           /\ Answer(p, Charged(p))
           /\ windowSpent' = [windowSpent EXCEPT ![Global] = @ + 1, ![p] = @ + 1]
  <2>1. \A k \in {p, Global} : 1 \in 0 .. Refilled(k, at).tokens
    BY <1>3, <1>4, <1>7 DEF HasToken
  <2>2. \A k \in {p, Global} :
          bucket'[k] = Take(k, at, 1) /\ windowSpent'[k] = windowSpent[k] + 1
    BY <1>2, <1>4, <1>7
  <2>3. \A k \in Keys : Untouched(k) \/ Taken(k, at)
    <3>1. \A k \in {p, Global} : Taken(k, at)
      BY <2>1, <2>2 DEF Taken
    <3>2. \A k \in Keys : k \notin {p, Global} => Untouched(k)
      BY <1>2, <1>4, <1>7 DEF Untouched
    <3>3. QED
      BY <3>1, <3>2
  <2>4. DOMAIN bucket' = Keys /\ windowSpent' \in [Keys -> Nat]
    BY <1>2, <1>4, <1>7
  <2>5. QED
    BY <1>1, <1>7, <2>3, <2>4, AnswerStep, ScriptKeepsKeys DEF LimiterInv, ClockOK, at
<1>8. QED
  BY <1>5, <1>6, <1>7 DEF AllowMutation, at

\* luaDrainN takes one global token and, from the player, no more than there are.
LEMMA DrainNStep ==
  ASSUME LimiterInv, NEW p \in Players, DrainN(p)
  PROVE  LimiterInv' /\ \A k \in Keys : Untouched(k) \/ Taken(k, request[p].at)
<1> DEFINE at == request[p].at
           n == Consumed(p)
<1>1. /\ request[p].kind # "none" /\ at # Unread /\ now' = now /\ windowStart' = windowStart
      /\ at \in 0 .. now /\ now - at <= MaxDelay /\ Answer(p, NoRequest)
  BY RequestFacts DEF DrainN
<1>2. DOMAIN bucket = Keys /\ windowSpent \in [Keys -> Nat]
  BY DEF LimiterInv, KeysOK
<1>3. \A k \in Keys : Refilled(k, at).tokens \in Nat
  BY <1>1, RefilledRange, KeyNumbers
<1>4. p \in Keys /\ Global \in Keys /\ p # Global
  BY RequestFacts
<1>5. n \in 0 .. Refilled(p, at).tokens /\ n \in Nat
  <2>1. request[p].left \in Nat
    BY RequestFacts DEF Requests
  <2>2. QED
    BY <1>3, <1>4, <2>1 DEF Consumed, Smaller
<1> HIDE DEF at, n
<1>6. CASE UNCHANGED <<bucket, windowSpent>>
  BY <1>1, <1>2, <1>6, AnswerStep, ScriptKeepsKeys
     DEF Untouched, LimiterInv, ClockOK, at
<1>7. CASE /\ HasToken(Global, at)
           /\ bucket' = [bucket EXCEPT ![Global] = Take(Global, at, 1), ![p] = Take(p, at, n)]
           /\ windowSpent' = [windowSpent EXCEPT ![Global] = @ + 1, ![p] = @ + n]
  <2>1. Taken(Global, at)
    <3>1. 1 \in 0 .. Refilled(Global, at).tokens
      BY <1>3, <1>4, <1>7 DEF HasToken
    <3>2. bucket'[Global] = Take(Global, at, 1) /\ windowSpent'[Global] = windowSpent[Global] + 1
      BY <1>2, <1>4, <1>7
    <3>3. QED
      BY <3>1, <3>2 DEF Taken
  <2>2. Taken(p, at)
    <3>1. bucket'[p] = Take(p, at, n) /\ windowSpent'[p] = windowSpent[p] + n
      BY <1>2, <1>4, <1>7
    <3>2. QED
      BY <1>5, <3>1 DEF Taken
  <2>3. \A k \in Keys : k \notin {p, Global} => Untouched(k)
    BY <1>2, <1>4, <1>7 DEF Untouched
  <2>4. DOMAIN bucket' = Keys /\ windowSpent' \in [Keys -> Nat]
    BY <1>2, <1>4, <1>5, <1>7
  <2>5. \A k \in Keys : Untouched(k) \/ Taken(k, at)
    BY <2>1, <2>2, <2>3
  <2>6. QED
    BY <1>1, <2>4, <2>5, AnswerStep, ScriptKeepsKeys DEF LimiterInv, ClockOK, at
<1>8. QED
  BY <1>6, <1>7 DEF DrainN, at, n

\* A key that goes had been refilled: what is forgotten is a full bucket.
LEMMA ExpireStep ==
  ASSUME LimiterInv, NEW k \in Keys, Expire(k)
  PROVE  LimiterInv' /\ Available(k) = capacity(k)
<1> DEFINE c == capacity(k)
           r == refill_rate(k)
           t == bucket[k].tokens
           l == bucket[k].last_refill
<1>1. /\ c \in Nat \ {0} /\ r \in Nat \ {0} /\ now \in Nat /\ Ttl(k) \in Nat
      /\ r * Ttl(k) >= c + r
  BY KeyNumbers, TtlRefills DEF LimiterInv, ClockOK
<1>2. t \in 0 .. c /\ l \in 0 .. now /\ bucket[k].live /\ now >= l + Ttl(k)
  BY DEF LimiterInv, KeysOK, BucketOK, Buckets, Expire
<1>3. Ceiling(k) = c + r * MaxDelay /\ r * MaxDelay <= r /\ r * MaxDelay \in Nat
  BY <1>1 DEF Ceiling
<1>4. Potential(k) = Smaller(Ceiling(k), t + r * (now - l))
  BY <1>2 DEF Potential
<1>5. Available(k) = Smaller(c, t + (IF now > l THEN (now - l) * r ELSE 0))
  BY <1>2 DEF Available, Refilled
<1> HIDE DEF c, r, t, l
<1>6. r * (now - l) >= c + r /\ r * (now - l) \in Int /\ now > l
  <2>1. now - l >= Ttl(k) /\ now - l \in Nat
    BY <1>1, <1>2
  <2>2. r * (now - l) >= r * Ttl(k)
    BY <1>1, <2>1
  <2>3. QED
    BY <1>1, <1>2, <2>1, <2>2
<1>7. Potential(k) = Ceiling(k)
  BY <1>1, <1>2, <1>3, <1>4, <1>6 DEF Smaller
<1>8. Available(k) = c
  <2>1. (now - l) * r = r * (now - l)
    BY <1>1, <1>2
  <2>2. QED
    BY <1>1, <1>2, <1>5, <1>6, <2>1 DEF Smaller
<1>9. BucketOK(k)' /\ WithinBound(k)'
  <2>1. bucket'[k] = Absent /\ UNCHANGED <<now, windowStart, windowSpent>>
    BY DEF Expire, LimiterInv, KeysOK
  <2>2. Potential(k)' = Ceiling(k)
    BY <2>1 DEF Potential, Absent, Ceiling
  <2>3. BucketOK(k)'
    BY <1>1, <2>1 DEF BucketOK, Buckets, Absent, c
  <2>4. WithinBound(k)'
    BY <1>7, <2>1, <2>2 DEF WithinBound, LimiterInv, KeysOK
  <2>5. QED
    BY <2>3, <2>4
<1>10. ASSUME NEW j \in Keys, j # k PROVE BucketOK(j)' /\ WithinBound(j)'
  BY <1>10 DEF Expire, LimiterInv, KeysOK, BucketOK, Buckets, WithinBound, Potential, Ceiling
<1>11. KeysOK'
  BY <1>9, <1>10 DEF KeysOK, LimiterInv, Expire
<1>12. ClockOK' /\ RequestsOK'
  BY DEF LimiterInv, ClockOK, RequestsOK, Requests, RequestOK, Expire
<1>13. QED
  BY <1>8, <1>11, <1>12 DEF LimiterInv, c

\* A second raises a bucket's potential by no more than the bound rises.
LEMMA SecondStep ==
  ASSUME LimiterInv, Second
  PROVE  LimiterInv'
<1>1. now \in Nat /\ windowStart \in 0 .. now /\ now' = now + 1 /\ now' <= MaxTime
  BY DEF LimiterInv, ClockOK, Second
<1>2. ASSUME NEW k \in Keys PROVE BucketOK(k)' /\ WithinBound(k)'
  <2> DEFINE c == capacity(k)
             r == refill_rate(k)
             t == bucket[k].tokens
             l == bucket[k].last_refill
  <2>1. c \in Nat \ {0} /\ r \in Nat \ {0}
    BY KeyNumbers
  <2>2. BucketOK(k)'
    BY <1>1 DEF LimiterInv, KeysOK, BucketOK, Buckets, Second
  <2>3. t \in Int /\ l \in Int /\ Ceiling(k) \in Int /\ Potential(k) \in Int
        /\ windowSpent[k] \in Int
    BY PotentialBounded DEF LimiterInv, KeysOK, BucketOK, Buckets
  <2>4. /\ UNCHANGED <<bucket, windowSpent, windowStart>>
        /\ Potential(k) = IF ~bucket[k].live THEN Ceiling(k)
                          ELSE Smaller(Ceiling(k), t + r * (now - l))
        /\ Potential(k)' = IF ~bucket[k].live THEN Ceiling(k)
                           ELSE Smaller(Ceiling(k), t + r * (now + 1 - l))
    <3>1. now' = now + 1 /\ UNCHANGED <<bucket, windowSpent, windowStart>>
      BY DEF Second
    <3>2. Potential(k) = IF ~bucket[k].live THEN Ceiling(k)
                         ELSE Smaller(Ceiling(k), t + r * (now - l))
      BY DEF Potential
    <3>3. Potential(k)' = IF ~bucket[k].live THEN Ceiling(k)
                          ELSE Smaller(Ceiling(k), t + r * (now + 1 - l))
      <4>1. bucket' = bucket /\ now' = now + 1
        BY <3>1
      <4>2. Potential(k)' = IF ~bucket[k].live THEN Ceiling(k)
              ELSE Smaller(Ceiling(k), bucket[k].tokens
                     + refill_rate(k) * (now' - bucket[k].last_refill))
        BY <4>1 DEF Potential, Ceiling
      <4>3. QED
        BY <1>1, <2>1, <2>3, <4>1, <4>2 DEF r, t, l
    <3>4. QED
      BY <3>1, <3>2, <3>3
  <2> HIDE DEF c, r, t, l
  <2>5. r * (now + 1 - l) = r * (now - l) + r /\ r * (now - l) \in Int
    BY <1>1, <2>1, <2>3
  <2>6. Potential(k)' \in Int /\ Potential(k)' <= Potential(k) + r
    BY <2>1, <2>3, <2>4, <2>5 DEF Smaller
  <2>7. /\ r * (now + 1 - windowStart + MaxDelay) = r * (now - windowStart + MaxDelay) + r
        /\ r * (now - windowStart + MaxDelay) \in Int
    BY <1>1, <2>1
  <2>8. windowSpent[k] + Potential(k) <= c + r * (now - windowStart + MaxDelay)
    BY DEF LimiterInv, KeysOK, WithinBound, c, r
  <2>9. windowSpent[k] + Potential(k)' <= c + r * (now + 1 - windowStart + MaxDelay)
    BY <2>1, <2>3, <2>6, <2>7, <2>8
  <2>10. WithinBound(k)'
    BY <1>1, <2>4, <2>9 DEF WithinBound, c, r
  <2>11. QED
    BY <2>2, <2>10
<1>3. KeysOK'
  BY <1>2 DEF KeysOK, LimiterInv, Second
<1>4. ClockOK'
  BY <1>1 DEF ClockOK, Second
<1>5. RequestsOK'
  <2>1. request' = request /\ Requests \subseteq Requests'
    BY <1>1 DEF Second, Requests
  <2>2. ASSUME NEW p \in Players PROVE RequestOK(p)'
    <3>1. RequestOK(p) /\ (request[p].at # Unread => request[p].at \in 0 .. now)
      BY RequestFacts
    <3>2. request[p].at # Unread => now - request[p].at < MaxDelay
      BY DEF Second
    <3>3. QED
      BY <1>1, <2>1, <3>1, <3>2 DEF RequestOK
  <2>3. QED
    BY <2>1, <2>2 DEF RequestsOK, LimiterInv
<1>6. QED
  BY <1>3, <1>4, <1>5 DEF LimiterInv

\* A window that opens now has at most a ceiling to spend.
LEMMA OpenWindowStep ==
  ASSUME LimiterInv, OpenWindow
  PROVE  LimiterInv'
<1>1. now \in Nat /\ windowStart' = now /\ UNCHANGED <<now, bucket, request>>
  BY DEF LimiterInv, ClockOK, OpenWindow
<1>2. ASSUME NEW k \in Keys PROVE BucketOK(k)' /\ WithinBound(k)'
  <2>1. BucketOK(k)'
    BY <1>1 DEF LimiterInv, KeysOK, BucketOK, Buckets
  <2>2. windowSpent'[k] = 0
    BY DEF OpenWindow
  <2>3. Potential(k)' = Potential(k)
    BY <1>1 DEF Potential, Ceiling
  <2>4. refill_rate(k) * (now - now + MaxDelay) = refill_rate(k) * MaxDelay
    BY <1>1, KeyNumbers
  <2>5. Potential(k) <= capacity(k) + refill_rate(k) * (now - now + MaxDelay) /\ Potential(k) \in Int
    BY <2>4, PotentialBounded DEF Ceiling
  <2>6. WithinBound(k)'
    BY <1>1, <2>2, <2>3, <2>5 DEF WithinBound
  <2>7. QED
    BY <2>1, <2>6
<1>3. KeysOK'
  BY <1>1, <1>2 DEF KeysOK, LimiterInv, OpenWindow
<1>4. ClockOK' /\ RequestsOK'
  BY <1>1 DEF LimiterInv, ClockOK, RequestsOK, Requests, RequestOK
<1>5. QED
  BY <1>3, <1>4 DEF LimiterInv

\* The steps of a handler that only change its request.
LEMMA HandlerStep ==
  ASSUME LimiterInv, NEW p \in Players, Command(p) \/ ReadClock(p) \/ EvalFails(p)
  PROVE  LimiterInv'
<1>1. UNCHANGED <<now, bucket, windowStart, windowSpent>>
  BY DEF Command, ReadClock, EvalFails
<1>2. KeysOK' /\ ClockOK'
  BY <1>1 DEF LimiterInv, KeysOK, ClockOK, BucketOK, Buckets, WithinBound, Potential, Ceiling
<1>3. /\ request[p] \in Requests /\ RequestOK(p) /\ NoRequest \in Requests
      /\ NoRequest.kind = "none" /\ NoRequest.at = Unread
  BY RequestFacts DEF NoRequest
<1>4. CASE Command(p)
  <2>1. PICK n \in ChargeSizes \cup DrainSizes, s \in {"charge", "drain"} :
               request' = [request EXCEPT ![p] = [kind |-> s, left |-> n, at |-> Unread]]
    BY <1>4 DEF Command
  <2> DEFINE q == [kind |-> s, left |-> n, at |-> Unread]
  <2>2. q \in Requests /\ q.left >= 1 /\ q.at = Unread
    BY DEF Requests
  <2> HIDE DEF q
  <2>3. request' = [request EXCEPT ![p] = q]
    BY <2>1 DEF q
  <2>4. RequestsOK'
    BY <1>1, <2>2, <2>3, RequestStep
  <2>5. QED
    BY <1>2, <2>4 DEF LimiterInv
<1>5. CASE ReadClock(p)
  <2> DEFINE q == [request[p] EXCEPT !.at = now]
  <2>1. now \in Nat
    BY DEF LimiterInv, ClockOK
  <2>2. q \in Requests /\ q.at = now /\ (q.kind # "none" => q.left >= 1) /\ now - now <= MaxDelay
    BY <1>3, <2>1 DEF Requests, RequestOK
  <2> HIDE DEF q
  <2>3. request' = [request EXCEPT ![p] = q]
    BY <1>5 DEF ReadClock, q, LimiterInv, RequestsOK
  <2>4. RequestsOK'
    BY <1>1, <2>2, <2>3, RequestStep
  <2>5. QED
    BY <1>2, <2>4 DEF LimiterInv
<1>6. CASE EvalFails(p)
  <2>1. RequestsOK'
    BY <1>1, <1>3, <1>6, RequestStep DEF EvalFails
  <2>2. QED
    BY <1>2, <2>1 DEF LimiterInv
<1>7. QED
  BY <1>4, <1>5, <1>6

\* Writing a bucket back with nothing taken from it changes nothing, although its
\* refill is then booked in two steps, at the script's timestamp and later.
LEMMA TakeNothing ==
  ASSUME LimiterInv, NEW k \in Keys, NEW at \in 0 .. now,
         bucket'[k] = Take(k, at, 0), now' = now
  PROVE  Available(k)' = Available(k)
<1> DEFINE c == capacity(k)
           r == refill_rate(k)
           t == bucket[k].tokens
           l == bucket[k].last_refill
           grown(n, x, y) == Smaller(c, n + (IF x > y THEN (x - y) * r ELSE 0))
<1>1. c \in Nat \ {0} /\ r \in Nat \ {0} /\ now \in Nat
  BY KeyNumbers DEF LimiterInv, ClockOK
<1>2. bucket'[k] = [live |-> TRUE, tokens |-> Refilled(k, at).tokens - 0,
                    last_refill |-> Refilled(k, at).last_refill, expires |-> now + Ttl(k)]
  BY DEF Take
<1>3. Available(k)' = grown(bucket'[k].tokens, now, bucket'[k].last_refill)
  <2>1. bucket'[k].live
    BY <1>2
  <2>2. QED
    BY <2>1 DEF Available, Refilled
<1>4. Refilled(k, at).tokens \in 0 .. c
  BY RefilledRange
<1>5. CASE ~bucket[k].live
  <2>1. Available(k) = c
    BY <1>5 DEF Available, Refilled
  <2>2. bucket'[k].tokens = c /\ bucket'[k].last_refill = at
    BY <1>1, <1>2, <1>5 DEF Refilled
  <2> HIDE DEF c, r
  <2>3. now > at => (now - at) * r \in Nat
    BY <1>1
  <2>4. QED
    BY <1>1, <1>3, <2>1, <2>2, <2>3 DEF Smaller
<1>6. CASE bucket[k].live
  <2>1. t \in 0 .. c /\ l \in 0 .. now
    BY DEF LimiterInv, KeysOK, BucketOK, Buckets
  <2>2. Available(k) = grown(t, now, l)
    BY <1>6 DEF Available, Refilled
  <2> DEFINE g == IF at > l THEN (at - l) * r ELSE 0
  <2>3. /\ Refilled(k, at).tokens = Smaller(c, t + g)
        /\ Refilled(k, at).last_refill = IF g > 0 THEN at ELSE l
    BY <1>6 DEF Refilled
  <2> HIDE DEF c, r, t, l
  <2>4. CASE at <= l
    <3>1. g = 0
      BY <1>1, <2>1, <2>4
    <3>2. bucket'[k].tokens = t /\ bucket'[k].last_refill = l
      BY <1>1, <1>2, <2>1, <2>3, <3>1 DEF Smaller
    <3>3. QED
      BY <1>3, <2>2, <3>2
  <2>5. CASE at > l
    <3>1. g = (at - l) * r /\ at - l >= 1
      BY <1>1, <2>1, <2>5
    <3>2. g >= r /\ g \in Nat
      BY <1>1, <2>1, <3>1
    <3> HIDE DEF g
    <3>3. bucket'[k].tokens = Smaller(c, t + g) /\ bucket'[k].last_refill = at
      BY <1>1, <1>2, <1>4, <2>3, <3>2
    <3>4. (now - l) * r = g + (now - at) * r /\ (now - at) * r \in Nat
      BY <1>1, <2>1, <3>1
    <3>5. (~(now > at)) => (now - at) * r = 0
      BY <1>1
    <3>6. Available(k)' = Smaller(c, Smaller(c, t + g) + (now - at) * r)
      BY <1>1, <1>3, <3>3, <3>4, <3>5
    <3>7. Available(k) = Smaller(c, t + g + (now - at) * r)
      BY <1>1, <2>1, <2>2, <2>5, <3>2, <3>4
    <3>8. QED
      BY <1>1, <2>1, <3>2, <3>4, <3>6, <3>7 DEF Smaller
  <2>6. QED
    BY <1>1, <2>1, <2>4, <2>5
<1>7. QED
  BY <1>5, <1>6

\* LimiterInv is preserved by every script, handler, expiry and second.
LEMMA StepPreserves == LimiterInv /\ [Next]_vars => LimiterInv'
<1> SUFFICES ASSUME LimiterInv, [Next]_vars PROVE LimiterInv'
  OBVIOUS
<1>1. CASE \E p \in Players : Command(p) \/ ReadClock(p) \/ EvalFails(p)
  BY <1>1, HandlerStep
<1>2. CASE \E p \in Players : AllowMutation(p)
  BY <1>2, AllowMutationStep
<1>3. CASE \E p \in Players : DrainN(p)
  BY <1>3, DrainNStep
<1>4. CASE \E k \in Keys : Expire(k)
  BY <1>4, ExpireStep
<1>5. CASE Second
  BY <1>5, SecondStep
<1>6. CASE OpenWindow
  BY <1>6, OpenWindowStep
<1>7. CASE UNCHANGED vars
  BY <1>7 DEF vars, LimiterInv, ClockOK, RequestsOK, Requests, RequestOK, KeysOK, BucketOK,
              Buckets, WithinBound, Potential, Ceiling
<1>8. QED
  BY <1>1, <1>2, <1>3, <1>4, <1>5, <1>6, <1>7 DEF Next

-----------------------------------------------------------------------------
(* The theorems.                                                             *)

\* The invariant holds of every behaviour of the limiter: scripts of
\* rate_limiter.go, in any order, repeated or lost, and keys that expire.
THEOREM LimiterInvariance == Spec => []LimiterInv
<1>1. Init => LimiterInv
  BY InitEstablishes
<1>2. LimiterInv /\ [Next]_vars => LimiterInv'
  BY StepPreserves
<1>3. QED
  BY <1>1, <1>2, PTL DEF Spec

\* Types; in particular HMSET never writes a bucket that is overdrawn or holds more
\* than its capacity.
THEOREM TypeCorrect == Spec => []TypeOK
<1>1. LimiterInv => TypeOK
  BY DEF LimiterInv, ClockOK, RequestsOK, Requests, KeysOK, BucketOK, TypeOK
<1>2. QED
  BY <1>1, LimiterInvariance, PTL

\* In any window of time no more tokens leave a bucket than its capacity and what
\* is refilled in the window, one second more if timestamps may be old.
THEOREM SpendingIsBounded == Spec => []SpendingBounded
<1>1. LimiterInv => SpendingBounded
  <2> SUFFICES ASSUME LimiterInv, NEW k \in Keys
               PROVE  windowSpent[k]
                        <= capacity(k) + refill_rate(k) * (now - windowStart + MaxDelay)
    BY DEF SpendingBounded
  <2>1. Potential(k) >= 0
    <3>1. CASE ~bucket[k].live
      BY <3>1, KeyNumbers DEF Potential, Ceiling
    <3>2. CASE bucket[k].live
      <4>1. /\ bucket[k].tokens \in Nat /\ now - bucket[k].last_refill \in Nat
            /\ refill_rate(k) \in Nat /\ capacity(k) \in Nat
        BY KeyNumbers DEF LimiterInv, ClockOK, KeysOK, BucketOK, Buckets
      <4>2. refill_rate(k) * (now - bucket[k].last_refill) >= 0
        BY <4>1
      <4>3. refill_rate(k) * MaxDelay \in Nat
        BY <4>1
      <4>4. Ceiling(k) \in Nat
        BY <4>1, <4>3 DEF Ceiling
      <4>5. /\ refill_rate(k) * (now - bucket[k].last_refill) \in Int
            /\ Potential(k) = Smaller(Ceiling(k), bucket[k].tokens
                                + refill_rate(k) * (now - bucket[k].last_refill))
        BY <3>2, <4>1 DEF Potential
      <4>6. QED
        BY <4>1, <4>2, <4>4, <4>5 DEF Smaller
    <3>3. QED
      BY <3>1, <3>2
  <2>2. windowSpent[k] \in Int /\ Potential(k) \in Int
    BY PotentialBounded DEF LimiterInv, KeysOK
  <2>3. refill_rate(k) * (now - windowStart + MaxDelay) \in Int /\ capacity(k) \in Int
    BY KeyNumbers DEF LimiterInv, ClockOK
  <2>4. QED
    BY <2>1, <2>2, <2>3 DEF LimiterInv, KeysOK, WithinBound
<1>2. QED
  BY <1>1, LimiterInvariance, PTL

\* EXPIRE's time to live is long enough: Redis forgets only buckets that a script
\* would find full.
THEOREM ExpiryIsHarmless == Spec => ExpiryGrantsNothing
<1>1. LimiterInv /\ [Next]_vars
        => [ \A k \in Keys :
               bucket[k].live /\ ~bucket'[k].live => Available(k) = capacity(k) ]_vars
  <2> SUFFICES ASSUME LimiterInv, Next, NEW k \in Keys, bucket[k].live, ~bucket'[k].live
               PROVE  Available(k) = capacity(k)
    OBVIOUS
  <2>1. ~Untouched(k)
    BY DEF Untouched
  <2>2. ASSUME NEW at, Taken(k, at) PROVE FALSE
    <3>1. PICK n : bucket'[k] = Take(k, at, n)
      BY <2>2 DEF Taken
    <3>2. Take(k, at, n).live = TRUE
      BY DEF Take
    <3>3. QED
      BY <3>1, <3>2
  <2>3. CASE \E p \in Players : AllowMutation(p) \/ DrainN(p)
    BY <2>1, <2>2, <2>3, AllowMutationStep, DrainNStep
  <2>4. CASE \E j \in Keys : Expire(j)
    BY <2>4, ExpireStep DEF Expire, LimiterInv, KeysOK
  <2>5. CASE UNCHANGED bucket
    BY <2>5
  <2>6. QED
    BY <2>3, <2>4, <2>5 DEF Next, Command, ReadClock, EvalFails, Second, OpenWindow
<1>2. QED
  BY <1>1, LimiterInvariance, PTL DEF Spec, ExpiryGrantsNothing

\* A refused SPAWN or PLACE_SHAPE leaves the global bucket as full as it was: the
\* rollback of luaTokenBucket gives back what it took.
THEOREM RefusalsTakeNothing == Spec => RefusalsAreFree
<1>1. LimiterInv /\ [Next]_vars
        => [ \A p \in Players :
               (/\ request[p].kind = "charge" /\ request[p].at # Unread
                /\ ~HasToken(p, request[p].at)
                /\ request'[p] # request[p])
               => Available(Global)' = Available(Global) ]_vars
  <2> SUFFICES ASSUME LimiterInv, Next, NEW p \in Players,
                      request[p].kind = "charge", request[p].at # Unread,
                      ~HasToken(p, request[p].at), request'[p] # request[p]
               PROVE  Available(Global)' = Available(Global)
    OBVIOUS
  <2>1. AllowMutation(p) \/ EvalFails(p)
    <3>1. ASSUME NEW q \in Players, q # p, NEW r, Answer(q, r)
          PROVE  FALSE
      BY <3>1 DEF Answer, LimiterInv, RequestsOK
    <3>2. ASSUME NEW q \in Players, q # p,
                 Command(q) \/ ReadClock(q) \/ AllowMutation(q) \/ DrainN(q) \/ EvalFails(q)
          PROVE  FALSE
      <4>1. CASE AllowMutation(q) \/ DrainN(q)
        BY <3>1, <3>2, <4>1 DEF AllowMutation, DrainN
      <4>2. CASE Command(q) \/ ReadClock(q) \/ EvalFails(q)
        BY <3>2, <4>2 DEF Command, ReadClock, EvalFails, LimiterInv, RequestsOK
      <4>3. QED
        BY <3>2, <4>1, <4>2
    <3>3. ~Command(p) /\ ~ReadClock(p) /\ ~DrainN(p)
      BY DEF Command, ReadClock, DrainN, NoRequest
    <3>4. ~Second /\ ~OpenWindow /\ \A k \in Keys : ~Expire(k)
      BY DEF Second, OpenWindow, Expire
    <3>5. QED
      BY <3>2, <3>3, <3>4 DEF Next
  <2>2. CASE UNCHANGED <<bucket, now>>
    BY <2>2 DEF Available, Refilled
  <2>3. CASE AllowMutation(p) /\ ~UNCHANGED <<bucket, now>>
    <3>1. bucket' = [bucket EXCEPT ![Global] = Take(Global, request[p].at, 0)] /\ now' = now
      BY <2>3 DEF AllowMutation
    <3>2. Global \in Keys /\ request[p].at \in 0 .. now
      BY RequestFacts
    <3>3. bucket'[Global] = Take(Global, request[p].at, 0)
      BY <3>1, <3>2 DEF LimiterInv, KeysOK
    <3>4. QED
      BY <3>1, <3>2, <3>3, TakeNothing
  <2>4. QED
    BY <2>1, <2>2, <2>3 DEF EvalFails
<1>2. QED
  BY <1>1, LimiterInvariance, PTL DEF Spec, RefusalsAreFree
=============================================================================
