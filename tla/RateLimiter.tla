---------------------------- MODULE RateLimiter ----------------------------
(***************************************************************************)
(* The two token-bucket scripts of ratelimit/rate_limiter.go, run by Redis *)
(* one at a time, and the handlers of gateway/router.go that call them:    *)
(* SPAWN and PLACE_SHAPE charge one token per cell, one script per token   *)
(* (chargeN); PLACE_CUSTOM drains what there is (DrainN).                  *)
(*                                                                         *)
(* Time is counted in whole seconds, as time.Now().Unix() and EXPIRE do.   *)
(* A handler reads the clock and then calls Redis: by the time the script  *)
(* runs its timestamp may be MaxDelay seconds old, and scripts of two      *)
(* handlers may run in the order opposite to that of their timestamps.     *)
(***************************************************************************)
EXTENDS Integers

CONSTANTS
  Players,
  Global,        \* the server-wide key; a player's key is the player
  g_cap, g_rate, \* 10000 and 2000 in the code
  p_cap, p_rate, \* 50 and 5
  ChargeSizes,   \* cells of a SPAWN (1) and of the catalogue's shapes
  DrainSizes,    \* tokens wanted for custom pieces, the penalty included
  RedisFaults,   \* whether Eval may fail, before or after the script has run
  MaxDelay,      \* age of a timestamp when its script runs, in seconds
  MaxTime        \* bound on the clock

Keys == Players \cup {Global}
capacity(k)    == IF k = Global THEN g_cap ELSE p_cap
refill_rate(k) == IF k = Global THEN g_rate ELSE p_rate

\* A Redis round trip takes less than a second, so that it meets at most one tick
\* of the clock.
ASSUME LimiterAssumption ==
  /\ Global \notin Players
  /\ {g_cap, g_rate, p_cap, p_rate} \subseteq Nat \ {0}
  /\ ChargeSizes \cup DrainSizes \subseteq Nat \ {0}
  /\ RedisFaults \in BOOLEAN
  /\ MaxDelay \in {0, 1}
  /\ MaxTime \in Nat

VARIABLES
  now,          \* the clock
  bucket,       \* the Redis hash of each key, and when it expires
  request,      \* per player, the command its handler is charging for
  windowStart,  \* history: start of a window of time, any one
  windowSpent   \* history: tokens taken from each bucket in that window

vars == <<now, bucket, request, windowStart, windowSpent>>

Unread == -1
Absent == [live |-> FALSE, tokens |-> 0, last_refill |-> 0, expires |-> 0]
NoRequest == [kind |-> "none", left |-> 0, at |-> Unread]

Init ==
  /\ now = 0
  /\ bucket = [k \in Keys |-> Absent]
  /\ request = [p \in Players |-> NoRequest]
  /\ windowStart = 0
  /\ windowSpent = [k \in Keys |-> 0]

-----------------------------------------------------------------------------
Smaller(a, b) == IF a < b THEN a ELSE b

\* Mutant: the time that has passed is not cut off at the capacity.
RefilledUncapped(k, at) ==
  IF ~bucket[k].live THEN [tokens |-> capacity(k), last_refill |-> at]
  ELSE LET b == bucket[k]
           added == IF at > b.last_refill THEN (at - b.last_refill) * refill_rate(k) ELSE 0
       IN [tokens |-> b.tokens + added,
           last_refill |-> IF added > 0 THEN at ELSE b.last_refill]

\* The bucket of key k as a script with timestamp `at` finds it.
Refilled(k, at) ==
  IF ~bucket[k].live THEN [tokens |-> capacity(k), last_refill |-> at]
  ELSE LET b == bucket[k]
           added == IF at > b.last_refill THEN (at - b.last_refill) * refill_rate(k) ELSE 0
       IN [tokens |-> Smaller(capacity(k), b.tokens + added),
           last_refill |-> IF added > 0 THEN at ELSE b.last_refill]

\* Mutant: the key lives for capacity / refill_rate seconds, rounded down.
ShortTtl(k) == capacity(k) \div refill_rate(k)

\* math.ceil(capacity / refill_rate) + 1, in Redis's own clock.
Ttl(k) == (capacity(k) + refill_rate(k) - 1) \div refill_rate(k) + 1

\* HMSET and EXPIRE of key k, n tokens taken from what was found.
Take(k, at, n) ==
  [live |-> TRUE, tokens |-> Refilled(k, at).tokens - n,
   last_refill |-> Refilled(k, at).last_refill, expires |-> now + Ttl(k)]

HasToken(k, at) == Refilled(k, at).tokens >= 1

\* The reply r of a script reaches the handler; or it is lost and the handler ends
\* with INTERNAL_ERROR; or it is lost and the Redis client sends the script again.
Answer(p, r) ==
  \/ request' = [request EXCEPT ![p] = r]
  \/ RedisFaults /\ request' = [request EXCEPT ![p] = NoRequest]
  \/ RedisFaults /\ UNCHANGED request

-----------------------------------------------------------------------------
\* The handler of a SPAWN, PLACE_SHAPE or PLACE_CUSTOM starts.
Command(p) ==
  /\ request[p] = NoRequest
  /\ \/ \E n \in ChargeSizes :
          request' = [request EXCEPT ![p] = [kind |-> "charge", left |-> n, at |-> Unread]]
     \/ \E n \in DrainSizes :
          request' = [request EXCEPT ![p] = [kind |-> "drain", left |-> n, at |-> Unread]]
  /\ UNCHANGED <<now, bucket, windowStart, windowSpent>>

\* time.Now().Unix()
ReadClock(p) ==
  /\ request[p].kind # "none" /\ request[p].at = Unread
  /\ request' = [request EXCEPT ![p].at = now]
  /\ UNCHANGED <<now, bucket, windowStart, windowSpent>>

\* What chargeN does after an allowed token: the next one, or the cells are placed.
Charged(p) ==
  IF request[p].left = 1 THEN NoRequest
  ELSE [request[p] EXCEPT !.left = @ - 1, !.at = Unread]

\* Mutant: the global token of a refused player is kept.
AllowWithoutRollback(p) ==
  LET at == request[p].at IN
  /\ request[p].kind = "charge" /\ at # Unread
  /\ \/ /\ ~HasToken(Global, at)
        /\ Answer(p, NoRequest)
        /\ UNCHANGED <<bucket, windowSpent>>
     \/ /\ HasToken(Global, at) /\ ~HasToken(p, at)
        /\ bucket' = [bucket EXCEPT ![Global] = Take(Global, at, 1)]
        /\ Answer(p, NoRequest)
        /\ UNCHANGED windowSpent
     \/ /\ HasToken(Global, at) /\ HasToken(p, at)
        /\ bucket' = [bucket EXCEPT ![Global] = Take(Global, at, 1), ![p] = Take(p, at, 1)]
        /\ Answer(p, Charged(p))
        /\ windowSpent' = [windowSpent EXCEPT ![Global] = @ + 1, ![p] = @ + 1]
  /\ UNCHANGED <<now, windowStart>>

\* luaTokenBucket: the global bucket, then the player's; a token taken from the
\* first is given back (HINCRBY) when the second is empty.
AllowMutation(p) ==
  LET at == request[p].at IN
  /\ request[p].kind = "charge" /\ at # Unread
  /\ \/ /\ ~HasToken(Global, at)
        /\ Answer(p, NoRequest)
        /\ UNCHANGED <<bucket, windowSpent>>
     \/ /\ HasToken(Global, at) /\ ~HasToken(p, at)
        /\ bucket' = [bucket EXCEPT ![Global] = Take(Global, at, 0)]
        /\ Answer(p, NoRequest)
        /\ UNCHANGED windowSpent
     \/ /\ HasToken(Global, at) /\ HasToken(p, at)
        /\ bucket' = [bucket EXCEPT ![Global] = Take(Global, at, 1), ![p] = Take(p, at, 1)]
        /\ Answer(p, Charged(p))
        /\ windowSpent' = [windowSpent EXCEPT ![Global] = @ + 1, ![p] = @ + 1]
  /\ UNCHANGED <<now, windowStart>>

Consumed(p) == Smaller(request[p].left, Refilled(p, request[p].at).tokens)

\* Mutant: the player's bucket is not clamped at zero.
DrainUnclamped(p) ==
  LET at == request[p].at IN
  /\ request[p].kind = "drain" /\ at # Unread
  /\ Answer(p, NoRequest)
  /\ \/ /\ ~HasToken(Global, at)
        /\ UNCHANGED <<bucket, windowSpent>>
     \/ /\ HasToken(Global, at)
        /\ bucket' = [bucket EXCEPT ![Global] = Take(Global, at, 1),
                                    ![p] = Take(p, at, request[p].left)]
        /\ windowSpent' = [windowSpent EXCEPT ![Global] = @ + 1, ![p] = @ + request[p].left]
  /\ UNCHANGED <<now, windowStart>>

\* luaDrainN: one global token, and what the player has of the tokens wanted.  The
\* piece is placed unless nothing was consumed; either way the command is over.
DrainN(p) ==
  LET at == request[p].at IN
  /\ request[p].kind = "drain" /\ at # Unread
  /\ Answer(p, NoRequest)
  /\ \/ /\ ~HasToken(Global, at)
        /\ UNCHANGED <<bucket, windowSpent>>
     \/ /\ HasToken(Global, at)
        /\ bucket' = [bucket EXCEPT ![Global] = Take(Global, at, 1),
                                    ![p] = Take(p, at, Consumed(p))]
        /\ windowSpent' = [windowSpent EXCEPT ![Global] = @ + 1, ![p] = @ + Consumed(p)]
  /\ UNCHANGED <<now, windowStart>>

\* Eval fails before the script has run.
EvalFails(p) ==
  /\ RedisFaults
  /\ request[p].at # Unread
  /\ request' = [request EXCEPT ![p] = NoRequest]
  /\ UNCHANGED <<now, bucket, windowStart, windowSpent>>

\* A key goes at some moment of the second in which its time to live ends.
Expire(k) ==
  /\ bucket[k].live /\ bucket[k].expires = now
  /\ bucket' = [bucket EXCEPT ![k] = Absent]
  /\ UNCHANGED <<now, request, windowStart, windowSpent>>

Second ==
  /\ now < MaxTime
  /\ \A k \in Keys : bucket[k].live => now < bucket[k].expires
  /\ \A p \in Players : request[p].at # Unread => now - request[p].at < MaxDelay
  /\ now' = now + 1
  /\ UNCHANGED <<bucket, request, windowStart, windowSpent>>

\* The window of time that is being watched starts now.
OpenWindow ==
  /\ windowStart < now
  /\ windowStart' = now
  /\ windowSpent' = [k \in Keys |-> 0]
  /\ UNCHANGED <<now, bucket, request>>

Next ==
  \/ \E p \in Players :
       Command(p) \/ ReadClock(p) \/ AllowMutation(p) \/ DrainN(p) \/ EvalFails(p)
  \/ \E k \in Keys : Expire(k)
  \/ Second
  \/ OpenWindow

Spec == Init /\ [][Next]_vars

-----------------------------------------------------------------------------
Buckets(k) ==
  [live : BOOLEAN, tokens : 0 .. capacity(k), last_refill : 0 .. now, expires : Nat]

\* In particular no bucket is ever overdrawn or filled beyond its capacity.
TypeOK ==
  /\ now \in 0 .. MaxTime
  /\ DOMAIN bucket = Keys
  /\ \A k \in Keys : bucket[k] \in Buckets(k)
  /\ request \in [Players -> [kind : {"none", "charge", "drain"},
                              left : Nat, at : {Unread} \cup 0 .. now]]
  /\ windowStart \in 0 .. now
  /\ windowSpent \in [Keys -> Nat]

\* What the scripts exist for: in any window of time no more tokens leave a bucket
\* than its capacity and what is refilled meanwhile, although scripts run late and
\* out of order, are repeated, and keys expire.
SpendingBounded ==
  \A k \in Keys :
    windowSpent[k] <= capacity(k) + refill_rate(k) * (now - windowStart + MaxDelay)

Available(k) == Refilled(k, now).tokens

\* Redis forgets a bucket only when it would be full anyway.
ExpiryGrantsNothing ==
  [][ \A k \in Keys :
        bucket[k].live /\ ~bucket'[k].live => Available(k) = capacity(k) ]_vars

\* A player who is out of tokens and goes on sending SPAWN and PLACE_SHAPE takes
\* nothing from the other players: the global bucket is as full as before.
RefusalsAreFree ==
  [][ \A p \in Players :
        (/\ request[p].kind = "charge" /\ request[p].at # Unread
         /\ ~HasToken(p, request[p].at)
         /\ request'[p] # request[p])
        => Available(Global)' = Available(Global) ]_vars

-----------------------------------------------------------------------------
\* PATCH_NOTES.md: custom pieces are "always placed, regardless of budget", and the
\* "only hard rejection is if the global server-wide capacity is exhausted".
CustomAlwaysPlaced ==
  [][ \A p \in Players :
        DrainN(p) /\ Consumed(p) = 0 => ~HasToken(Global, request[p].at) ]_vars
=============================================================================
