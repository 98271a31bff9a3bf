---------------------------- MODULE RateLimiter ----------------------------
(***************************************************************************)
(* keyedRateLimiter (internal/server/ratelimit.go): token buckets created  *)
(* on first use, refilled lazily when their key asks again, and swept away *)
(* after a time of idleness.  One instance guards the public endpoints per *)
(* client address, one the metrics endpoint, one the WebSocket messages of *)
(* each device.                                                            *)
(*                                                                         *)
(* The code counts tokens in floating point and asks for 1; here a token   *)
(* is Cost units and Rate is in units per tick, so that every quantity is  *)
(* an integer.  The monotonic clock never goes back.                       *)
(***************************************************************************)
EXTENDS Integers

CONSTANTS
    Keys,           \* client addresses, or device ids
    Rate,           \* units a bucket gains per tick
    Burst,          \* units a bucket holds
    Cost,           \* units a request takes: one token
    SweepInterval,  \* rateLimitSweepInterval
    TTL,            \* rateLimitBucketTTL
    MaxTime,        \* bound: ticks
    MaxRequests     \* bound: requests of each key

\* The last conjunct holds for the three limiters of the code: ten minutes
\* refill a bucket of at most 20 at 1 per second or more.
ASSUME LimiterAssumption ==
    /\ Rate \in Nat /\ Burst \in Nat /\ Cost \in Nat /\ Cost > 0
    /\ SweepInterval \in Nat /\ TTL \in Nat
    /\ MaxTime \in Nat /\ MaxRequests \in Nat
    /\ Burst <= Rate * TTL

VARIABLES
    now,        \* the clock
    keys,       \* the keys that have a bucket
    tokens,     \* bucket.tokens
    last,       \* bucket.last
    lastSweep,  \* keyedRateLimiter.lastSweep
    admitted,   \* history: requests admitted, per key
    rejected,   \* history: requests rejected, per key
    since,      \* observer: the start of some window of time
    base        \* observer: admitted at that moment

observerVars == <<since, base>>
vars == <<now, keys, tokens, last, lastSweep, admitted, rejected, observerVars>>

TypeOK ==
    /\ now \in Nat
    /\ keys \subseteq Keys
    /\ tokens \in [Keys -> 0..Burst]
    /\ last \in [Keys -> 0..now]
    /\ lastSweep \in 0..now
    /\ admitted \in [Keys -> Nat]
    /\ rejected \in [Keys -> Nat]
    /\ since \in 0..now
    /\ base \in [Keys -> Nat]

Init ==
    /\ now = 0
    /\ keys = {}
    /\ tokens = [k \in Keys |-> 0]
    /\ last = [k \in Keys |-> 0]
    /\ lastSweep = 0
    /\ admitted = [k \in Keys |-> 0]
    /\ rejected = [k \in Keys |-> 0]
    /\ since = 0
    /\ base = [k \in Keys |-> 0]

----------------------------------------------------------------------------
(* Slips a change to the code could make; substituted for the definition   *)
(* named beside it, each breaks one of the properties below.               *)

NoCap(x)      == x              \* Capped
AnyAge(k)     == TRUE           \* Idle
NeverIdle(k)  == FALSE          \* Idle

----------------------------------------------------------------------------
Capped(x) == IF x > Burst THEN Burst ELSE x

Enough(t) == t >= Cost

\* sweep evicts a bucket idle for longer than the TTL.
Idle(k) == now - last[k] > TTL

SweepDue == now - lastSweep >= SweepInterval

\* The keys that keep their bucket when allow calls sweep first.
Swept == IF SweepDue THEN {k \in keys : ~Idle(k)} ELSE keys

\* The bucket allow finds or makes, refilled for the time since its last use.
Refilled(k) ==
    IF k \in Swept THEN Capped(tokens[k] + Rate * (now - last[k])) ELSE Burst

\* allow holds the limiter's lock from the first line to the last.
Allow(k) ==
    /\ admitted[k] + rejected[k] < MaxRequests
    /\ keys' = Swept \cup {k}
    /\ lastSweep' = IF SweepDue THEN now ELSE lastSweep
    /\ last' = [last EXCEPT ![k] = now]
    /\ \/ /\ Enough(Refilled(k))
          /\ tokens' = [tokens EXCEPT ![k] = Refilled(k) - Cost]
          /\ admitted' = [admitted EXCEPT ![k] = @ + 1]
          /\ rejected' = rejected
       \/ /\ ~Enough(Refilled(k))
          /\ tokens' = [tokens EXCEPT ![k] = Refilled(k)]
          /\ rejected' = [rejected EXCEPT ![k] = @ + 1]
          /\ admitted' = admitted
    /\ UNCHANGED <<now, observerVars>>

Tick ==
    /\ now < MaxTime
    /\ now' = now + 1
    /\ UNCHANGED <<keys, tokens, last, lastSweep, admitted, rejected,
                   observerVars>>

\* The observer starts to count at any moment.
OpenWindow ==
    /\ since' = now
    /\ base' = admitted
    /\ UNCHANGED <<now, keys, tokens, last, lastSweep, admitted, rejected>>

Next == Tick \/ OpenWindow \/ \E k \in Keys : Allow(k)

Spec == Init /\ [][Next]_vars

----------------------------------------------------------------------------
(* Properties.                                                             *)

\* What a bucket holds now: lazy refilling made eager, absence made full.
Level(k) ==
    IF k \in keys THEN Capped(tokens[k] + Rate * (now - last[k])) ELSE Burst

(***************************************************************************)
(* Whatever the sweeps did, no key gets more than a full burst and the     *)
(* refill of the elapsed time admitted in any window of time.              *)
(***************************************************************************)
WindowBound ==
    \A k \in Keys :
        Cost * (admitted[k] - base[k]) <= Burst + Rate * (now - since)

(***************************************************************************)
(* The map does not keep what a sweep should have dropped: no bucket was   *)
(* idle for longer than the TTL at the last sweep.                         *)
(***************************************************************************)
SweptClean == \A k \in keys : lastSweep - last[k] <= TTL

(***************************************************************************)
(* Lazy refill and eviction are invisible: the limiter admits and rejects  *)
(* exactly as buckets that refill continuously and are never evicted.      *)
(***************************************************************************)
Ideal == INSTANCE TokenBucket WITH level <- [k \in Keys |-> Level(k)]

IdealSpec == Ideal!Spec
============================================================================
