------------------------- MODULE RateLimiterProofs -------------------------
(***************************************************************************)
(* Proofs about RateLimiter for every rate, burst, sweep interval and TTL  *)
(* that satisfy LimiterAssumption: eviction and lazy refill are invisible, *)
(* and the bound on what is admitted follows from that.  Then about        *)
(* Requests: it uses the limiter as its specification says, and every      *)
(* request is counted as what the client was sent.                         *)
(***************************************************************************)
EXTENDS Requests, TLAPS

\* The buckets of every key as the ideal limiter sees them.
Levels == [k \in Keys |-> Level(k)]

----------------------------------------------------------------------------
(* Arithmetic: the products of Rate and a time that the proofs need.       *)

\* The gain over two consecutive spans of time adds up.
LEMMA GainAdds ==
    ASSUME NEW a \in Int, NEW b \in Int
    PROVE  Rate * (a + b) = Rate * a + Rate * b
BY LimiterAssumption

\* The gain over a span of time is a natural number.
LEMMA GainType ==
    ASSUME NEW a \in Nat
    PROVE  Rate * a \in Nat
BY LimiterAssumption

\* A bucket idle for longer than the TTL has gained a full burst.
LEMMA IdleGain ==
    ASSUME NEW a \in Int, a > TTL
    PROVE  Burst <= Rate * a
<1>1. Rate * a = Rate * TTL + Rate * (a - TTL)
  <2>1. a = TTL + (a - TTL) /\ TTL \in Int /\ a - TTL \in Int
      BY LimiterAssumption
  <2> QED
      BY <2>1, GainAdds
<1>2. Rate * (a - TTL) \in Nat
  <2>1. a - TTL \in Nat
      BY LimiterAssumption
  <2> QED
      BY <2>1, GainType
<1>3. Rate * TTL \in Nat
    BY LimiterAssumption, GainType
<1> QED
    BY <1>1, <1>2, <1>3, LimiterAssumption

\* A gain of a full burst fills a bucket, whatever it held.
LEMMA CapReached ==
    ASSUME NEW t \in Nat, NEW gain \in Nat, Burst <= gain
    PROVE  Capped(t + gain) = Burst
BY LimiterAssumption DEF Capped

----------------------------------------------------------------------------
(* Type correctness.                                                       *)

\* A refilled bucket holds between nothing and a burst.
LEMMA RefilledType ==
    ASSUME TypeOK, NEW k \in Keys
    PROVE  Refilled(k) \in 0..Burst
<1>1. now - last[k] \in Nat /\ tokens[k] \in Nat
    BY LimiterAssumption DEF TypeOK
<1>2. Rate * (now - last[k]) \in Nat
    BY <1>1, GainType
<1> QED
    BY <1>1, <1>2, LimiterAssumption DEF Refilled, Capped

\* Every step keeps the types.
LEMMA TypeNext == TypeOK /\ [Next]_vars => TypeOK'
<1> SUFFICES ASSUME TypeOK, [Next]_vars PROVE TypeOK'
    OBVIOUS
<1> USE LimiterAssumption
<1>1. CASE Tick
    BY <1>1 DEF Tick, TypeOK, observerVars
<1>2. CASE OpenWindow
    BY <1>2 DEF OpenWindow, TypeOK
<1>3. ASSUME NEW k \in Keys, Allow(k) PROVE TypeOK'
  <2>1. Refilled(k) \in 0..Burst
      BY RefilledType
  <2>2. tokens' \in [Keys -> 0..Burst]
      BY <1>3, <2>1 DEF Allow, Enough, TypeOK
  <2>3. keys' \subseteq Keys
      BY <1>3 DEF Allow, Swept, TypeOK
  <2>4. /\ now' = now /\ since' = since /\ base' = base
        /\ last' \in [Keys -> 0..now] /\ lastSweep' \in 0..now
      BY <1>3 DEF Allow, TypeOK, observerVars
  <2>5. admitted' \in [Keys -> Nat] /\ rejected' \in [Keys -> Nat]
      BY <1>3 DEF Allow, TypeOK
  <2> QED
      BY <2>2, <2>3, <2>4, <2>5 DEF TypeOK
<1>4. CASE UNCHANGED vars
    BY <1>4 DEF vars, observerVars, TypeOK
<1> QED
    BY <1>1, <1>2, <1>3, <1>4 DEF Next

(***************************************************************************)
(* Type correctness of the limiter; in particular no balance is negative   *)
(* or above the burst.                                                     *)
(***************************************************************************)
THEOREM TypeCorrect == Spec => []TypeOK
<1>1. Init => TypeOK
    BY LimiterAssumption DEF Init, TypeOK
<1> QED
    BY <1>1, TypeNext, PTL DEF Spec

----------------------------------------------------------------------------
(* Lazy refill is eager refill, and eviction changes no level.             *)

\* A level is between nothing and a burst.
LEMMA LevelType ==
    ASSUME TypeOK, NEW k \in Keys
    PROVE  Level(k) \in 0..Burst
<1>1. now - last[k] \in Nat /\ tokens[k] \in Nat
    BY LimiterAssumption DEF TypeOK
<1>2. Rate * (now - last[k]) \in Nat
    BY <1>1, GainType
<1> QED
    BY <1>1, <1>2, LimiterAssumption DEF Level, Capped

\* An idle bucket is full.
LEMMA IdleIsFull ==
    ASSUME TypeOK, NEW k \in Keys, Idle(k)
    PROVE  Level(k) = Burst
<1>1. now - last[k] \in Nat /\ tokens[k] \in Nat
    BY LimiterAssumption DEF TypeOK
<1>2. Burst <= Rate * (now - last[k]) /\ Rate * (now - last[k]) \in Nat
    BY <1>1, IdleGain, GainType DEF Idle
<1>3. Capped(tokens[k] + Rate * (now - last[k])) = Burst
    BY <1>1, <1>2, CapReached
<1> QED
    BY <1>3 DEF Level

\* What allow finds in a bucket after its sweep is the bucket's level.
LEMMA RefilledIsLevel ==
    ASSUME TypeOK, NEW k \in Keys
    PROVE  Refilled(k) = Level(k)
<1>1. CASE k \in Swept
    BY <1>1 DEF Refilled, Level, Swept
<1>2. CASE k \notin Swept /\ k \in keys
    BY <1>2, IdleIsFull DEF Refilled, Swept
<1>3. CASE k \notin keys
    BY <1>3 DEF Refilled, Level, Swept
<1> QED
    BY <1>1, <1>2, <1>3

\* A request changes the level of its own key only, by its cost or not at
\* all.
LEMMA AllowLevels ==
    ASSUME TypeOK, NEW k \in Keys, Allow(k)
    PROVE  /\ \A x \in Keys \ {k} : Level(x)' = Level(x)
           /\ Enough(Level(k)) => Level(k)' = Level(k) - Cost
           /\ ~Enough(Level(k)) => Level(k)' = Level(k)
<1>1. ASSUME NEW x \in Keys \ {k} PROVE Level(x)' = Level(x)
  <2>1. tokens'[x] = tokens[x] /\ last'[x] = last[x] /\ now' = now
      BY DEF Allow, TypeOK
  <2>2. CASE x \in Swept
      BY <2>1, <2>2 DEF Allow, Level, Swept
  <2>3. CASE x \notin Swept /\ x \in keys
    <3>1. Level(x) = Burst
        BY <2>3, IdleIsFull DEF Swept
    <3>2. x \notin keys'
        BY <2>3 DEF Allow
    <3> QED
        BY <3>1, <3>2 DEF Level
  <2>4. CASE x \notin keys
      BY <2>4 DEF Allow, Level, Swept
  <2> QED
      BY <2>2, <2>3, <2>4
<1>2. Refilled(k) = Level(k) /\ Level(k) \in 0..Burst
    BY RefilledIsLevel, LevelType
<1>3. k \in keys' /\ last'[k] = now /\ now' = now
    BY DEF Allow, TypeOK
<1>4. Level(k)' = Capped(tokens'[k])
  <2>1. now' - last'[k] = 0 /\ Rate * 0 = 0
      BY <1>3, LimiterAssumption DEF TypeOK
  <2>2. tokens'[k] \in Int
      BY <1>2, LimiterAssumption DEF Allow, TypeOK
  <2> QED
      BY <1>3, <2>1, <2>2 DEF Level, Capped
<1>5. Enough(Level(k)) => tokens'[k] = Level(k) - Cost
    BY <1>2 DEF Allow, TypeOK
<1>6. ~Enough(Level(k)) => tokens'[k] = Level(k)
    BY <1>2 DEF Allow, TypeOK
<1> QED
    BY <1>1, <1>2, <1>4, <1>5, <1>6, LimiterAssumption DEF Capped, Enough

\* As time passes every level rises by the rate, up to the burst.
LEMMA TickLevels ==
    ASSUME TypeOK, Tick, NEW k \in Keys
    PROVE  Level(k)' = Capped(Level(k) + Rate * (now' - now))
<1>1. /\ now' = now + 1 /\ keys' = keys /\ tokens' = tokens /\ last' = last
      /\ now \in Nat /\ tokens[k] \in Nat /\ last[k] \in Nat
      /\ now - last[k] \in Nat
    BY LimiterAssumption DEF Tick, TypeOK
<1>2. Rate * (now' - last[k]) = Rate * (now - last[k]) + Rate * (now' - now)
  <2>1. now' - last[k] = (now - last[k]) + (now' - now)
      BY <1>1
  <2>2. now - last[k] \in Int /\ now' - now \in Int
      BY <1>1
  <2>3. Rate * ((now - last[k]) + (now' - now))
            = Rate * (now - last[k]) + Rate * (now' - now)
      BY <2>2, GainAdds
  <2> QED
      BY <2>1, <2>3
<1>3. Rate * (now - last[k]) \in Nat /\ Rate * (now' - now) \in Nat
    BY <1>1, GainType
<1> QED
    BY <1>1, <1>2, <1>3, LimiterAssumption DEF Level, Capped

----------------------------------------------------------------------------
(* The refinement of TokenBucket.                                          *)

\* The initial state maps to the initial state of the ideal limiter.
LEMMA IdealInit == Init => Ideal!Init
BY DEF Init, Ideal!Init, Level

\* Every step maps to a step of the ideal limiter or to a stutter.
LEMMA IdealNext == TypeOK /\ [Next]_vars => [Ideal!Next]_(Ideal!bucketVars)
<1> SUFFICES ASSUME TypeOK, [Next]_vars
             PROVE  Ideal!Next \/ UNCHANGED Ideal!bucketVars
    OBVIOUS
<1>1. CASE Tick
  <2>1. Levels' = [k \in Keys |-> Ideal!AtMostBurst(Levels[k] + Rate * (now' - now))]
      BY <1>1, TickLevels DEF Levels, Ideal!AtMostBurst, Capped
  <2>2. now' > now /\ UNCHANGED <<admitted, rejected>>
      BY <1>1 DEF Tick, TypeOK
  <2> QED
      BY <2>1, <2>2 DEF Levels, Ideal!Next, Ideal!TimePasses
<1>2. ASSUME NEW k \in Keys, Allow(k)
      PROVE  Ideal!Next
  <2>0. Refilled(k) = Level(k) /\ Level(k) \in 0..Burst
      BY RefilledIsLevel, LevelType
  <2>1. CASE Enough(Level(k))
    <3>1. Levels' = [Levels EXCEPT ![k] = @ - Cost]
        BY <1>2, <2>1, AllowLevels DEF Levels
    <3>2. /\ Level(k) >= Cost /\ UNCHANGED <<now, rejected>>
          /\ admitted' = [admitted EXCEPT ![k] = @ + 1]
        BY <1>2, <2>0, <2>1 DEF Allow, Enough
    <3>3. Ideal!Admit(k)
        BY <3>1, <3>2 DEF Levels, Ideal!Admit
    <3> QED
        BY <3>3 DEF Ideal!Next
  <2>2. CASE ~Enough(Level(k))
    <3>1. Levels' = Levels
        BY <1>2, <2>2, AllowLevels DEF Levels
    <3>2. /\ Level(k) < Cost /\ UNCHANGED <<now, admitted>>
          /\ rejected' = [rejected EXCEPT ![k] = @ + 1]
        BY <1>2, <2>0, <2>2, LimiterAssumption DEF Allow, Enough
    <3>3. Ideal!Reject(k)
        BY <3>1, <3>2 DEF Levels, Ideal!Reject
    <3> QED
        BY <3>3 DEF Ideal!Next
  <2> QED
      BY <2>1, <2>2
<1>3. CASE OpenWindow
    BY <1>3 DEF OpenWindow, Level, Ideal!bucketVars
<1>4. CASE UNCHANGED vars
    BY <1>4 DEF vars, Level, Ideal!bucketVars
<1> QED
    BY <1>1, <1>2, <1>3, <1>4 DEF Next

(***************************************************************************)
(* The limiter admits and rejects exactly as ideal buckets that are never  *)
(* evicted.                                                                *)
(***************************************************************************)
THEOREM ImplementsIdeal == Spec => IdealSpec
<1>1. Spec => Ideal!Init /\ [][Ideal!Next]_(Ideal!bucketVars)
    BY IdealInit, IdealNext, TypeCorrect, PTL DEF Spec
<1> QED
    BY <1>1 DEF IdealSpec, Ideal!Spec

----------------------------------------------------------------------------
(* The bound on a window and the map's cleanliness.                        *)

\* The inductive form of WindowBound: what is left in the bucket counts too.
WindowBudget ==
    \A k \in Keys :
        Cost * (admitted[k] - base[k]) + Level(k) <= Burst + Rate * (now - since)

\* A cap only lowers.
LEMMA CapLowers ==
    ASSUME NEW x \in Int
    PROVE  Capped(x) <= x
BY LimiterAssumption DEF Capped

\* Every step keeps the budget: an admission moves its cost from the bucket
\* to the count, and time adds to both sides.
LEMMA BudgetNext == TypeOK /\ WindowBudget /\ [Next]_vars => WindowBudget'
<1> SUFFICES ASSUME TypeOK, WindowBudget, [Next]_vars, NEW x \in Keys
             PROVE  (Cost * (admitted[x] - base[x]) + Level(x)
                        <= Burst + Rate * (now - since))'
    BY DEF WindowBudget
<1> DEFINE Spent == Cost * (admitted[x] - base[x])
           Gain  == Rate * (now - since)
<1>0. /\ Spent \in Int /\ Gain \in Int /\ Level(x) \in 0..Burst
      /\ Spent + Level(x) <= Burst + Gain
      /\ now \in Nat /\ since \in Nat /\ now - since \in Int
      /\ admitted[x] \in Nat /\ base[x] \in Nat
    BY LevelType, LimiterAssumption DEF TypeOK, WindowBudget
<1>1. CASE Tick
  <2>1. now' = now + 1 /\ UNCHANGED <<since, admitted, base>>
      BY <1>1 DEF Tick, observerVars
  <2>2. Level(x)' = Capped(Level(x) + Rate * (now' - now))
      BY <1>1, TickLevels
  <2>3. Rate * (now' - now) \in Nat /\ now' - now \in Int
      BY <1>0, <2>1, GainType
  <2>4. Level(x)' <= Level(x) + Rate * (now' - now)
      BY <1>0, <2>2, <2>3, CapLowers
  <2>5. Gain' = Gain + Rate * (now' - now)
    <3>1. now' - since' = (now - since) + (now' - now)
        BY <1>0, <2>1
    <3> QED
        BY <1>0, <2>3, <3>1, GainAdds
  <2>6. Spent' = Spent
      BY <2>1
  <2>7. Level(x)' \in Int
      BY <1>0, <2>2, <2>3, LimiterAssumption DEF Capped
  <2> HIDE DEF Spent, Gain
  <2>8. Spent' + Level(x)' <= Burst + Gain'
      BY <1>0, <2>3, <2>4, <2>5, <2>6, <2>7, LimiterAssumption
  <2> QED
      BY <2>8 DEF Spent, Gain
<1>2. CASE OpenWindow
  <2>1. Level(x)' = Level(x)
      BY <1>2 DEF OpenWindow, Level
  <2>2. admitted'[x] - base'[x] = 0 /\ now' - since' = 0
      BY <1>0, <1>2 DEF OpenWindow
  <2>3. Spent' = 0 /\ Gain' = 0
      BY <2>2, LimiterAssumption
  <2> HIDE DEF Spent, Gain
  <2>4. Spent' + Level(x)' <= Burst + Gain'
      BY <1>0, <2>1, <2>3, LimiterAssumption
  <2> QED
      BY <2>4 DEF Spent, Gain
<1>3. ASSUME NEW k \in Keys, Allow(k)
      PROVE  Spent' + Level(x)' <= Burst + Gain'
  <2>1. Gain' = Gain /\ base' = base
      BY <1>3 DEF Allow, observerVars
  <2>2. CASE k # x \/ ~Enough(Level(k))
    <3>1. Level(x)' = Level(x)
        BY <1>3, <2>2, AllowLevels
    <3>2. admitted'[x] = admitted[x]
        BY <1>3, <2>2, RefilledIsLevel DEF Allow, TypeOK
    <3>3. Spent' = Spent
        BY <2>1, <3>2
    <3> HIDE DEF Spent, Gain
    <3> QED
        BY <1>0, <2>1, <3>1, <3>3
  <2>3. CASE k = x /\ Enough(Level(k))
    <3>1. Level(x)' = Level(x) - Cost
        BY <1>3, <2>3, AllowLevels
    <3>2. admitted'[x] = admitted[x] + 1
        BY <1>3, <2>3, RefilledIsLevel DEF Allow, TypeOK
    <3>3. Spent' = Spent + Cost
      <4>1. admitted'[x] - base'[x] = (admitted[x] - base[x]) + 1
          BY <1>0, <2>1, <3>2
      <4>2. admitted[x] - base[x] \in Int
          BY <1>0
      <4> QED
          BY <4>1, <4>2, LimiterAssumption
    <3> HIDE DEF Spent, Gain
    <3> QED
        BY <1>0, <2>1, <3>1, <3>3, LimiterAssumption
  <2> QED
      BY <2>2, <2>3
<1>4. CASE UNCHANGED vars
    BY <1>0, <1>4 DEF vars, observerVars, Level
<1> QED
    BY <1>1, <1>2, <1>3, <1>4 DEF Next

(***************************************************************************)
(* No key is admitted more than a burst and the refill of the elapsed time *)
(* in any window of time.                                                  *)
(***************************************************************************)
THEOREM WindowBounded == Spec => []WindowBound
<1>1. Init => WindowBudget
  <2> SUFFICES ASSUME Init, NEW k \in Keys
               PROVE  Cost * (admitted[k] - base[k]) + Level(k)
                          <= Burst + Rate * (now - since)
      BY DEF WindowBudget
  <2>1. admitted[k] - base[k] = 0 /\ now - since = 0 /\ Level(k) = Burst
      BY DEF Init, Level
  <2> QED
      BY <2>1, LimiterAssumption
<1>2. TypeOK /\ WindowBudget => WindowBound
  <2> SUFFICES ASSUME TypeOK, WindowBudget, NEW k \in Keys
               PROVE  Cost * (admitted[k] - base[k]) <= Burst + Rate * (now - since)
      BY DEF WindowBound
  <2> DEFINE Spent == Cost * (admitted[k] - base[k])
             Gain  == Rate * (now - since)
  <2>1. Spent \in Int /\ Gain \in Int /\ Level(k) \in 0..Burst
      BY LevelType, LimiterAssumption DEF TypeOK
  <2>2. Spent + Level(k) <= Burst + Gain
      BY DEF WindowBudget
  <2> HIDE DEF Spent, Gain
  <2>3. Spent <= Burst + Gain
      BY <2>1, <2>2, LimiterAssumption
  <2> QED
      BY <2>3 DEF Spent, Gain
<1> QED
    BY <1>1, <1>2, BudgetNext, TypeCorrect, PTL DEF Spec

(***************************************************************************)
(* No bucket in the map was idle for longer than the TTL at the last       *)
(* sweep.                                                                  *)
(***************************************************************************)
THEOREM AlwaysSweptClean == Spec => []SweptClean
<1>1. Init => SweptClean
    BY DEF Init, SweptClean
<1>2. TypeOK /\ SweptClean /\ [Next]_vars => SweptClean'
  <2> SUFFICES ASSUME TypeOK, SweptClean, [Next]_vars PROVE SweptClean'
      OBVIOUS
  <2> USE LimiterAssumption DEF TypeOK, SweptClean
  <2>1. CASE Tick
      BY <2>1 DEF Tick
  <2>2. CASE OpenWindow
      BY <2>2 DEF OpenWindow
  <2>3. ASSUME NEW k \in Keys, Allow(k) PROVE SweptClean'
      BY <2>3 DEF Allow, Swept, SweepDue, Idle
  <2>4. CASE UNCHANGED vars
      BY <2>4 DEF vars
  <2> QED
      BY <2>1, <2>2, <2>3, <2>4 DEF Next
<1> QED
    BY <1>1, <1>2, TypeCorrect, PTL DEF Spec

----------------------------------------------------------------------------
(* Requests.                                                               *)

\* Every request takes one step of the limiter or leaves it alone.
LEMMA RequestIsStep == [RequestsNext]_requestVars => [Next]_vars
<1> SUFFICES ASSUME [RequestsNext]_requestVars PROVE Next \/ UNCHANGED vars
    OBVIOUS
<1>1. ASSUME NEW k \in Keys, PublicRequest(k) PROVE Next
    BY <1>1 DEF PublicRequest, Next
<1>2. CASE AdminRequest \/ UnmatchedRequest
    BY <1>2 DEF AdminRequest, UnmatchedRequest
<1>3. CASE (Tick \/ OpenWindow) /\ UNCHANGED response
    BY <1>3 DEF Next
<1>4. CASE UNCHANGED requestVars
    BY <1>4 DEF requestVars
<1> QED
    BY <1>1, <1>2, <1>3, <1>4 DEF RequestsNext

(***************************************************************************)
(* The limiter the middleware calls is the limiter of RateLimiter, so what *)
(* is proved of that one holds of the server: rateLimit lets a key through *)
(* no oftener than the bound on every window of time.                      *)
(***************************************************************************)
THEOREM RequestsBounded == RequestsSpec => Spec /\ []WindowBound
<1>1. RequestsInit => Init
    BY DEF RequestsInit
<1>2. RequestsSpec => Spec
    BY <1>1, RequestIsStep, PTL DEF RequestsSpec, Spec
<1> QED
    BY <1>2, WindowBounded, PTL

\* A response with any status, by a handler that ends in any way, leaves the
\* middleware counted and logged as it should be.
LEMMA RespondsAsCounted ==
    ASSUME NEW code \in Nat \ {0}, NEW ending \in Endings, Responds(code, ending)
    PROVE  CountedAsSent'
<1> DEFINE h == HandlerEnds(code, ending)
           w == NetHTTP(wrapMiddleware(h))
<1>0. response' = [ending |-> ending, w |-> w]
    BY DEF Responds
<1> USE DEF wrapMiddleware, loggingMiddleware, metricsMiddleware, recoveryMiddleware,
            NetHTTP, WriteHeader
<1>1. CASE ending = "answers"
    <2>1. h = [sent |-> code, capture |-> code, status |-> code,
               counted |-> 0, logged |-> 0, panicking |-> FALSE]
        BY <1>1 DEF HandlerEnds, NewWriter
    <2> HIDE DEF h
    <2>2. w.counted = code /\ w.logged = code /\ w.sent = code
        BY <2>1
    <2> HIDE DEF w
    <2> QED
        BY <1>0, <1>1, <2>2 DEF CountedAsSent
<1>2. CASE ending = "panics"
    <2>1. h = [sent |-> 0, capture |-> 200, status |-> 200,
               counted |-> 0, logged |-> 0, panicking |-> TRUE]
        BY <1>2 DEF HandlerEnds, NewWriter
    <2> HIDE DEF h
    <2>2. w.counted = 500 /\ w.logged = 500 /\ w.sent = 500
        BY <2>1
    <2> HIDE DEF w
    <2> QED
        BY <1>0, <1>2, <2>2 DEF CountedAsSent
<1>3. CASE ending = "panicsLate"
    <2>1. h = [sent |-> code, capture |-> code, status |-> code,
               counted |-> 0, logged |-> 0, panicking |-> TRUE]
        BY <1>3 DEF HandlerEnds, NewWriter
    <2> HIDE DEF h
    <2>2. w.counted = 500 /\ w.logged = 500
        BY <2>1
    <2> HIDE DEF w
    <2> QED
        BY <1>0, <1>3, <2>2 DEF CountedAsSent
<1> QED
    BY <1>1, <1>2, <1>3 DEF Endings

(***************************************************************************)
(* The request counter and the log agree with each other and with what the *)
(* client was sent, and never report a handler's panic as a success.       *)
(***************************************************************************)
THEOREM CountedRight == RequestsSpec => []CountedAsSent
<1>1. RequestsInit => CountedAsSent
    BY DEF RequestsInit, CountedAsSent
<1>2. CountedAsSent /\ [RequestsNext]_requestVars => CountedAsSent'
  <2> SUFFICES ASSUME CountedAsSent, [RequestsNext]_requestVars PROVE CountedAsSent'
      OBVIOUS
  <2>1. CASE Handled
      BY <2>1, RespondsAsCounted DEF Handled
  <2>2. ASSUME NEW code \in {401, 403, 404, 429}, Responds(code, "answers")
        PROVE  CountedAsSent'
      BY <2>2, RespondsAsCounted DEF Endings
  <2>3. ASSUME NEW k \in Keys, PublicRequest(k) PROVE CountedAsSent'
      BY <2>1, <2>2, <2>3 DEF PublicRequest
  <2>4. CASE AdminRequest
      BY <2>1, <2>2, <2>4 DEF AdminRequest, requireAuth, Tokens
  <2>5. CASE UnmatchedRequest
      BY <2>2, <2>5 DEF UnmatchedRequest
  <2>6. CASE UNCHANGED response
      BY <2>6 DEF CountedAsSent
  <2> QED
      BY <2>3, <2>4, <2>5, <2>6 DEF RequestsNext, requestVars
<1> QED
    BY <1>1, <1>2, PTL DEF RequestsSpec
============================================================================
