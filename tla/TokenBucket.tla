---------------------------- MODULE TokenBucket ----------------------------
(***************************************************************************)
(* What a rate limiter promises for each key: a bucket of Burst units that *)
(* refills at Rate units per tick whether or not anybody asks, from which  *)
(* a request takes Cost units, and is admitted exactly when they are       *)
(* there.  There is one bucket per key, for ever.                          *)
(***************************************************************************)
EXTENDS Integers

CONSTANTS Keys, Rate, Burst, Cost

VARIABLES now, level, admitted, rejected

bucketVars == <<now, level, admitted, rejected>>

AtMostBurst(x) == IF x > Burst THEN Burst ELSE x

Init ==
    /\ now = 0
    /\ level = [k \in Keys |-> Burst]
    /\ admitted = [k \in Keys |-> 0]
    /\ rejected = [k \in Keys |-> 0]

TimePasses ==
    /\ now' > now
    /\ level' = [k \in Keys |-> AtMostBurst(level[k] + Rate * (now' - now))]
    /\ UNCHANGED <<admitted, rejected>>

Admit(k) ==
    /\ level[k] >= Cost
    /\ level' = [level EXCEPT ![k] = @ - Cost]
    /\ admitted' = [admitted EXCEPT ![k] = @ + 1]
    /\ UNCHANGED <<now, rejected>>

Reject(k) ==
    /\ level[k] < Cost
    /\ rejected' = [rejected EXCEPT ![k] = @ + 1]
    /\ UNCHANGED <<now, level, admitted>>

Next == TimePasses \/ \E k \in Keys : Admit(k) \/ Reject(k)

Spec == Init /\ [][Next]_bucketVars
============================================================================
