----------------------------- MODULE AgentProofs -----------------------------
(***************************************************************************)
(* Proofs about Agent, for any backoff cap and any number of registrations *)
(* and revocations, and that AgentSession implements it.                   *)
(***************************************************************************)
EXTENDS AgentSession, TLAPS

----------------------------------------------------------------------------
(* The inductive invariant.                                                *)

\* Once a registration is in hand Run is in its loop, and stays there.
InLoop == pc \in {"dial", "serving", "clear", "delay"} => ~first

\* Dials since the last delay, or since the start: none before a dial.
DialsCounted ==
    /\ pc = "dial" \/ (first /\ pc \notin Down) => dials = 0
    /\ dials <= 1

\* The agent registers only when it found no registration it could use.
NothingToLoad == pc \in {"register", "save"} => ~Usable(file)

\* The registration just granted is the last one.
JustGranted == pc = "save" => devices > 0

\* The registration in the state file, or about to be put there, is the only
\* one that is not accounted for.
Owed == devices <= excused + (IF Usable(file) \/ pc = "save" THEN 1 ELSE 0)

IInv ==
    /\ TypeOK /\ InLoop /\ DialsCounted /\ NothingToLoad /\ JustGranted
    /\ SameIdentity /\ Owed

\* The invariant holds at the agent's first start.
LEMMA IInvInit == Init => IInv
BY AgentAssumption
   DEF Init, IInv, TypeOK, Down, Stages, InLoop, DialsCounted, NothingToLoad, JustGranted,
       SameIdentity, Owed, Usable, Absent, Garbage

----------------------------------------------------------------------------
(* Every step preserves it.                                                *)

\* Doubling the delay leaves it between one second and maxBackoff.
LEMMA DoubledType ==
    ASSUME NEW b \in 1..MaxBackoff PROVE Doubled(b) \in 1..MaxBackoff
BY AgentAssumption DEF Doubled

\* Run takes over a registration, from the file or from the server.
LEMMA ObtainedStep ==
    ASSUME TypeOK, NEW s, Obtained(s), UNCHANGED secret
    PROVE  /\ pc' = (IF first THEN "dial" ELSE "delay")
           /\ first' = FALSE /\ st' = s
           /\ first' \in BOOLEAN /\ secret' \in BOOLEAN
BY Zenon DEF TypeOK, Obtained, Assigned, AfterReregistration

\* Every step of the agent, its server and its disk keeps the invariant.
LEMMA IInvNext == IInv /\ [Next]_vars => IInv'
<1> SUFFICES ASSUME IInv, [Next]_vars PROVE IInv'
    OBVIOUS
<1> USE AgentAssumption
<1> USE DEF IInv, TypeOK, Down, Stages, InLoop, DialsCounted, NothingToLoad, JustGranted,
            SameIdentity, Owed, Usable, Absent, Garbage, serverVars
<1>1. CASE Start
    BY <1>1 DEF Start
<1>2. CASE LoadState
    <2> USE <1>2 DEF LoadState
    <2>1. CASE Usable(file) /\ Obtained(file)
        <3>1. /\ pc' = (IF first THEN "dial" ELSE "delay")
              /\ first' = FALSE /\ st' = file
              /\ first' \in BOOLEAN /\ secret' \in BOOLEAN
            BY <2>1, ObtainedStep
        <3> QED
            BY <2>1, <3>1
    <2>2. CASE ~Usable(file) /\ ~secret /\ ReturnsError
        BY <2>2 DEF ReturnsError
    <2>3. CASE ~Usable(file) /\ secret /\ pc' = "register" /\ UNCHANGED <<first, st>>
        BY <2>3
    <2> QED
        BY <2>1, <2>2, <2>3
<1>3. CASE Registered
    BY <1>3 DEF Registered
<1>4. CASE RegisterFails
    BY <1>4 DEF RegisterFails, ReturnsError
<1>5. CASE SaveState
    <2> USE <1>5 DEF SaveState
    <2>1. /\ pc' = (IF first THEN "dial" ELSE "delay")
          /\ first' = FALSE /\ st' = devices
          /\ first' \in BOOLEAN /\ secret' \in BOOLEAN
        BY ObtainedStep
    <2>2. CASE file' = Written(devices) /\ excused' = excused
        BY <2>1, <2>2 DEF Written
    <2>3. CASE file' \in {file, Garbage} /\ excused' = excused + 1
        BY <2>1, <2>3
    <2> QED
        BY <2>2, <2>3
<1>6. CASE DialSucceeds \/ DialRejected \/ DialFails
    BY <1>6 DEF DialSucceeds, DialRejected, DialFails, Dialled
<1>7. CASE ConnectionLost
    BY <1>7 DEF ConnectionLost
<1>8. CASE ClearState
    BY <1>8 DEF ClearState, Cleared
<1>9. CASE Delay
    BY <1>9, DoubledType DEF Delay
<1>10. CASE Stop
    BY <1>10 DEF Stop
<1>11. CASE Revoke
    BY <1>11 DEF Revoke, agentVars
<1>12. CASE UNCHANGED vars
    BY <1>12 DEF vars, agentVars
<1> QED
    BY <1>1, <1>2, <1>3, <1>4, <1>5, <1>6, <1>7, <1>8, <1>9, <1>10, <1>11, <1>12
       DEF Next, Loop

\* The inductive invariant holds of every execution of Run, across restarts.
THEOREM AgentInvariant == Spec => []IInv
BY IInvInit, IInvNext, PTL DEF Spec

----------------------------------------------------------------------------
(* What follows from it.                                                   *)

(***************************************************************************)
(* The variables keep their types: the delay never exceeds maxBackoff, and *)
(* no token is presented or saved that the server did not issue.           *)
(***************************************************************************)
THEOREM TypeCorrect == Spec => []TypeOK
<1>1. IInv => TypeOK
    BY DEF IInv
<1> QED
    BY <1>1, AgentInvariant, PTL

(***************************************************************************)
(* Whatever the server answers, Run never dials twice without a delay.     *)
(***************************************************************************)
THEOREM NeverHammers == Spec => []NoHammering
<1>1. IInv => NoHammering
    BY DEF IInv, DialsCounted, NoHammering
<1> QED
    BY <1>1, AgentInvariant, PTL

(***************************************************************************)
(* A restart reconnects as the same device, after any sequence of failed   *)
(* saves, failed removals and re-registrations.                            *)
(***************************************************************************)
THEOREM KeepsIdentity == Spec => []SameIdentity
<1>1. IInv => SameIdentity
    BY DEF IInv
<1> QED
    BY <1>1, AgentInvariant, PTL

(***************************************************************************)
(* Every row of the device list beyond the agent's first is owed to a      *)
(* rejected token, a failed save or a registration that was cut off.       *)
(***************************************************************************)
THEOREM NeverLitters == Spec => []NoNeedlessDevice
<1>1. IInv => NoNeedlessDevice
    BY DEF IInv, TypeOK, Owed, NoNeedlessDevice
<1> QED
    BY <1>1, AgentInvariant, PTL

----------------------------------------------------------------------------
(* The connection opened up.                                               *)

\* A step of the loop, the reader or a diagnosis leaves Run where it is, and
\* the others are steps of Run.
LEMMA SessionStep == [SessionNext]_allVars => [Next]_vars
<1>1. (Loop \/ Revoke) => Next
    BY DEF Next
<1>2. (Starts \/ Connects \/ Returns \/ Dies) => Next
    BY DEF Starts, Connects, Returns, Dies, Next
<1>3. UNCHANGED allVars => UNCHANGED vars
    BY DEF allVars
<1> QED
    BY <1>1, <1>2, <1>3 DEF SessionNext

(***************************************************************************)
(* Run with the goroutines of its connections implements Run: a connection *)
(* begins and ends only where Run dials and goes on to its delay, returns  *)
(* or dies, so the theorems above hold of it.                              *)
(***************************************************************************)
THEOREM SessionImplementsAgent == SessionSpec => Spec
<1>1. SessionInit => Init
    BY DEF SessionInit
<1> QED
    BY <1>1, SessionStep, PTL DEF SessionSpec, Spec
==============================================================================
