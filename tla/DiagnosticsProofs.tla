------------------------- MODULE DiagnosticsProofs -------------------------
(***************************************************************************)
(* Proofs about Diagnostics, for any set of requests, any timeout and any  *)
(* unit of time the store keeps.                                           *)
(***************************************************************************)
EXTENDS Diagnostics, TLAPS

----------------------------------------------------------------------------
(* The inductive invariant.                                                *)

\* A request has a row once the handler has created it and until it deletes
\* it; what the handler answered fits where it is.
HandlerAgrees(r) ==
    /\ pc[r] \in {"idle", "create"} => r \notin rows
    /\ pc[r] \in {"send", "orphan"} => r \in rows
    /\ pc[r] \in {"idle", "create", "send"} => reply[r] = 0
    /\ pc[r] = "orphan" => reply[r] = 503
    /\ reply[r] = 202 => pc[r] = "replied" /\ r \in rows

\* The column is the clock's reading in the store's units.
StampAgrees(r) == r \in rows => stamp[r] = Stored(made[r])

\* A request is sent once and answered at most once.
SentOnce(r) ==
    /\ r \in inbox \cup wire =>
          pc[r] \notin {"idle", "create", "send"} /\ payload[r] = "null"
    /\ r \in inbox => r \notin wire
    /\ pc[r] \in {"idle", "create", "send"} => payload[r] = "null"

\* What the admin has seen still holds.
SeenHolds(r) ==
    /\ shown[r] # "none" => pc[r] \notin {"idle", "create"}
    /\ shown[r] = "completed" => HasPayload(r)
    /\ shown[r] = "timed_out" => Expired(r)

\* NoSilentOrphan, of one request.
OrphanKnown(r) ==
    r \in rows /\ pc[r] = "replied" /\ reply[r] \notin {202, 500} => r \in undeleted

IInv ==
    /\ TypeOK
    /\ \A r \in Requests :
          /\ HandlerAgrees(r) /\ OrphanKnown(r) /\ StampAgrees(r)
          /\ SentOnce(r) /\ SeenHolds(r)

----------------------------------------------------------------------------
\* Cutting a moment down to the store's units loses less than one unit.
LEMMA StoredBounds ==
    ASSUME NEW t \in Nat
    PROVE  /\ Stored(t) \in 0..t
           /\ t - Stored(t) < Granularity
<1>1. t % Granularity \in 0..Granularity - 1
    BY DiagnosticsAssumption
<1>2. t % Granularity <= t
    BY DiagnosticsAssumption
<1> QED
    BY <1>1, <1>2, DiagnosticsAssumption DEF Stored

\* The invariant holds before the first request.
LEMMA IInvInit == Init => IInv
BY DiagnosticsAssumption
   DEF Init, IInv, TypeOK, Stages, Statuses, OrphanKnown, HandlerAgrees,
       StampAgrees, SentOnce, SeenHolds

----------------------------------------------------------------------------
(* Every step preserves it.                                                *)

\* Every step keeps the types.
LEMMA TypeNext == IInv /\ [Next]_vars => TypeOK'
<1> SUFFICES ASSUME TypeOK, [Next]_vars PROVE TypeOK'
    BY DEF IInv
<1> USE DiagnosticsAssumption
<1> USE DEF TypeOK, Stages, Statuses, Replies, handlerVars, rowVars, deviceVars
<1>1. ASSUME NEW r \in Requests, Check(r) PROVE TypeOK'
    BY <1>1 DEF Check
<1>2. ASSUME NEW r \in Requests, Create(r) PROVE TypeOK'
    <2>1. Stored(now) \in 0..now
        BY StoredBounds
    <2> QED
        BY <1>2, <2>1 DEF Create, Inserted
<1>3. ASSUME NEW r \in Requests, Send(r) PROVE TypeOK'
    BY <1>3 DEF Send, Delivered, AfterFailedSend
<1>4. ASSUME NEW r \in Requests, DeleteOrphan(r) PROVE TypeOK'
    BY <1>4 DEF DeleteOrphan, DeletedBy
<1>5. ASSUME NEW r \in Requests, Cancel(r) PROVE TypeOK'
    BY <1>5 DEF Cancel
<1>6. ASSUME NEW r \in Requests, Answer(r) PROVE TypeOK'
    BY <1>6 DEF Answer
<1>7. ASSUME NEW r \in Requests, LoseAnswer(r) PROVE TypeOK'
    BY <1>7 DEF LoseAnswer
<1>8. ASSUME NEW r \in Requests, SaveResult(r) PROVE TypeOK'
    BY <1>8 DEF SaveResult, SavedRows
<1>9. CASE Disconnect
    <2>1. connected' \in BOOLEAN
        BY <1>9, Zenon DEF Disconnect, ConnectionEnds
    <2> QED
        BY <1>9, <2>1 DEF Disconnect, ConnectionEnds
<1>10. CASE Connect
    BY <1>10 DEF Connect
<1>11. CASE Crash
    <2>1. connected' \in BOOLEAN
        BY <1>11, Zenon DEF Crash, ConnectionEnds
    <2> QED
        BY <1>11, <2>1 DEF Crash, ConnectionEnds
<1>12. CASE List
    BY <1>12 DEF List, Status
<1>13. CASE Tick
    BY <1>13 DEF Tick
<1>14. CASE UNCHANGED vars
    BY <1>14 DEF vars
<1> QED
    BY <1>1, <1>2, <1>3, <1>4, <1>5, <1>6, <1>7, <1>8, <1>9, <1>10, <1>11,
       <1>12, <1>13, <1>14 DEF Next

\* Every step keeps the agreement of handler, row and reply.
LEMMA HandlerNext ==
    ASSUME IInv, [Next]_vars, NEW q \in Requests PROVE HandlerAgrees(q)'
<1> USE DiagnosticsAssumption
<1> USE DEF IInv, TypeOK, Stages, Replies, handlerVars, rowVars, deviceVars,
            HandlerAgrees
<1>1. ASSUME NEW r \in Requests, Check(r) PROVE HandlerAgrees(q)'
    BY <1>1 DEF Check
<1>2. ASSUME NEW r \in Requests, Create(r) PROVE HandlerAgrees(q)'
    BY <1>2 DEF Create, Inserted
<1>3. ASSUME NEW r \in Requests, Send(r) PROVE HandlerAgrees(q)'
    BY <1>3 DEF Send, Delivered, AfterFailedSend
<1>4. ASSUME NEW r \in Requests, DeleteOrphan(r) PROVE HandlerAgrees(q)'
    BY <1>4 DEF DeleteOrphan, DeletedBy
<1>5. ASSUME NEW r \in Requests, Cancel(r) PROVE HandlerAgrees(q)'
    BY <1>5 DEF Cancel
<1>6. ASSUME NEW r \in Requests, Answer(r) PROVE HandlerAgrees(q)'
    BY <1>6 DEF Answer
<1>7. ASSUME NEW r \in Requests, LoseAnswer(r) PROVE HandlerAgrees(q)'
    BY <1>7 DEF LoseAnswer
<1>8. ASSUME NEW r \in Requests, SaveResult(r) PROVE HandlerAgrees(q)'
    BY <1>8 DEF SaveResult, SavedRows
<1>9. CASE Disconnect
    BY <1>9 DEF Disconnect, ConnectionEnds
<1>10. CASE Connect
    BY <1>10 DEF Connect
<1>11. CASE Crash
    BY <1>11 DEF Crash, ConnectionEnds
<1>12. CASE List
    BY <1>12 DEF List, Status
<1>13. CASE Tick
    BY <1>13 DEF Tick
<1>14. CASE UNCHANGED vars
    BY <1>14 DEF vars
<1> QED
    BY <1>1, <1>2, <1>3, <1>4, <1>5, <1>6, <1>7, <1>8, <1>9, <1>10, <1>11,
       <1>12, <1>13, <1>14 DEF Next

\* Every step keeps the column a reading of the clock.
LEMMA StampNext ==
    ASSUME IInv, [Next]_vars, NEW q \in Requests PROVE StampAgrees(q)'
<1> USE DiagnosticsAssumption
<1> USE DEF IInv, TypeOK, Stages, Replies, handlerVars, rowVars, deviceVars,
            StampAgrees, HandlerAgrees
<1>1. ASSUME NEW r \in Requests, Check(r) PROVE StampAgrees(q)'
    BY <1>1 DEF Check
<1>2. ASSUME NEW r \in Requests, Create(r) PROVE StampAgrees(q)'
    BY <1>2 DEF Create, Inserted
<1>3. ASSUME NEW r \in Requests, Send(r) PROVE StampAgrees(q)'
    BY <1>3 DEF Send, Delivered, AfterFailedSend
<1>4. ASSUME NEW r \in Requests, DeleteOrphan(r) PROVE StampAgrees(q)'
    BY <1>4 DEF DeleteOrphan, DeletedBy
<1>5. ASSUME NEW r \in Requests, Cancel(r) PROVE StampAgrees(q)'
    BY <1>5 DEF Cancel
<1>6. ASSUME NEW r \in Requests, Answer(r) PROVE StampAgrees(q)'
    BY <1>6 DEF Answer
<1>7. ASSUME NEW r \in Requests, LoseAnswer(r) PROVE StampAgrees(q)'
    BY <1>7 DEF LoseAnswer
<1>8. ASSUME NEW r \in Requests, SaveResult(r) PROVE StampAgrees(q)'
    BY <1>8 DEF SaveResult, SavedRows
<1>9. CASE Disconnect
    BY <1>9 DEF Disconnect, ConnectionEnds
<1>10. CASE Connect
    BY <1>10 DEF Connect
<1>11. CASE Crash
    BY <1>11 DEF Crash, ConnectionEnds
<1>12. CASE List
    BY <1>12 DEF List, Status
<1>13. CASE Tick
    BY <1>13 DEF Tick
<1>14. CASE UNCHANGED vars
    BY <1>14 DEF vars
<1> QED
    BY <1>1, <1>2, <1>3, <1>4, <1>5, <1>6, <1>7, <1>8, <1>9, <1>10, <1>11,
       <1>12, <1>13, <1>14 DEF Next

\* No step sends a request again or answers it again.
LEMMA SentNext ==
    ASSUME IInv, [Next]_vars, NEW q \in Requests PROVE SentOnce(q)'
<1> USE DiagnosticsAssumption
<1> USE DEF IInv, TypeOK, Stages, Replies, handlerVars, rowVars, deviceVars,
            SentOnce, HandlerAgrees
<1>1. ASSUME NEW r \in Requests, Check(r) PROVE SentOnce(q)'
    BY <1>1 DEF Check
<1>2. ASSUME NEW r \in Requests, Create(r) PROVE SentOnce(q)'
    BY <1>2 DEF Create, Inserted
<1>3. ASSUME NEW r \in Requests, Send(r) PROVE SentOnce(q)'
    BY <1>3 DEF Send, Delivered, AfterFailedSend
<1>4. ASSUME NEW r \in Requests, DeleteOrphan(r) PROVE SentOnce(q)'
    BY <1>4 DEF DeleteOrphan, DeletedBy
<1>5. ASSUME NEW r \in Requests, Cancel(r) PROVE SentOnce(q)'
    BY <1>5 DEF Cancel
<1>6. ASSUME NEW r \in Requests, Answer(r) PROVE SentOnce(q)'
    BY <1>6 DEF Answer
<1>7. ASSUME NEW r \in Requests, LoseAnswer(r) PROVE SentOnce(q)'
    BY <1>7 DEF LoseAnswer
<1>8. ASSUME NEW r \in Requests, SaveResult(r) PROVE SentOnce(q)'
    BY <1>8 DEF SaveResult, SavedRows
<1>9. CASE Disconnect
    BY <1>9 DEF Disconnect, ConnectionEnds
<1>10. CASE Connect
    BY <1>10 DEF Connect
<1>11. CASE Crash
    BY <1>11 DEF Crash, ConnectionEnds
<1>12. CASE List
    BY <1>12 DEF List, Status
<1>13. CASE Tick
    BY <1>13 DEF Tick
<1>14. CASE UNCHANGED vars
    BY <1>14 DEF vars
<1> QED
    BY <1>1, <1>2, <1>3, <1>4, <1>5, <1>6, <1>7, <1>8, <1>9, <1>10, <1>11,
       <1>12, <1>13, <1>14 DEF Next

\* No step undoes what the admin has seen.
LEMMA SeenNext ==
    ASSUME IInv, [Next]_vars, NEW q \in Requests PROVE SeenHolds(q)'
<1> USE DiagnosticsAssumption
<1> USE DEF IInv, TypeOK, Stages, Replies, handlerVars, rowVars, deviceVars,
            SeenHolds, HandlerAgrees, SentOnce, HasPayload, Expired
<1>1. ASSUME NEW r \in Requests, Check(r) PROVE SeenHolds(q)'
    BY <1>1 DEF Check
<1>2. ASSUME NEW r \in Requests, Create(r) PROVE SeenHolds(q)'
    BY <1>2 DEF Create, Inserted
<1>3. ASSUME NEW r \in Requests, Send(r) PROVE SeenHolds(q)'
    BY <1>3 DEF Send, Delivered, AfterFailedSend
<1>4. ASSUME NEW r \in Requests, DeleteOrphan(r) PROVE SeenHolds(q)'
    BY <1>4 DEF DeleteOrphan, DeletedBy
<1>5. ASSUME NEW r \in Requests, Cancel(r) PROVE SeenHolds(q)'
    BY <1>5 DEF Cancel
<1>6. ASSUME NEW r \in Requests, Answer(r) PROVE SeenHolds(q)'
    BY <1>6 DEF Answer
<1>7. ASSUME NEW r \in Requests, LoseAnswer(r) PROVE SeenHolds(q)'
    BY <1>7 DEF LoseAnswer
<1>8. ASSUME NEW r \in Requests, SaveResult(r) PROVE SeenHolds(q)'
    BY <1>8 DEF SaveResult, SavedRows
<1>9. CASE Disconnect
    BY <1>9 DEF Disconnect, ConnectionEnds
<1>10. CASE Connect
    BY <1>10 DEF Connect
<1>11. CASE Crash
    BY <1>11 DEF Crash, ConnectionEnds
<1>12. CASE List
    BY <1>12 DEF List, Status
<1>13. CASE Tick
    BY <1>13 DEF Tick
<1>14. CASE UNCHANGED vars
    BY <1>14 DEF vars
<1> QED
    BY <1>1, <1>2, <1>3, <1>4, <1>5, <1>6, <1>7, <1>8, <1>9, <1>10, <1>11,
       <1>12, <1>13, <1>14 DEF Next

\* No step leaves a row behind unrecorded.
LEMMA OrphanNext ==
    ASSUME IInv, [Next]_vars, NEW q \in Requests PROVE OrphanKnown(q)'
<1> USE DiagnosticsAssumption
<1> USE DEF IInv, TypeOK, Stages, Replies, handlerVars, rowVars, deviceVars,
            OrphanKnown, HandlerAgrees
<1>1. ASSUME NEW r \in Requests, Check(r) PROVE OrphanKnown(q)'
    BY <1>1 DEF Check
<1>2. ASSUME NEW r \in Requests, Create(r) PROVE OrphanKnown(q)'
    BY <1>2 DEF Create, Inserted
<1>3. ASSUME NEW r \in Requests, Send(r) PROVE OrphanKnown(q)'
    BY <1>3 DEF Send, Delivered, AfterFailedSend
<1>4. ASSUME NEW r \in Requests, DeleteOrphan(r) PROVE OrphanKnown(q)'
    BY <1>4 DEF DeleteOrphan, DeletedBy
<1>5. ASSUME NEW r \in Requests, Cancel(r) PROVE OrphanKnown(q)'
    BY <1>5 DEF Cancel
<1>6. ASSUME NEW r \in Requests, Answer(r) PROVE OrphanKnown(q)'
    BY <1>6 DEF Answer
<1>7. ASSUME NEW r \in Requests, LoseAnswer(r) PROVE OrphanKnown(q)'
    BY <1>7 DEF LoseAnswer
<1>8. ASSUME NEW r \in Requests, SaveResult(r) PROVE OrphanKnown(q)'
    BY <1>8 DEF SaveResult, SavedRows
<1>9. CASE Disconnect
    BY <1>9 DEF Disconnect, ConnectionEnds
<1>10. CASE Connect
    BY <1>10 DEF Connect
<1>11. CASE Crash
    BY <1>11 DEF Crash, ConnectionEnds
<1>12. CASE List
    BY <1>12 DEF List, Status
<1>13. CASE Tick
    BY <1>13 DEF Tick
<1>14. CASE UNCHANGED vars
    BY <1>14 DEF vars
<1> QED
    BY <1>1, <1>2, <1>3, <1>4, <1>5, <1>6, <1>7, <1>8, <1>9, <1>10, <1>11,
       <1>12, <1>13, <1>14 DEF Next

\* Every step keeps the invariant.
LEMMA IInvNext == IInv /\ [Next]_vars => IInv'
BY TypeNext, HandlerNext, StampNext, SentNext, SeenNext, OrphanNext DEF IInv

\* The inductive invariant holds of every execution of the handlers.
THEOREM DiagnosticsInvariant == Spec => []IInv
BY IInvInit, IInvNext, PTL DEF Spec

----------------------------------------------------------------------------
(* What follows from it.                                                   *)

(***************************************************************************)
(* The variables keep their types: requested_at is never in the future.    *)
(***************************************************************************)
THEOREM TypeCorrect == Spec => []TypeOK
<1>1. IInv => TypeOK
    BY DEF IInv
<1> QED
    BY <1>1, DiagnosticsInvariant, PTL

(***************************************************************************)
(* An accepted request keeps its row, whatever other handlers delete.      *)
(***************************************************************************)
THEOREM AcceptedKept == Spec => []AcceptedStays
<1>1. IInv => AcceptedStays
    BY DEF IInv, HandlerAgrees, AcceptedStays
<1> QED
    BY <1>1, DiagnosticsInvariant, PTL

(***************************************************************************)
(* handleRequestDiagnostics cleans up every row it knows of and will not   *)
(* use: one it left behind is owed to a failed delete, or to an INSERT     *)
(* that reported an error (500) and took effect; no late answer brings a   *)
(* deleted one back.                                                       *)
(***************************************************************************)
THEOREM OrphansKnown == Spec => []NoSilentOrphan
<1>1. IInv => NoSilentOrphan
    BY DEF IInv, TypeOK, OrphanKnown, NoSilentOrphan
<1> QED
    BY <1>1, DiagnosticsInvariant, PTL

(***************************************************************************)
(* The derived status is accurate to the store's unit of time, whatever    *)
(* that unit is: timed_out less than one unit early, pending never late.   *)
(***************************************************************************)
THEOREM TimeoutsAccurate == Spec => []TimeoutAccurate
<1>1. IInv => TimeoutAccurate
    <2> SUFFICES ASSUME IInv, NEW r \in rows
                 PROVE  /\ Status(r) = "timed_out" =>
                               now - made[r] + Granularity > Timeout + 1
                        /\ Status(r) = "pending" => now - made[r] <= Timeout
        BY DEF TimeoutAccurate
    <2>1. now \in Nat /\ made[r] \in Nat /\ stamp[r] = Stored(made[r])
        BY DiagnosticsAssumption DEF IInv, TypeOK, StampAgrees
    <2>2. stamp[r] \in 0..made[r] /\ made[r] - stamp[r] < Granularity
        BY <2>1, StoredBounds
    <2> QED
        BY <2>1, <2>2, DiagnosticsAssumption DEF Status, Expired
<1> QED
    BY <1>1, DiagnosticsInvariant, PTL

(***************************************************************************)
(* From one list to the next a request never turns back: not from          *)
(* completed to anything, and not from timed_out to pending.               *)
(***************************************************************************)
THEOREM NeverTurnsBack == Spec => ShownMovesForward
<1> DEFINE Forward == \A r \in Requests :
        /\ shown[r] = "completed" => shown'[r] = "completed"
        /\ shown[r] = "timed_out" => shown'[r] # "pending"
<1>1. IInv /\ [Next]_vars => [Forward]_vars
    <2> SUFFICES ASSUME IInv, Next, NEW r \in Requests
                 PROVE  /\ shown[r] = "completed" => shown'[r] = "completed"
                        /\ shown[r] = "timed_out" => shown'[r] # "pending"
        OBVIOUS
    <2>1. CASE List
        BY <2>1 DEF IInv, SeenHolds, List, Status
    <2>2. CASE UNCHANGED shown
        BY <2>2
    <2>3. List \/ UNCHANGED shown
        BY DEF Next, Check, Create, Send, DeleteOrphan, Cancel, Answer, LoseAnswer,
               SaveResult, Disconnect, Connect, Crash, Tick
    <2> QED
        BY <2>1, <2>2, <2>3
<1> QED
    BY <1>1, DiagnosticsInvariant, PTL DEF Spec, ShownMovesForward
============================================================================
