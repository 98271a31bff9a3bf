---------------------------- MODULE Diagnostics ----------------------------
(***************************************************************************)
(* A diagnostic request from the admin's POST to the device's answer:      *)
(* handleRequestDiagnostics, handleListDiagnostics and diagnosticStatus    *)
(* (internal/server/routes_diagnostics.go), handleDiagResponse             *)
(* (internal/server/routes_ws.go), the diagnostic_results table            *)
(* (internal/store) and the agent's handleDiagRequest (cmd/puls-agent).    *)
(*                                                                         *)
(* A request is identified by the id the handler draws for it.  Time is in *)
(* ticks; SQLite stores requested_at in whole seconds of Granularity ticks *)
(* each, Postgres to the tick (Granularity = 1).                           *)
(***************************************************************************)
EXTENDS Integers

CONSTANTS
    Requests,       \* admin requests for one device
    Timeout,        \* PULS_DIAGNOSTIC_TIMEOUT, in ticks
    Granularity,    \* ticks in the store's unit of time
    LastRequest,    \* bound: no request is made after this tick
    MaxTime         \* bound: ticks

ASSUME DiagnosticsAssumption ==
    /\ Timeout \in Nat /\ Granularity \in Nat \ {0}
    /\ LastRequest \in Nat /\ MaxTime \in Nat
    /\ LastRequest + Timeout < MaxTime

VARIABLES
    now,        \* the clock
    connected,  \* the hub has a connection of the device
    pc,         \* the handler of each request
    reply,      \* the HTTP status it answered with
    canceled,   \* requests whose admin went away: r.Context() is done
    rows,       \* requests with a row in diagnostic_results
    payload,    \* the payload column: NULL, the empty string, or data
    stamp,      \* the requested_at column
    made,       \* history: the moment time.Now() returned for requested_at
    inbox,      \* requests the agent has received and is working on
    wire,       \* answers on their way to the server
    undeleted,  \* history: requests whose orphaned row could not be deleted
    shown       \* history: the status the admin last saw in the list

handlerVars == <<pc, reply, canceled, undeleted>>
rowVars     == <<rows, payload, stamp, made>>
deviceVars  == <<connected, inbox, wire>>
vars == <<now, handlerVars, rowVars, deviceVars, shown>>

Stages   == {"idle", "create", "send", "orphan", "replied", "dead"}
Statuses == {"pending", "completed", "timed_out"}

TypeOK ==
    /\ now \in 0..MaxTime
    /\ connected \in BOOLEAN
    /\ pc \in [Requests -> Stages]
    /\ reply \in [Requests -> {0, 202, 400, 422, 500, 503}]
    /\ rows \subseteq Requests
    /\ payload \in [Requests -> {"null", "empty", "data"}]
    /\ stamp \in [Requests -> 0..now]
    /\ made \in [Requests -> 0..now]
    /\ shown \in [Requests -> Statuses \cup {"none"}]
    /\ \A S \in {canceled, inbox, wire, undeleted} : S \subseteq Requests

Init ==
    /\ now = 0
    /\ connected = TRUE
    /\ pc = [r \in Requests |-> "idle"]
    /\ reply = [r \in Requests |-> 0]
    /\ canceled = {}
    /\ rows = {}
    /\ payload = [r \in Requests |-> "null"]
    /\ stamp = [r \in Requests |-> 0]
    /\ made = [r \in Requests |-> 0]
    /\ inbox = {}
    /\ wire = {}
    /\ undeleted = {}
    /\ shown = [r \in Requests |-> "none"]

----------------------------------------------------------------------------
(* Slips a change to the code could make; substituted for the definition   *)
(* named beside it, each breaks one of the properties below.               *)

RoundedUp(t)   == ((t + Granularity - 1) \div Granularity) * Granularity  \* Stored
AllRows(r)     == Requests          \* DeletedBy
NoCleanup      == "replied"         \* AfterFailedSend
NeverExpired(r) == FALSE            \* Expired
AtTimeout(r)   == now - stamp[r] >= Timeout    \* Expired

----------------------------------------------------------------------------
(* The store.                                                              *)

\* time.Format(time.RFC3339) drops the fraction of a second.
Stored(t) == t - (t % Granularity)

\* DELETE ... WHERE request_id = ?
DeletedBy(r) == {r}

\* UPDATE ... WHERE request_id = ?: the rows there are after it.
SavedRows(r) == rows

----------------------------------------------------------------------------
(* handleRequestDiagnostics.                                               *)

Replies(r, code) ==
    /\ pc' = [pc EXCEPT ![r] = "replied"]
    /\ reply' = [reply EXCEPT ![r] = code]

\* The checks before anything is stored: connection, body, scope.
Check(r) ==
    /\ pc[r] = "idle"
    /\ now <= LastRequest
    /\ \/ ~connected /\ Replies(r, 503)
       \/ connected /\ \E code \in {400, 422} : Replies(r, code)
       \/ connected /\ pc' = [pc EXCEPT ![r] = "create"] /\ reply' = reply
    /\ UNCHANGED <<now, canceled, undeleted, rowVars, deviceVars, shown>>

\* The row CreateDiagnosticRequest inserts.
Inserted(r) ==
    /\ now <= LastRequest
    /\ rows' = rows \cup {r}
    /\ stamp' = [stamp EXCEPT ![r] = Stored(now)]
    /\ made' = [made EXCEPT ![r] = now]
    /\ payload' = payload

\* CreateDiagnosticRequest reports success only while the context is not
\* done.  An INSERT that reports an error (context done, answer lost) may have
\* taken effect all the same: the handler answers 500 and deletes nothing.
Create(r) ==
    /\ pc[r] = "create"
    /\ \/ /\ r \notin canceled
          /\ Inserted(r)
          /\ pc' = [pc EXCEPT ![r] = "send"]
          /\ reply' = reply
       \/ /\ Inserted(r) \/ UNCHANGED rowVars
          /\ Replies(r, 500)
    /\ UNCHANGED <<now, canceled, undeleted, deviceVars, shown>>

AfterFailedSend == "orphan"

\* Hub.Send looks the connection up again.
Delivered(r) ==
    /\ connected
    /\ inbox' = inbox \cup {r}

\* A write that reports an error may have reached the device all the same.
\* (The message is a struct of strings: encoding it does not fail.)
Send(r) ==
    /\ pc[r] = "send"
    /\ \/ /\ r \notin canceled
          /\ Delivered(r)
          /\ Replies(r, 202)
       \/ /\ Delivered(r) \/ inbox' = inbox
          /\ pc' = [pc EXCEPT ![r] = AfterFailedSend]
          /\ reply' = [reply EXCEPT ![r] = 503]
    /\ UNCHANGED <<now, canceled, undeleted, rowVars, connected, wire, shown>>

\* deleteOrphanedDiagnosticRequest uses the request's own context: with the
\* admin gone the delete fails, and its error is only logged.  A delete that
\* reports an error may have taken effect.
DeleteOrphan(r) ==
    /\ pc[r] = "orphan"
    /\ \/ /\ r \notin canceled
          /\ rows' = rows \ DeletedBy(r)
          /\ undeleted' = undeleted
       \/ /\ rows' \in {rows, rows \ DeletedBy(r)}
          /\ undeleted' = undeleted \cup {r}
    /\ pc' = [pc EXCEPT ![r] = "replied"]
    /\ UNCHANGED <<now, reply, canceled, payload, stamp, made, deviceVars, shown>>

\* The admin closes the connection before the handler is done.
Cancel(r) ==
    /\ pc[r] \in {"create", "send", "orphan"}
    /\ r \notin canceled
    /\ canceled' = canceled \cup {r}
    /\ UNCHANGED <<now, pc, reply, undeleted, rowVars, deviceVars, shown>>

----------------------------------------------------------------------------
(* The device and its connection.                                          *)

\* A device's answer goes out on the connection its request came by, so what
\* the agent works on and what is under way is lost with the connection.
ConnectionEnds ==
    /\ connected' = FALSE
    /\ inbox' = {}
    /\ wire' = {}

Disconnect ==
    /\ connected
    /\ ConnectionEnds
    /\ UNCHANGED <<now, handlerVars, rowVars, shown>>

Connect ==
    /\ ~connected
    /\ connected' = TRUE
    /\ UNCHANGED <<now, handlerVars, rowVars, inbox, wire, shown>>

\* The server process dies under its handlers; the database stays.
Crash ==
    /\ pc' = [r \in Requests |->
                IF pc[r] \in {"create", "send", "orphan"} THEN "dead" ELSE pc[r]]
    /\ ConnectionEnds
    /\ UNCHANGED <<now, reply, canceled, undeleted, rowVars, shown>>

\* handleDiagRequest gathers the data and writes the answer.
Answer(r) ==
    /\ r \in inbox
    /\ inbox' = inbox \ {r}
    /\ wire' = wire \cup {r}
    /\ UNCHANGED <<now, connected, handlerVars, rowVars, shown>>

\* The agent cannot read the request or encode the answer, the connection was
\* replaced by a newer one, or the server's rate limit rejects the answer:
\* nobody sends it again.
LoseAnswer(r) ==
    /\ r \in inbox \cup wire
    /\ inbox' = inbox \ {r}
    /\ wire' = wire \ {r}
    /\ UNCHANGED <<now, connected, handlerVars, rowVars, shown>>

\* SaveDiagnosticResult: an update that finds no row changes nothing.  A
\* response without data stores the empty string.
SaveResult(r) ==
    /\ r \in wire
    /\ wire' = wire \ {r}
    /\ rows' = SavedRows(r)
    /\ \/ /\ r \in rows
          /\ \E p \in {"data", "empty"} : payload' = [payload EXCEPT ![r] = p]
       \/ payload' = payload        \* no row, or the store failed
    /\ UNCHANGED <<now, handlerVars, stamp, made, connected, inbox, shown>>

----------------------------------------------------------------------------
(* Reading the list.                                                       *)

Expired(r) == now - stamp[r] > Timeout

\* scanDiagnostic turns an empty payload into none.
HasPayload(r) == payload[r] = "data"

\* A slip a change to the code could make, for Status.
TimeoutFirst(r) ==
    IF Expired(r) THEN "timed_out"
    ELSE IF HasPayload(r) THEN "completed" ELSE "pending"

Status(r) ==
    IF HasPayload(r) THEN "completed"
    ELSE IF Expired(r) THEN "timed_out" ELSE "pending"

\* The admin lists the device's diagnostics.
List ==
    /\ shown' = [r \in Requests |-> IF r \in rows THEN Status(r) ELSE shown[r]]
    /\ UNCHANGED <<now, handlerVars, rowVars, deviceVars>>

Tick ==
    /\ now < MaxTime
    /\ now' = now + 1
    /\ UNCHANGED <<handlerVars, rowVars, deviceVars, shown>>

----------------------------------------------------------------------------
Next ==
    \/ \E r \in Requests :
        \/ Check(r) \/ Create(r) \/ Send(r) \/ DeleteOrphan(r)
        \/ Cancel(r) \/ Answer(r) \/ LoseAnswer(r) \/ SaveResult(r)
    \/ Disconnect \/ Connect \/ Crash \/ List \/ Tick

Spec == Init /\ [][Next]_vars

\* Time passes; nothing else is needed for a request to resolve.
ClockSpec == Spec /\ WF_vars(Tick)

----------------------------------------------------------------------------
(* Properties.                                                             *)

(***************************************************************************)
(* A request the admin was told is accepted keeps its row, whatever        *)
(* happens to other requests and their rows.  (The list shows the newest   *)
(* 50 rows of a device.)                                                   *)
(***************************************************************************)
AcceptedStays == \A r \in Requests : reply[r] = 202 => r \in rows

(***************************************************************************)
(* Every path on which the handler knows of a row it will not use cleans   *)
(* up: a refused request leaves a row only if its delete failed, or if it  *)
(* was answered 500, its INSERT having reported an error and taken effect. *)
(* No late answer brings a deleted request back.                           *)
(***************************************************************************)
NoSilentOrphan ==
    \A r \in rows :
        pc[r] = "replied" /\ reply[r] \notin {202, 500} => r \in undeleted

(***************************************************************************)
(* timed_out is right to within the store's unit of time: it is shown less *)
(* than one unit early, and pending is never shown too late.               *)
(***************************************************************************)
TimeoutAccurate ==
    \A r \in rows :
        /\ Status(r) = "timed_out" => now - made[r] + Granularity > Timeout + 1
        /\ Status(r) = "pending" => now - made[r] <= Timeout

(***************************************************************************)
(* What the admin sees of a request in one list and the next only moves    *)
(* forward, when the answer races the timeout too: completed is the last   *)
(* word, and timed_out never turns back into pending (a late answer may    *)
(* still complete it).                                                     *)
(***************************************************************************)
ShownMovesForward ==
    [][\A r \in Requests :
        /\ shown[r] = "completed" => shown'[r] = "completed"
        /\ shown[r] = "timed_out" => shown'[r] # "pending"]_vars

(***************************************************************************)
(* No row is pending for ever: not after a crash between insert and send,  *)
(* not after an INSERT that reported an error and took effect, not after a *)
(* failed delete, not after a lost answer.                                 *)
(***************************************************************************)
SelfResolves ==
    \A r \in Requests : r \in rows ~> r \notin rows \/ Status(r) # "pending"
============================================================================
