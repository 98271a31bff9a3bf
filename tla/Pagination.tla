----------------------------- MODULE Pagination -----------------------------
(***************************************************************************)
(* Walking the device list page by page (ListDevices of internal/store,    *)
(* handleListDevices of internal/server/routes_device.go, the cursor of    *)
(* internal/store/cursor.go) while devices register (CreateDevice).        *)
(*                                                                         *)
(* Device ids are numbers for the order SQL gives them as strings.  A      *)
(* registration reads the clock, then inserts its row, and SQLite keeps    *)
(* whole seconds of Granularity ticks: a row may appear behind rows that   *)
(* were inserted earlier, and many rows share a timestamp.                 *)
(***************************************************************************)
EXTENDS Integers, FiniteSets

CONSTANTS
    Ids,            \* ids of the devices that may register
    Limit,          \* page size; the handler admits only positive ones
    Granularity,    \* ticks in the store's unit of time
    MaxTime         \* bound: ticks

ASSUME PaginationAssumption ==
    /\ Ids \subseteq Nat /\ IsFiniteSet(Ids)
    /\ Limit \in Nat \ {0}
    /\ Granularity \in Nat \ {0}
    /\ MaxTime \in Nat

VARIABLES
    now,        \* the clock
    stamped,    \* registrations that have read the clock and not inserted
    table,      \* ids with a row in devices
    at,         \* the registered_at of each, as stored
    walk,       \* the admin's walk: not begun, first page, more pages, done
    curAt,      \* the cursor's timestamp
    curId,      \* the cursor's id
    start,      \* history: the table when the walk began
    seen,       \* history: the devices on the pages so far
    again,      \* history: the devices that were on two pages
    opened      \* history: the time of the walk's first page

walkVars == <<walk, curAt, curId, start, seen, again, opened>>
vars == <<now, stamped, table, at, walkVars>>

TypeOK ==
    /\ now \in Nat
    /\ stamped \subseteq Ids
    /\ table \subseteq Ids
    /\ at \in [Ids -> 0..now]
    /\ walk \in {"idle", "first", "more", "done"}
    /\ curAt \in 0..now
    /\ curId \in Nat
    /\ start \subseteq table
    /\ seen \subseteq table
    /\ again \subseteq table
    /\ opened \in 0..now

Init ==
    /\ now = 0
    /\ stamped = {}
    /\ table = {}
    /\ at = [i \in Ids |-> 0]
    /\ walk = "idle"
    /\ curAt = 0
    /\ curId = 0
    /\ start = {}
    /\ seen = {}
    /\ again = {}
    /\ opened = 0

----------------------------------------------------------------------------
(* Slips a change to the code could make; substituted for the definition   *)
(* named beside it, each breaks one of the properties below.               *)

ByTimeOnly(i)   == at[i] < curAt                        \* Older
WithTheLast(i)  == at[i] < curAt \/ (at[i] = curAt /\ i <= curId)  \* Older
IgnoresCursor(i) == TRUE                               \* Older
RoundedUp(t)    == ((t + Granularity - 1) \div Granularity) * Granularity  \* Stored

----------------------------------------------------------------------------
(* CreateDevice.                                                           *)

Stored(t) == t - (t % Granularity)

\* time.Now() after the secret is hashed.
Stamp(i) ==
    /\ i \notin stamped \cup table
    /\ stamped' = stamped \cup {i}
    /\ at' = [at EXCEPT ![i] = Stored(now)]
    /\ UNCHANGED <<now, table, walkVars>>

\* The INSERT gets its turn, or fails.
Insert(i) ==
    /\ i \in stamped
    /\ stamped' = stamped \ {i}
    /\ \/ table' = table \cup {i}
       \/ table' = table
    /\ UNCHANGED <<now, at, walkVars>>

----------------------------------------------------------------------------
(* ListDevices.                                                            *)

\* ORDER BY registered_at DESC, id DESC
Newer(i, j) == at[i] > at[j] \/ (at[i] = at[j] /\ i > j)

\* registered_at < ? OR (registered_at = ? AND id < ?)
Older(i) == at[i] < curAt \/ (at[i] = curAt /\ i < curId)

\* The rows the query ranges over.
Remaining == IF walk = "first" THEN table ELSE {i \in table : Older(i)}

\* The first Limit of them; both stores ask for one more to see if there is.
Page ==
    {i \in Remaining : Cardinality({j \in Remaining : Newer(j, i)}) < Limit}

LastOf(P) == CHOOSE i \in P : \A j \in P : j # i => Newer(j, i)

\* The cursor points at the last row of the page; its text keeps the stored
\* timestamp exactly.
NextCursor(i) ==
    /\ curAt' = at[i]
    /\ curId' = i

\* A cursor is given out when the query found one row beyond the page.
FetchPage ==
    /\ walk \in {"first", "more"}
    /\ seen' = seen \cup Page
    /\ again' = again \cup (seen \cap Page)
    /\ opened' = IF walk = "first" THEN now ELSE opened
    /\ \/ /\ Page # Remaining
          /\ walk' = "more"
          /\ NextCursor(LastOf(Page))
       \/ /\ Page = Remaining
          /\ walk' = "done"
          /\ UNCHANGED <<curAt, curId>>
    /\ UNCHANGED <<now, stamped, table, at, start>>

\* The admin asks for the list without a cursor.
BeginWalk ==
    /\ walk = "idle"
    /\ walk' = "first"
    /\ start' = table
    /\ UNCHANGED <<now, stamped, table, at, curAt, curId, seen, again, opened>>

Tick ==
    /\ now < MaxTime
    /\ now' = now + 1
    /\ UNCHANGED <<stamped, table, at, walkVars>>

----------------------------------------------------------------------------
Next ==
    \/ \E i \in Ids : Stamp(i) \/ Insert(i)
    \/ BeginWalk \/ FetchPage \/ Tick

Spec == Init /\ [][Next]_vars

----------------------------------------------------------------------------
(* Properties.                                                             *)

(***************************************************************************)
(* A finished walk has shown every device that was registered when it      *)
(* began, however many registered meanwhile and share their timestamps.    *)
(***************************************************************************)
NoneSkipped == walk = "done" => start \subseteq seen

(***************************************************************************)
(* No device is shown on two pages.                                        *)
(***************************************************************************)
NoneRepeated == again = {}

(***************************************************************************)
(* Registrations in the course of a walk do not keep feeding it: no device *)
(* that registers in a later second than the walk's first page is ever     *)
(* shown, however many come and however long the walk takes.               *)
(***************************************************************************)
LaterOnesStayOut == \A i \in seen : at[i] <= opened
=============================================================================
