------------------------------- MODULE Server -------------------------------
(***************************************************************************)
(* Hub together with the other requests of puls-server that it meets: the  *)
(* readers of a device's status, which combine the stored status with the  *)
(* hub's map (handleGetDevice and handleListDevices, internal/server/      *)
(* routes_device.go), the open event streams (routes_events.go, modelled   *)
(* in detail by EventStream), and what all of them mean for Shutdown       *)
(* (server.go) and for run (cmd/puls-server/main.go).                      *)
(***************************************************************************)
EXTENDS Hub

CONSTANTS
    Readers,    \* requests for one device or for the list of devices
    Streams     \* requests for the event stream

VARIABLES
    reading,    \* the next step of each reader's handler
    answer,     \* the statuses it has read, then the ones it replied with
    wasOn,      \* history: devices present at some moment of the reading
    wasOff,     \* history: devices absent at some moment of the reading
    stream,     \* each event stream's handler
    waited,     \* history: Hub.Wait returned nil
    outcome     \* what Server.Shutdown returned

readerVars  == <<reading, answer, wasOn, wasOff>>
outcomeVars == <<waited, outcome>>
allVars     == <<vars, readerVars, stream, outcomeVars>>

NoAnswer == [d \in Devices |-> "none"]

ServerInit ==
    /\ Init
    /\ reading = [r \in Readers |-> "idle"]
    /\ answer = [r \in Readers |-> NoAnswer]
    /\ wasOn = [r \in Readers |-> {}]
    /\ wasOff = [r \in Readers |-> {}]
    /\ stream = [s \in Streams |-> "idle"]
    /\ waited = FALSE
    /\ outcome = "none"

----------------------------------------------------------------------------
(* Slips a change to the code could make; substituted for the definition   *)
(* named beside it, each breaks one of the properties below.               *)

StoredOnly(d, stored) == stored         \* Overlaid

----------------------------------------------------------------------------
(* What a reader could have seen.                                          *)

\* Of a device that met one of Hub's hazards any status may be stored.
Present == {d \in Devices : clients[d] # None \/ OfflinePending(d)} \cup tainted
Absent  == {d \in Devices : clients[d] = None}

\* History for the readers between their two looks.
Observed ==
    /\ wasOn' = [r \in Readers |->
          IF reading[r] = "overlay" THEN wasOn[r] \cup Present' ELSE wasOn[r]]
    /\ wasOff' = [r \in Readers |->
          IF reading[r] = "overlay" THEN wasOff[r] \cup Absent' ELSE wasOff[r]]

----------------------------------------------------------------------------
(* The readers.                                                            *)

\* The listener is open until http.Shutdown closes it.
Accepting == srv \in {"serving", "closing", "waiting"}

Ask(r) ==
    /\ Accepting
    /\ reading[r] = "idle"
    /\ reading' = [reading EXCEPT ![r] = "query"]
    /\ UNCHANGED <<vars, answer, wasOn, wasOff, stream, outcomeVars>>

\* GetDevice, of one device, or ListDevices.  A failure is answered with an
\* error.
QueryStore(r) ==
    /\ reading[r] = "query"
    /\ \/ /\ \E D \in {Devices} \cup {{d} : d \in Devices} :
             answer' = [answer EXCEPT ![r] =
                          [d \in Devices |-> IF d \in D THEN status[d] ELSE "none"]]
          /\ reading' = [reading EXCEPT ![r] = "overlay"]
          /\ wasOn' = [wasOn EXCEPT ![r] = Present]
          /\ wasOff' = [wasOff EXCEPT ![r] = Absent]
       \/ /\ reading' = [reading EXCEPT ![r] = "done"]
          /\ UNCHANGED <<answer, wasOn, wasOff>>
    /\ UNCHANGED <<vars, stream, outcomeVars>>

\* Hub.IsConnected or Hub.ConnectedDeviceIDs, under the hub's lock.
Overlaid(d, stored) == IF clients[d] # None THEN "online" ELSE stored

Overlay(r) ==
    /\ reading[r] = "overlay"
    /\ answer' = [answer EXCEPT ![r] =
          [d \in Devices |-> IF @[d] = "none" THEN "none" ELSE Overlaid(d, @[d])]]
    /\ reading' = [reading EXCEPT ![r] = "done"]
    /\ UNCHANGED <<vars, wasOn, wasOff, stream, outcomeVars>>

----------------------------------------------------------------------------
(* The event streams.  A handler ends when its client leaves or stalls, for *)
(* which nothing in the server can be relied on.                           *)

OpenStream(s) ==
    /\ Accepting
    /\ stream[s] = "idle"
    /\ stream' = [stream EXCEPT ![s] = "open"]
    /\ UNCHANGED <<vars, readerVars, outcomeVars>>

StreamEnds(s) ==
    /\ stream[s] = "open"
    /\ stream' = [stream EXCEPT ![s] = "done"]
    /\ UNCHANGED <<vars, readerVars, outcomeVars>>

----------------------------------------------------------------------------
(* Hub, with the shutdown as the other requests make it.                   *)

HubStep ==
    /\ \/ \E c \in Conns :
             \/ Dial(c) \/ Handler(c) \/ ReadHeartbeat(c) \/ ReadFails(c)
             \/ CloseClient(c)
       \/ ShutdownBegins \/ CloseAllReturns \/ Deadline \/ ProcessStarts
    /\ Observed
    /\ UNCHANGED <<reading, answer, stream, outcomeVars>>

\* Hub.Wait's select: nil if the handlers have finished, an error if the
\* deadline has passed, either if both have happened.
WaitSettles ==
    /\ WaitReturns
    /\ \/ HandlersFinished /\ waited' = TRUE
       \/ DeadlinePassed /\ waited' = FALSE
    /\ Observed
    /\ UNCHANGED <<reading, answer, stream, outcome>>

\* The requests http.Shutdown tracks: those that are not hijacked.
NoneActive ==
    /\ \A c \in Conns : pc[c] # "dialled"
    /\ \A r \in Readers : reading[r] \in {"idle", "done"}
    /\ \A s \in Streams : stream[s] # "open"

\* http.Shutdown polls: nil once no request is active, the context's error if
\* the deadline comes first.  It interrupts no request.
DrainReturns ==
    /\ HTTPShutdownReturns
    /\ \/ NoneActive /\ outcome' = "nil"
       \/ DeadlinePassed /\ outcome' = "error"
    /\ Observed
    /\ UNCHANGED <<reading, answer, stream, waited>>

\* run returns, after the tracing flush if Shutdown returned nil; or the
\* process is killed.  Requests under way are cut off.
ServerEnds ==
    /\ ProcessEnds
    /\ reading' = [r \in Readers |-> IF reading[r] = "idle" THEN "idle" ELSE "done"]
    /\ answer' = [r \in Readers |->
                    IF reading[r] = "overlay" THEN NoAnswer ELSE answer[r]]
    /\ stream' = [s \in Streams |-> IF stream[s] = "open" THEN "done" ELSE stream[s]]
    /\ waited' = FALSE
    /\ outcome' = "none"
    /\ UNCHANGED <<wasOn, wasOff>>

----------------------------------------------------------------------------
ServerNext ==
    \/ HubStep \/ WaitSettles \/ DrainReturns \/ ServerEnds
    \/ \E r \in Readers : Ask(r) \/ QueryStore(r) \/ Overlay(r)
    \/ \E s \in Streams : OpenStream(s) \/ StreamEnds(s)

ServerSpec == ServerInit /\ [][ServerNext]_allVars

\* Hub's fairness, Shutdown's steps and the readers' handlers.  No client has
\* to leave its event stream.
ServerFairSpec ==
    /\ ServerSpec
    /\ \A c \in Conns :
          /\ WF_vars(Handler(c)) /\ WF_vars(c \in closed /\ ReadFails(c))
          /\ WF_vars(CloseClient(c))
    /\ ReadFairness
    /\ WF_vars(CloseAllReturns) /\ WF_vars(Deadline)
    /\ WF_allVars(WaitSettles) /\ WF_allVars(DrainReturns)
    /\ \A r \in Readers : WF_allVars(QueryStore(r) \/ Overlay(r))

----------------------------------------------------------------------------
(* Properties.                                                             *)

(***************************************************************************)
(* A status that handleGetDevice or handleListDevices reports was true at  *)
(* some moment of the request, although it is put together from two looks: *)
(* a device shown online was present in between (connected, or its offline *)
(* write under way), one shown otherwise was absent from the hub.  So one  *)
(* that stays connected is never shown offline, whatever the store says.   *)
(***************************************************************************)
ReplyWasTrue ==
    \A r \in Readers : reading[r] = "done" =>
        \A d \in Devices :
            /\ answer[r][d] = "online" => d \in wasOn[r]
            /\ answer[r][d] \in {"offline", "unknown"} => d \in wasOff[r]

(***************************************************************************)
(* What Shutdown has reported by the time it returns is so: if Hub.Wait    *)
(* did not complain, every device CloseAll found has finished its clean-up *)
(* although event streams may have used up the rest of the deadline, and   *)
(* if Shutdown returned nil, no request is left to be cut off when run     *)
(* returns.                                                                *)
(***************************************************************************)
ShutdownReportsTrue ==
    /\ waited => \A c \in asked : pc[c] \in Finished
    /\ srv = "stopped" /\ outcome = "nil" => NoneActive
=============================================================================
