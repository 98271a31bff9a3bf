-------------------------------- MODULE Hub --------------------------------
(***************************************************************************)
(* The life of a device's WebSocket connection inside puls-server: the     *)
(* handler that upgrades it (internal/server/routes_ws.go), the client's   *)
(* read loop and deferred cleanup (internal/ws/client.go), the hub's map   *)
(* and wait group they share (internal/ws/hub.go), the status column they  *)
(* write, and the shutdown that closes them all (internal/server/          *)
(* server.go, cmd/puls-server/main.go).                                    *)
(*                                                                         *)
(* Every handler is a goroutine; pc[c] is the next shared-state step of    *)
(* the handler of connection c.  A step touches what one critical section, *)
(* one SQL statement or one wait-group call of the code touches.           *)
(***************************************************************************)
EXTENDS Integers, FiniteSets

CONSTANTS
    Devices,    \* registered devices; each has a row in the devices table
    Conns,      \* upgrade requests that carry a device token
    DeviceID,   \* the device each of them authenticates as
    None,       \* no connection
    MayFail     \* the store operations that may return an error

StoreOps == {"setOnline", "setOffline", "insert", "touch"}

ASSUME HubAssumption ==
    /\ IsFiniteSet(Conns)
    /\ DeviceID \in [Conns -> Devices]
    /\ None \notin Conns
    /\ MayFail \subseteq StoreOps

VARIABLES
    srv,        \* what Server.Shutdown and the process are doing
    expired,    \* the shutdown context's deadline has passed
    toClose,    \* connections CloseAll has yet to close
    asked,      \* history: the connections CloseAll found in the map
    clients,    \* Hub.clients
    wg,         \* Hub.wg
    pc,         \* the next step of each connection's handler
    existing,   \* Register's local: the connection c replaced
    closed,     \* connections whose socket is closed
    status,     \* the status column of each device
    lastEvent,  \* the last connected/disconnected event published
    tainted     \* history: devices whose status met one of the hazards below

serverVars == <<srv, expired, toClose, asked>>
vars == <<serverVars, clients, wg, pc, existing, closed, status, lastEvent,
          tainted>>

----------------------------------------------------------------------------
(* The stages of a handler.                                                *)

Fresh      == {"idle", "dialled", "upgraded", "added"}
BeforeRun  == {"replacing", "online", "announce"}
Looping    == {"reading", "insert", "touch"}
Live       == BeforeRun \cup Looping \cup {"unregister"}
Counted    == {"added", "offline", "release"} \cup Live
Finished   == {"farewell", "done"}
Stages     == Fresh \cup Counted \cup Finished
PastOnline == (Live \ {"replacing", "online"})

ServerStates == {"serving", "closing", "waiting", "draining", "stopped", "down"}

\* The connections the wait group should be counting.
CountedConns == {c \in Conns : pc[c] \in Counted}

\* An offline write for d has been decided on and has not landed.
OfflinePending(d) == \E c \in Conns : DeviceID[c] = d /\ pc[c] = "offline"

TypeOK ==
    /\ srv \in ServerStates
    /\ expired \in BOOLEAN
    /\ toClose \subseteq Conns
    /\ asked \subseteq Conns
    /\ clients \in [Devices -> Conns \cup {None}]
    /\ wg \in Int
    /\ pc \in [Conns -> Stages]
    /\ existing \in [Conns -> Conns \cup {None}]
    /\ closed \subseteq Conns
    /\ status \in [Devices -> {"unknown", "online", "offline"}]
    /\ lastEvent \in [Devices -> {"none", "connected", "disconnected"}]
    /\ tainted \subseteq Devices

Init ==
    /\ srv = "serving"
    /\ expired = FALSE
    /\ toClose = {}
    /\ asked = {}
    /\ clients = [d \in Devices |-> None]
    /\ wg = 0
    /\ pc = [c \in Conns |-> "idle"]
    /\ existing = [c \in Conns |-> None]
    /\ closed = {}
    /\ status = [d \in Devices |-> "unknown"]
    /\ lastEvent = [d \in Devices |-> "none"]
    /\ tainted = {}

----------------------------------------------------------------------------
(* Slips a change to the code could make; substituted for the definition   *)
(* named beside it, each breaks one of the properties below.               *)

ReplacedLeftOpen(c) == {}                       \* Replaced
SeenOnly(d)         == status[d]                \* TouchedStatus
NoGuard(c)          == TRUE                     \* IsCurrent
ReturnsAtOnce       == "done"                   \* SupersededNext
MapCleared          == [d \in Devices |-> None]        \* MapAfterSnapshot
NoWaiting           == TRUE                     \* HandlersFinished
NoDeadline          == FALSE                    \* DeadlinePassed

----------------------------------------------------------------------------
(* The handler of one connection.                                          *)

\* net/http accepts the request while the listener is open: Shutdown closes
\* the listener only after CloseAll and Wait.
Dial(c) ==
    /\ srv \in {"serving", "closing", "waiting"}
    /\ pc[c] = "idle"
    /\ pc' = [pc EXCEPT ![c] = "dialled"]
    /\ UNCHANGED <<serverVars, clients, wg, existing, closed, status,
                   lastEvent, tainted>>

\* handleWebSocket turns the request away (token, role) or hijacks it.
Upgrade(c) ==
    /\ pc[c] = "dialled"
    /\ \E stage \in {"upgraded", "done"} : pc' = [pc EXCEPT ![c] = stage]
    /\ UNCHANGED <<serverVars, clients, wg, existing, closed, status,
                   lastEvent, tainted>>

\* NewClient counts the client before it registers it.
WgAdd(c) ==
    /\ pc[c] = "upgraded"
    /\ wg' = wg + 1
    /\ pc' = [pc EXCEPT ![c] = "added"]
    /\ UNCHANGED <<serverVars, clients, existing, closed, status, lastEvent,
                   tainted>>

\* Register's critical section: the map swap.
Register(c) ==
    LET d == DeviceID[c] IN
    /\ pc[c] = "added"
    /\ existing' = [existing EXCEPT ![c] = clients[d]]
    /\ clients' = [clients EXCEPT ![d] = c]
    /\ pc' = [pc EXCEPT ![c] = IF clients[d] # None THEN "replacing" ELSE "online"]
    /\ UNCHANGED <<serverVars, wg, closed, status, lastEvent, tainted>>

\* What Register closes.
Replaced(c) == {existing[c]}

\* Register closes the connection it replaced, outside the lock.  Until this
\* step the replaced connection is still open and may still be read from.
CloseExisting(c) ==
    /\ pc[c] = "replacing"
    /\ closed' = closed \cup Replaced(c)
    /\ pc' = [pc EXCEPT ![c] = "online"]
    /\ UNCHANGED <<serverVars, clients, wg, existing, status, lastEvent,
                   tainted>>

\* An "online" write that lands when the device has no connection left and no
\* offline write to come is never undone.
OnlineTaints(d) == clients[d] = None /\ ~OfflinePending(d)

\* An error of this write is only logged.
SetOnline(c) ==
    LET d == DeviceID[c] IN
    /\ pc[c] = "online"
    /\ \/ /\ status' = [status EXCEPT ![d] = "online"]
          /\ tainted' = IF OnlineTaints(d) THEN tainted \cup {d} ELSE tainted
       \/ /\ "setOnline" \in MayFail
          /\ status' = status
          /\ tainted' = tainted \cup {d}
    /\ pc' = [pc EXCEPT ![c] = "announce"]
    /\ UNCHANGED <<serverVars, clients, wg, existing, closed, lastEvent>>

PublishConnected(c) ==
    /\ pc[c] = "announce"
    /\ lastEvent' = [lastEvent EXCEPT ![DeviceID[c]] = "connected"]
    /\ pc' = [pc EXCEPT ![c] = "reading"]
    /\ UNCHANGED <<serverVars, clients, wg, existing, closed, status, tainted>>

\* Run reads a heartbeat.  A message it rejects (malformed, over the rate
\* limit, of another type) sends it back to the read with no change here.
ReadHeartbeat(c) ==
    /\ pc[c] = "reading"
    /\ c \notin closed
    /\ pc' = [pc EXCEPT ![c] = "insert"]
    /\ UNCHANGED <<serverVars, clients, wg, existing, closed, status,
                   lastEvent, tainted>>

\* handleHeartbeat gives up on the heartbeat when the insert fails.
InsertHeartbeat(c) ==
    /\ pc[c] = "insert"
    /\ \/ pc' = [pc EXCEPT ![c] = "touch"]
       \/ /\ "insert" \in MayFail
          /\ pc' = [pc EXCEPT ![c] = "reading"]
    /\ UNCHANGED <<serverVars, clients, wg, existing, closed, status,
                   lastEvent, tainted>>

\* UpdateLastSeen also sets status to online.
TouchedStatus(d) == "online"

UpdateLastSeen(c) ==
    LET d == DeviceID[c] IN
    /\ pc[c] = "touch"
    /\ \/ /\ status' = [status EXCEPT ![d] = TouchedStatus(d)]
          /\ tainted' = IF OnlineTaints(d) THEN tainted \cup {d} ELSE tainted
       \/ /\ "touch" \in MayFail
          /\ UNCHANGED <<status, tainted>>
    /\ pc' = [pc EXCEPT ![c] = "reading"]
    /\ UNCHANGED <<serverVars, clients, wg, existing, closed, lastEvent>>

\* Read returns an error: the peer left, the heartbeat timeout passed (the
\* library then closes the socket), or the server closed the socket.
ReadFails(c) ==
    /\ pc[c] = "reading"
    /\ closed' = closed \cup {c}
    /\ pc' = [pc EXCEPT ![c] = "unregister"]
    /\ UNCHANGED <<serverVars, clients, wg, existing, status, lastEvent,
                   tainted>>

\* The guard of Unregister, and what Run's deferred function does with it.
IsCurrent(c) == clients[DeviceID[c]] = c

SupersededNext == "release"

\* Unregister's critical section.  Only the current connection goes on to
\* write the device offline.
Unregister(c) ==
    /\ pc[c] = "unregister"
    /\ \/ /\ IsCurrent(c)
          /\ clients' = [clients EXCEPT ![DeviceID[c]] = None]
          /\ pc' = [pc EXCEPT ![c] = "offline"]
       \/ /\ ~IsCurrent(c)
          /\ clients' = clients
          /\ pc' = [pc EXCEPT ![c] = SupersededNext]
    /\ UNCHANGED <<serverVars, wg, existing, closed, status, lastEvent,
                   tainted>>

\* The "offline" write lands after a newer connection's "online" write.
OfflineTaints(d) == clients[d] # None /\ pc[clients[d]] \in PastOnline

\* An error of this write is only logged; nothing retries it.
SetOffline(c) ==
    LET d == DeviceID[c] IN
    /\ pc[c] = "offline"
    /\ \/ /\ status' = [status EXCEPT ![d] = "offline"]
          /\ tainted' = IF OfflineTaints(d) THEN tainted \cup {d} ELSE tainted
       \/ /\ "setOffline" \in MayFail
          /\ status' = status
          /\ tainted' = tainted \cup {d}
    /\ pc' = [pc EXCEPT ![c] = "release"]
    /\ UNCHANGED <<serverVars, clients, wg, existing, closed, lastEvent>>

WgDone(c) ==
    /\ pc[c] = "release"
    /\ wg' = wg - 1
    /\ pc' = [pc EXCEPT ![c] = "farewell"]
    /\ UNCHANGED <<serverVars, clients, existing, closed, status, lastEvent,
                   tainted>>

\* Published whether or not the connection had been superseded.
PublishDisconnected(c) ==
    /\ pc[c] = "farewell"
    /\ lastEvent' = [lastEvent EXCEPT ![DeviceID[c]] = "disconnected"]
    /\ pc' = [pc EXCEPT ![c] = "done"]
    /\ UNCHANGED <<serverVars, clients, wg, existing, closed, status, tainted>>

----------------------------------------------------------------------------
(* Server.Shutdown and the process.                                        *)

\* CloseAll's snapshot of the map, and the map it leaves behind.
Snapshot == {clients[d] : d \in Devices} \ {None}

MapAfterSnapshot == clients

\* A signal arrives; CloseAll takes its snapshot.
ShutdownBegins ==
    /\ srv = "serving"
    /\ srv' = "closing"
    /\ toClose' = Snapshot
    /\ asked' = Snapshot
    /\ clients' = MapAfterSnapshot
    /\ UNCHANGED <<expired, wg, pc, existing, closed, status,
                   lastEvent, tainted>>

\* One of CloseAll's goroutines finishes its Close.
CloseClient(c) ==
    /\ srv = "closing"
    /\ c \in toClose
    /\ toClose' = toClose \ {c}
    /\ closed' = closed \cup {c}
    /\ UNCHANGED <<srv, expired, asked, clients, wg, pc, existing, status,
                   lastEvent, tainted>>

CloseAllReturns ==
    /\ srv = "closing"
    /\ toClose = {}
    /\ srv' = "waiting"
    /\ UNCHANGED <<expired, toClose, asked, clients, wg, pc, existing, closed,
                   status, lastEvent, tainted>>

HandlersFinished == wg = 0
DeadlinePassed   == expired

\* Hub.Wait returns nil when it sees the counter at zero, an error at the
\* deadline; http.Shutdown closes the listener in either case.
WaitReturns ==
    /\ srv = "waiting"
    /\ HandlersFinished \/ DeadlinePassed
    /\ srv' = "draining"
    /\ UNCHANGED <<expired, toClose, asked, clients, wg, pc, existing, closed,
                   status, lastEvent, tainted>>

\* http.Shutdown waits for requests that are not hijacked, and only those.
HTTPShutdownReturns ==
    /\ srv = "draining"
    /\ expired \/ \A c \in Conns : pc[c] # "dialled"
    /\ srv' = "stopped"
    /\ UNCHANGED <<expired, toClose, asked, clients, wg, pc, existing, closed,
                   status, lastEvent, tainted>>

Deadline ==
    /\ srv \in {"closing", "waiting", "draining"}
    /\ ~expired
    /\ expired' = TRUE
    /\ UNCHANGED <<srv, toClose, asked, clients, wg, pc, existing, closed,
                   status, lastEvent, tainted>>

\* The process is gone: run returned after Shutdown, or it was killed.  What
\* it held in memory goes with it; the database stays as it was.
ProcessEnds ==
    /\ srv # "down"
    /\ srv' = "down"
    /\ expired' = FALSE
    /\ toClose' = {}
    /\ asked' = {}
    /\ clients' = [d \in Devices |-> None]
    /\ wg' = 0
    /\ pc' = [c \in Conns |-> IF pc[c] = "idle" THEN "idle" ELSE "done"]
    /\ closed' = closed \cup {c \in Conns : pc[c] # "idle"}
    /\ lastEvent' = [d \in Devices |-> "none"]
    /\ tainted' = tainted \cup {d \in Devices : status[d] = "online"}
    /\ UNCHANGED <<existing, status>>

\* A new process starts on the same database and corrects no status.
ProcessStarts ==
    /\ srv = "down"
    /\ srv' = "serving"
    /\ UNCHANGED <<expired, toClose, asked, clients, wg, pc, existing, closed,
                   status, lastEvent, tainted>>

----------------------------------------------------------------------------
Handler(c) ==
    \/ Upgrade(c) \/ WgAdd(c) \/ Register(c) \/ CloseExisting(c)
    \/ SetOnline(c) \/ PublishConnected(c)
    \/ InsertHeartbeat(c) \/ UpdateLastSeen(c)
    \/ Unregister(c) \/ SetOffline(c) \/ WgDone(c) \/ PublishDisconnected(c)

Shutdown ==
    \/ \E c \in Conns : CloseClient(c)
    \/ CloseAllReturns \/ WaitReturns \/ HTTPShutdownReturns

Next ==
    \/ \E c \in Conns : Dial(c) \/ Handler(c) \/ ReadHeartbeat(c) \/ ReadFails(c)
    \/ ShutdownBegins \/ Shutdown \/ Deadline
    \/ ProcessEnds \/ ProcessStarts

Spec == Init /\ [][Next]_vars

\* Goroutines that can run do run; every blocking call of a handler has a
\* deadline.  A read ends for certain only on a socket that is closed.
Fairness ==
    /\ \A c \in Conns : WF_vars(Handler(c)) /\ WF_vars(c \in closed /\ ReadFails(c))
    /\ WF_vars(Shutdown) /\ WF_vars(Deadline)

\* A read returns within the heartbeat timeout: with a heartbeat, if the device
\* keeps sending them, or with an error.
ReadFairness ==
    \A c \in Conns : WF_vars(ReadHeartbeat(c) \/ ReadFails(c))

FairSpec == Spec /\ Fairness /\ ReadFairness

----------------------------------------------------------------------------
(* Properties.                                                             *)

Superseded(c) == pc[c] \in Live /\ clients[DeviceID[c]] # c

(***************************************************************************)
(* No connection is forgotten: one whose handler still runs (registered    *)
(* and not yet unregistered) is the hub's current entry, or its socket is  *)
(* closed, or the Register call that replaced it is about to close it.     *)
(* Otherwise two open connections would serve one device for good.         *)
(***************************************************************************)
NoForgottenConn ==
    \A c \in Conns : Superseded(c) =>
        \/ c \in closed
        \/ \E n \in Conns : pc[n] = "replacing" /\ existing[n] = c

(***************************************************************************)
(* Hub.wg counts exactly the clients from NewClient to the end of Run, so  *)
(* Wait neither returns early nor waits for nobody.                        *)
(***************************************************************************)
WgCounts == wg = Cardinality(CountedConns)

(***************************************************************************)
(* The stored status agrees with the hub: online once the current          *)
(* connection has written it, not online once no connection is left and no *)
(* offline write is pending.  It can only fail for a device that met one   *)
(* of the hazards SetOnline, UpdateLastSeen, SetOffline and ProcessEnds    *)
(* record: two handlers' writes landing in the wrong order, a failed       *)
(* write, a process that ended on an online device.                        *)
(***************************************************************************)
StatusAgrees ==
    \A d \in Devices \ tainted :
        /\ clients[d] # None /\ pc[clients[d]] \in PastOnline => status[d] = "online"
        /\ clients[d] = None /\ ~OfflinePending(d) => status[d] # "online"

(***************************************************************************)
(* When Hub.Wait let the shutdown go on before its deadline, every client  *)
(* that CloseAll found has finished its unregister and offline write.      *)
(***************************************************************************)
CleanupBeforeDrain ==
    srv \in {"draining", "stopped"} /\ ~expired =>
        \A c \in asked : pc[c] \in Finished

(***************************************************************************)
(* A watcher of the event stream is not left with device.connected as the  *)
(* last word on a device that no handler serves any more.                  *)
(***************************************************************************)
ConnectedEventIsBacked ==
    \A d \in Devices : lastEvent[d] = "connected" =>
        \E c \in Conns : DeviceID[c] = d /\ pc[c] \notin Fresh \cup BeforeRun \cup {"done"}

(***************************************************************************)
(* A replaced connection's handler ends, its read loop included.           *)
(***************************************************************************)
SupersededConnEnds == \A c \in Conns : Superseded(c) ~> pc[c] = "done"

(***************************************************************************)
(* Server.Shutdown returns (or the process dies first), even if devices    *)
(* connect behind CloseAll's back and stay.                                *)
(***************************************************************************)
ShutdownReturns == srv = "closing" ~> srv \in {"stopped", "down"}

(***************************************************************************)
(* A device left "offline" under a live connection does not stay so: its   *)
(* next heartbeat repairs the status, or the connection ends.              *)
(***************************************************************************)
StatusHeals ==
    \A c \in Conns :
        IsCurrent(c) /\ pc[c] = "reading"
            ~> status[DeviceID[c]] = "online" \/ ~IsCurrent(c)

(***************************************************************************)
(* The hub, its handlers and the shutdown implement Presence: no handler's *)
(* cleanup drops another handler's session, and no connection becomes the  *)
(* session twice, whatever the order of Register, Unregister and Close.    *)
(***************************************************************************)
Promise == INSTANCE Presence WITH
    session <- clients,
    used    <- {c \in Conns : pc[c] \notin Fresh},
    gone    <- closed

PresenceSpec == Promise!Spec

(***************************************************************************)
(* Claims of the repository's comments and tests that the code does not    *)
(* keep; each has a run that exhibits the counterexample.                  *)
(***************************************************************************)

(***************************************************************************)
(* client.go: a superseded connection "must not clobber the newer          *)
(* connection's online status"; the status never flips to offline while    *)
(* the newer connection is active.                                         *)
(***************************************************************************)
NewerOnlineKept ==
    \A d \in Devices :
        clients[d] # None /\ pc[clients[d]] \in PastOnline => status[d] = "online"

(***************************************************************************)
(* routes_ws_test.go: by the time Server.Shutdown returns nil a connected  *)
(* device's offline write has landed.                                      *)
(***************************************************************************)
ShutdownMarksOffline ==
    srv = "stopped" /\ ~expired => \A d \in Devices : status[d] # "online"
============================================================================
