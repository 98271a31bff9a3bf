----------------------------- MODULE HubProofs -----------------------------
(***************************************************************************)
(* Proofs that the properties of Hub hold for every set of devices, every  *)
(* finite set of connections and every choice of failing store operations. *)
(***************************************************************************)
EXTENDS Hub, FiniteSetTheorems, TLAPS

(***************************************************************************)
(* What the map and Register's locals always satisfy: a current entry is a *)
(* live connection of its own device, a replacing handler knows what it    *)
(* replaced, and a handler that left its read loop has a closed socket.    *)
(***************************************************************************)
CurrentIsLive ==
    \A d \in Devices : clients[d] # None =>
        DeviceID[clients[d]] = d /\ pc[clients[d]] \in Live

ReplacedExists == \A c \in Conns : pc[c] = "replacing" => existing[c] \in Conns

UnregistersClosed == \A c \in Conns : pc[c] = "unregister" => c \in closed

Core == TypeOK /\ CurrentIsLive /\ ReplacedExists /\ UnregistersClosed

----------------------------------------------------------------------------
(* The core holds initially and every step keeps it.                       *)

\* The initial state satisfies the core invariant.
LEMMA CoreInit == Init => Core
<1> SUFFICES ASSUME Init PROVE Core
    OBVIOUS
<1> USE DEF Init
<1>1. TypeOK
  <2>1. clients \in [Devices -> Conns \cup {None}]
      OBVIOUS
  <2>2. pc \in [Conns -> Stages]
      BY DEF Stages, Fresh
  <2>3. existing \in [Conns -> Conns \cup {None}]
      OBVIOUS
  <2>4. status \in [Devices -> {"unknown", "online", "offline"}]
      OBVIOUS
  <2>5. lastEvent \in [Devices -> {"none", "connected", "disconnected"}]
      OBVIOUS
  <2>6. /\ srv \in ServerStates /\ wg \in Int
        /\ toClose \subseteq Conns /\ asked \subseteq Conns
        /\ closed \subseteq Conns /\ tainted \subseteq Devices
      BY DEF ServerStates
  <2>7. expired \in BOOLEAN
      BY Zenon
  <2> HIDE DEF Init
  <2> QED
      BY <2>1, <2>2, <2>3, <2>4, <2>5, <2>6, <2>7 DEF TypeOK
<1>2. CurrentIsLive
    BY DEF CurrentIsLive
<1>3. ReplacedExists /\ UnregistersClosed
    BY DEF ReplacedExists, UnregistersClosed
<1> QED
    BY <1>1, <1>2, <1>3 DEF Core

\* Every step of every handler, of the shutdown and of the process keeps it.
LEMMA CoreNext == Core /\ [Next]_vars => Core'
<1> SUFFICES ASSUME Core, [Next]_vars PROVE Core'
    OBVIOUS
<1> USE HubAssumption DEF Core, TypeOK, CurrentIsLive, ReplacedExists,
        UnregistersClosed, serverVars, ServerStates, Stages, Fresh, BeforeRun,
        Looping, Live, Counted, Finished
<1>1. ASSUME NEW c \in Conns, Dial(c) PROVE Core'
    BY <1>1 DEF Dial
<1>2. ASSUME NEW c \in Conns, Upgrade(c) PROVE Core'
    BY <1>2 DEF Upgrade
<1>3. ASSUME NEW c \in Conns, WgAdd(c) PROVE Core'
    BY <1>3 DEF WgAdd
<1>4. ASSUME NEW c \in Conns, Register(c) PROVE Core'
    BY <1>4 DEF Register
<1>5. ASSUME NEW c \in Conns, CloseExisting(c) PROVE Core'
    BY <1>5 DEF CloseExisting, Replaced
<1>6. ASSUME NEW c \in Conns, SetOnline(c) PROVE Core'
    BY <1>6 DEF SetOnline, OnlineTaints
<1>7. ASSUME NEW c \in Conns, PublishConnected(c) PROVE Core'
    BY <1>7 DEF PublishConnected
<1>8. ASSUME NEW c \in Conns, ReadHeartbeat(c) PROVE Core'
    BY <1>8 DEF ReadHeartbeat
<1>9. ASSUME NEW c \in Conns, InsertHeartbeat(c) PROVE Core'
    BY <1>9 DEF InsertHeartbeat
<1>10. ASSUME NEW c \in Conns, UpdateLastSeen(c) PROVE Core'
    BY <1>10 DEF UpdateLastSeen, OnlineTaints, TouchedStatus
<1>11. ASSUME NEW c \in Conns, ReadFails(c) PROVE Core'
    BY <1>11 DEF ReadFails
<1>12. ASSUME NEW c \in Conns, Unregister(c) PROVE Core'
    BY <1>12 DEF Unregister, IsCurrent, SupersededNext
<1>13. ASSUME NEW c \in Conns, SetOffline(c) PROVE Core'
    BY <1>13 DEF SetOffline, OfflineTaints
<1>14. ASSUME NEW c \in Conns, WgDone(c) PROVE Core'
    BY <1>14 DEF WgDone
<1>15. ASSUME NEW c \in Conns, PublishDisconnected(c) PROVE Core'
    BY <1>15 DEF PublishDisconnected
<1>16. ASSUME NEW c \in Conns, CloseClient(c) PROVE Core'
    BY <1>16 DEF CloseClient
<1>17. CASE ShutdownBegins
    BY <1>17 DEF ShutdownBegins, Snapshot, MapAfterSnapshot
<1>18. CASE CloseAllReturns
    BY <1>18 DEF CloseAllReturns
<1>19. CASE WaitReturns
    BY <1>19 DEF WaitReturns, HandlersFinished
<1>20. CASE HTTPShutdownReturns
    BY <1>20 DEF HTTPShutdownReturns
<1>21. CASE Deadline
    BY <1>21 DEF Deadline
<1>22. CASE ProcessEnds
  <2>1. clients' \in [Devices -> Conns \cup {None}]
      BY <1>22 DEF ProcessEnds
  <2>2. pc' \in [Conns -> Stages]
      BY <1>22 DEF ProcessEnds
  <2>3. lastEvent' \in [Devices -> {"none", "connected", "disconnected"}]
      BY <1>22 DEF ProcessEnds
  <2>4. CurrentIsLive'
      BY <1>22 DEF ProcessEnds
  <2>5. ReplacedExists' /\ UnregistersClosed'
      BY <1>22 DEF ProcessEnds
  <2>6. /\ srv' \in ServerStates /\ wg' \in Int
        /\ toClose' \subseteq Conns /\ asked' \subseteq Conns
        /\ closed' \subseteq Conns /\ tainted' \subseteq Devices
      BY <1>22 DEF ProcessEnds
  <2>7. expired' \in BOOLEAN
      BY <1>22, Zenon DEF ProcessEnds
  <2>8. existing' = existing /\ status' = status
      BY <1>22 DEF ProcessEnds
  <2> QED
      BY <2>1, <2>2, <2>3, <2>4, <2>5, <2>6, <2>7, <2>8
<1>23. CASE ProcessStarts
    BY <1>23 DEF ProcessStarts
<1>24. CASE UNCHANGED vars
    BY <1>24 DEF vars
<1> QED
    BY <1>1, <1>2, <1>3, <1>4, <1>5, <1>6, <1>7, <1>8, <1>9, <1>10, <1>11, <1>12,
       <1>13, <1>14, <1>15, <1>16, <1>17, <1>18, <1>19, <1>20, <1>21, <1>22, <1>23, <1>24
       DEF Next, Handler, Shutdown

\* The core invariant holds in every reachable state.
THEOREM CoreInvariant == Spec => []Core
BY CoreInit, CoreNext, PTL DEF Spec

(***************************************************************************)
(* Type correctness of the hub, its handlers and the shutdown.             *)
(***************************************************************************)
THEOREM TypeCorrect == Spec => []TypeOK
<1>1. Core => TypeOK
    BY DEF Core
<1> QED
    BY <1>1, CoreInvariant, PTL

----------------------------------------------------------------------------
(* The refinement of Presence.                                             *)

\* The initial states map to initial states of Presence.
LEMMA PresenceInit == Init => Promise!Init
BY DEF Init, Promise!Init, Fresh

\* Every step maps to a step of Presence or to a stutter.
LEMMA PresenceNext == Core /\ [Next]_vars => [Promise!Next]_(Promise!presenceVars)
<1> SUFFICES ASSUME Core, [Next]_vars
             PROVE  Promise!Next \/ UNCHANGED Promise!presenceVars
    OBVIOUS
<1> DEFINE Step == Promise!Next \/ UNCHANGED Promise!presenceVars
<1> USE HubAssumption DEF Core, TypeOK, Promise!presenceVars
<1>1. ASSUME NEW c \in Conns, Dial(c) PROVE Step
    BY <1>1 DEF Dial, Fresh
<1>2. ASSUME NEW c \in Conns, Upgrade(c) PROVE Step
  <2>1. CASE pc' = [pc EXCEPT ![c] = "upgraded"]
      BY <1>2, <2>1 DEF Upgrade, Fresh
  <2>2. CASE pc' = [pc EXCEPT ![c] = "done"]
    <3>1. Promise!Refuse(c)
        BY <1>2, <2>2 DEF Upgrade, Promise!Refuse, Fresh
    <3> QED
        BY <3>1 DEF Promise!Next
  <2> QED
      BY <1>2, <2>1, <2>2 DEF Upgrade
<1>3. ASSUME NEW c \in Conns, WgAdd(c) PROVE Step
    BY <1>3 DEF WgAdd, Fresh
<1>4. ASSUME NEW c \in Conns, Register(c) PROVE Step
  <2>1. Promise!Join(c)
      BY <1>4 DEF Register, Fresh, Promise!Join
  <2> QED
      BY <2>1 DEF Promise!Next
<1>5. ASSUME NEW c \in Conns, CloseExisting(c) PROVE Step
  <2>1. Promise!HangUp(existing[c])
      BY <1>5 DEF CloseExisting, Replaced, Fresh, Promise!HangUp
  <2> QED
      BY <1>5, <2>1 DEF Promise!Next, ReplacedExists, CloseExisting
<1>6. ASSUME NEW c \in Conns, SetOnline(c) PROVE Step
    BY <1>6 DEF SetOnline, OnlineTaints, Fresh
<1>7. ASSUME NEW c \in Conns, PublishConnected(c) PROVE Step
    BY <1>7 DEF PublishConnected, Fresh
<1>8. ASSUME NEW c \in Conns, ReadHeartbeat(c) PROVE Step
    BY <1>8 DEF ReadHeartbeat, Fresh
<1>9. ASSUME NEW c \in Conns, InsertHeartbeat(c) PROVE Step
    BY <1>9 DEF InsertHeartbeat, Fresh
<1>10. ASSUME NEW c \in Conns, UpdateLastSeen(c) PROVE Step
    BY <1>10 DEF UpdateLastSeen, OnlineTaints, TouchedStatus, Fresh
<1>11. ASSUME NEW c \in Conns, ReadFails(c) PROVE Step
  <2>1. Promise!HangUp(c)
      BY <1>11 DEF ReadFails, Fresh, Promise!HangUp
  <2> QED
      BY <2>1 DEF Promise!Next
<1>12. ASSUME NEW c \in Conns, Unregister(c) PROVE Step
  <2>1. CASE IsCurrent(c)
    <3>1. Promise!Leave(c)
        BY <1>12, <2>1 DEF Unregister, IsCurrent, UnregistersClosed, Promise!Leave, Fresh
    <3> QED
        BY <3>1 DEF Promise!Next
  <2>2. CASE ~IsCurrent(c)
      BY <1>12, <2>2 DEF Unregister, SupersededNext, Fresh
  <2> QED
      BY <2>1, <2>2
<1>13. ASSUME NEW c \in Conns, SetOffline(c) PROVE Step
    BY <1>13 DEF SetOffline, OfflineTaints, Fresh
<1>14. ASSUME NEW c \in Conns, WgDone(c) PROVE Step
    BY <1>14 DEF WgDone, Fresh
<1>15. ASSUME NEW c \in Conns, PublishDisconnected(c) PROVE Step
    BY <1>15 DEF PublishDisconnected, Fresh
<1>16. ASSUME NEW c \in Conns, CloseClient(c) PROVE Step
  <2>1. Promise!HangUp(c)
      BY <1>16 DEF CloseClient, Promise!HangUp
  <2> QED
      BY <2>1 DEF Promise!Next
<1>17. CASE ShutdownBegins
    BY <1>17 DEF ShutdownBegins, Snapshot, MapAfterSnapshot, Fresh
<1>18. CASE CloseAllReturns
    BY <1>18 DEF CloseAllReturns, Fresh
<1>19. CASE WaitReturns
    BY <1>19 DEF WaitReturns, HandlersFinished, Fresh
<1>20. CASE HTTPShutdownReturns
    BY <1>20 DEF HTTPShutdownReturns, Fresh
<1>21. CASE Deadline
    BY <1>21 DEF Deadline, Fresh
<1>22. CASE ProcessEnds
  <2>1. Promise!Restart
      BY <1>22 DEF ProcessEnds, Fresh, Promise!Restart
  <2> QED
      BY <2>1 DEF Promise!Next
<1>23. CASE ProcessStarts
    BY <1>23 DEF ProcessStarts, Fresh
<1>24. CASE UNCHANGED vars
    BY <1>24 DEF vars, Fresh
<1> QED
    BY <1>1, <1>2, <1>3, <1>4, <1>5, <1>6, <1>7, <1>8, <1>9, <1>10, <1>11, <1>12,
       <1>13, <1>14, <1>15, <1>16, <1>17, <1>18, <1>19, <1>20, <1>21, <1>22, <1>23, <1>24
       DEF Next, Handler, Shutdown

(***************************************************************************)
(* The hub with its handlers and its shutdown implements Presence.         *)
(***************************************************************************)
THEOREM ImplementsPresence == Spec => PresenceSpec
<1>1. Spec => Promise!Init /\ [][Promise!Next]_(Promise!presenceVars)
    BY PresenceInit, PresenceNext, CoreInvariant, PTL DEF Spec
<1> QED
    BY <1>1 DEF PresenceSpec, Promise!Spec

----------------------------------------------------------------------------
(* No connection is forgotten.                                             *)

\* A step leaves every superseded connection closed or about to be closed.
LEMMA NoForgottenNext ==
    Core /\ NoForgottenConn /\ [Next]_vars => NoForgottenConn'
<1> SUFFICES ASSUME Core, NoForgottenConn, [Next]_vars PROVE NoForgottenConn'
    OBVIOUS
<1> USE HubAssumption DEF Core, TypeOK, CurrentIsLive, ReplacedExists,
        NoForgottenConn, Superseded, serverVars, Stages, Fresh, BeforeRun,
        Looping, Live, Counted, Finished
<1>1. ASSUME NEW c \in Conns, Dial(c) PROVE NoForgottenConn'
    BY <1>1 DEF Dial
<1>2. ASSUME NEW c \in Conns, Upgrade(c) PROVE NoForgottenConn'
    BY <1>2 DEF Upgrade
<1>3. ASSUME NEW c \in Conns, WgAdd(c) PROVE NoForgottenConn'
    BY <1>3 DEF WgAdd
<1>4. ASSUME NEW c \in Conns, Register(c) PROVE NoForgottenConn'
    BY <1>4 DEF Register
<1>5. ASSUME NEW c \in Conns, CloseExisting(c) PROVE NoForgottenConn'
    BY <1>5 DEF CloseExisting, Replaced
<1>6. ASSUME NEW c \in Conns, SetOnline(c) PROVE NoForgottenConn'
    BY <1>6 DEF SetOnline, OnlineTaints
<1>7. ASSUME NEW c \in Conns, PublishConnected(c) PROVE NoForgottenConn'
    BY <1>7 DEF PublishConnected
<1>8. ASSUME NEW c \in Conns, ReadHeartbeat(c) PROVE NoForgottenConn'
    BY <1>8 DEF ReadHeartbeat
<1>9. ASSUME NEW c \in Conns, InsertHeartbeat(c) PROVE NoForgottenConn'
    BY <1>9 DEF InsertHeartbeat
<1>10. ASSUME NEW c \in Conns, UpdateLastSeen(c) PROVE NoForgottenConn'
    BY <1>10 DEF UpdateLastSeen, OnlineTaints, TouchedStatus
<1>11. ASSUME NEW c \in Conns, ReadFails(c) PROVE NoForgottenConn'
    BY <1>11 DEF ReadFails
<1>12. ASSUME NEW c \in Conns, Unregister(c) PROVE NoForgottenConn'
    BY <1>12 DEF Unregister, IsCurrent, SupersededNext
<1>13. ASSUME NEW c \in Conns, SetOffline(c) PROVE NoForgottenConn'
    BY <1>13 DEF SetOffline, OfflineTaints
<1>14. ASSUME NEW c \in Conns, WgDone(c) PROVE NoForgottenConn'
    BY <1>14 DEF WgDone
<1>15. ASSUME NEW c \in Conns, PublishDisconnected(c) PROVE NoForgottenConn'
    BY <1>15 DEF PublishDisconnected
<1>16. ASSUME NEW c \in Conns, CloseClient(c) PROVE NoForgottenConn'
    BY <1>16 DEF CloseClient
<1>17. CASE ShutdownBegins
    BY <1>17 DEF ShutdownBegins, Snapshot, MapAfterSnapshot
<1>18. CASE CloseAllReturns
    BY <1>18 DEF CloseAllReturns
<1>19. CASE WaitReturns
    BY <1>19 DEF WaitReturns, HandlersFinished
<1>20. CASE HTTPShutdownReturns
    BY <1>20 DEF HTTPShutdownReturns
<1>21. CASE Deadline
    BY <1>21 DEF Deadline
<1>22. CASE ProcessEnds
    BY <1>22 DEF ProcessEnds
<1>23. CASE ProcessStarts
    BY <1>23 DEF ProcessStarts
<1>24. CASE UNCHANGED vars
    BY <1>24 DEF vars
<1> QED
    BY <1>1, <1>2, <1>3, <1>4, <1>5, <1>6, <1>7, <1>8, <1>9, <1>10, <1>11, <1>12,
       <1>13, <1>14, <1>15, <1>16, <1>17, <1>18, <1>19, <1>20, <1>21, <1>22, <1>23, <1>24
       DEF Next, Handler, Shutdown

(***************************************************************************)
(* Every live connection is the current one, closed, or about to be closed *)
(* by the Register that replaced it.                                       *)
(***************************************************************************)
THEOREM NoneForgotten == Spec => []NoForgottenConn
<1>1. Init => NoForgottenConn
    BY DEF Init, NoForgottenConn, Superseded, Live, BeforeRun, Looping
<1> QED
    BY <1>1, NoForgottenNext, CoreInvariant, PTL DEF Spec

----------------------------------------------------------------------------
(* The stored status agrees with the hub.                                  *)

\* A step keeps the agreement or records the hazard that broke it.
LEMMA StatusAgreesNext ==
    Core /\ StatusAgrees /\ [Next]_vars => StatusAgrees'
<1> SUFFICES ASSUME Core, StatusAgrees, [Next]_vars PROVE StatusAgrees'
    OBVIOUS
<1> USE HubAssumption DEF Core, TypeOK, CurrentIsLive, StatusAgrees,
        OfflinePending, serverVars, Stages, Fresh, BeforeRun, Looping, Live,
        Counted, Finished, PastOnline
<1>1. ASSUME NEW c \in Conns, Dial(c) PROVE StatusAgrees'
    BY <1>1 DEF Dial
<1>2. ASSUME NEW c \in Conns, Upgrade(c) PROVE StatusAgrees'
    BY <1>2 DEF Upgrade
<1>3. ASSUME NEW c \in Conns, WgAdd(c) PROVE StatusAgrees'
    BY <1>3 DEF WgAdd
<1>4. ASSUME NEW c \in Conns, Register(c) PROVE StatusAgrees'
    BY <1>4 DEF Register
<1>5. ASSUME NEW c \in Conns, CloseExisting(c) PROVE StatusAgrees'
    BY <1>5 DEF CloseExisting, Replaced
<1>6. ASSUME NEW c \in Conns, SetOnline(c) PROVE StatusAgrees'
    BY <1>6 DEF SetOnline, OnlineTaints
<1>7. ASSUME NEW c \in Conns, PublishConnected(c) PROVE StatusAgrees'
    BY <1>7 DEF PublishConnected
<1>8. ASSUME NEW c \in Conns, ReadHeartbeat(c) PROVE StatusAgrees'
    BY <1>8 DEF ReadHeartbeat
<1>9. ASSUME NEW c \in Conns, InsertHeartbeat(c) PROVE StatusAgrees'
    BY <1>9 DEF InsertHeartbeat
<1>10. ASSUME NEW c \in Conns, UpdateLastSeen(c) PROVE StatusAgrees'
    BY <1>10 DEF UpdateLastSeen, OnlineTaints, TouchedStatus
<1>11. ASSUME NEW c \in Conns, ReadFails(c) PROVE StatusAgrees'
    BY <1>11 DEF ReadFails
<1>12. ASSUME NEW c \in Conns, Unregister(c) PROVE StatusAgrees'
    BY <1>12 DEF Unregister, IsCurrent, SupersededNext
<1>13. ASSUME NEW c \in Conns, SetOffline(c) PROVE StatusAgrees'
    BY <1>13 DEF SetOffline, OfflineTaints
<1>14. ASSUME NEW c \in Conns, WgDone(c) PROVE StatusAgrees'
    BY <1>14 DEF WgDone
<1>15. ASSUME NEW c \in Conns, PublishDisconnected(c) PROVE StatusAgrees'
    BY <1>15 DEF PublishDisconnected
<1>16. ASSUME NEW c \in Conns, CloseClient(c) PROVE StatusAgrees'
    BY <1>16 DEF CloseClient
<1>17. CASE ShutdownBegins
    BY <1>17 DEF ShutdownBegins, Snapshot, MapAfterSnapshot
<1>18. CASE CloseAllReturns
    BY <1>18 DEF CloseAllReturns
<1>19. CASE WaitReturns
    BY <1>19 DEF WaitReturns, HandlersFinished
<1>20. CASE HTTPShutdownReturns
    BY <1>20 DEF HTTPShutdownReturns
<1>21. CASE Deadline
    BY <1>21 DEF Deadline
<1>22. CASE ProcessEnds
    BY <1>22 DEF ProcessEnds
<1>23. CASE ProcessStarts
    BY <1>23 DEF ProcessStarts
<1>24. CASE UNCHANGED vars
    BY <1>24 DEF vars
<1> QED
    BY <1>1, <1>2, <1>3, <1>4, <1>5, <1>6, <1>7, <1>8, <1>9, <1>10, <1>11, <1>12,
       <1>13, <1>14, <1>15, <1>16, <1>17, <1>18, <1>19, <1>20, <1>21, <1>22, <1>23, <1>24
       DEF Next, Handler, Shutdown

(***************************************************************************)
(* For every device that met none of the recorded hazards the status       *)
(* column agrees with the hub's map.                                       *)
(***************************************************************************)
THEOREM StatusAlwaysAgrees == Spec => []StatusAgrees
<1>1. Init => StatusAgrees
    BY DEF Init, StatusAgrees
<1> QED
    BY <1>1, StatusAgreesNext, CoreInvariant, PTL DEF Spec

----------------------------------------------------------------------------
(* The event stream.                                                       *)

\* A step keeps a handler behind every device last announced as connected.
LEMMA EventBackedNext ==
    Core /\ ConnectedEventIsBacked /\ [Next]_vars => ConnectedEventIsBacked'
<1> SUFFICES ASSUME Core, ConnectedEventIsBacked, [Next]_vars
             PROVE  ConnectedEventIsBacked'
    OBVIOUS
<1> USE HubAssumption DEF Core, TypeOK, ConnectedEventIsBacked, serverVars,
        Stages, Fresh, BeforeRun, Looping, Live, Counted, Finished
<1>1. ASSUME NEW c \in Conns, Dial(c) PROVE ConnectedEventIsBacked'
    BY <1>1 DEF Dial
<1>2. ASSUME NEW c \in Conns, Upgrade(c) PROVE ConnectedEventIsBacked'
    BY <1>2 DEF Upgrade
<1>3. ASSUME NEW c \in Conns, WgAdd(c) PROVE ConnectedEventIsBacked'
    BY <1>3 DEF WgAdd
<1>4. ASSUME NEW c \in Conns, Register(c) PROVE ConnectedEventIsBacked'
    BY <1>4 DEF Register
<1>5. ASSUME NEW c \in Conns, CloseExisting(c) PROVE ConnectedEventIsBacked'
    BY <1>5 DEF CloseExisting, Replaced
<1>6. ASSUME NEW c \in Conns, SetOnline(c) PROVE ConnectedEventIsBacked'
    BY <1>6 DEF SetOnline, OnlineTaints
<1>7. ASSUME NEW c \in Conns, PublishConnected(c) PROVE ConnectedEventIsBacked'
    BY <1>7 DEF PublishConnected
<1>8. ASSUME NEW c \in Conns, ReadHeartbeat(c) PROVE ConnectedEventIsBacked'
    BY <1>8 DEF ReadHeartbeat
<1>9. ASSUME NEW c \in Conns, InsertHeartbeat(c) PROVE ConnectedEventIsBacked'
    BY <1>9 DEF InsertHeartbeat
<1>10. ASSUME NEW c \in Conns, UpdateLastSeen(c) PROVE ConnectedEventIsBacked'
    BY <1>10 DEF UpdateLastSeen, OnlineTaints, TouchedStatus
<1>11. ASSUME NEW c \in Conns, ReadFails(c) PROVE ConnectedEventIsBacked'
    BY <1>11 DEF ReadFails
<1>12. ASSUME NEW c \in Conns, Unregister(c) PROVE ConnectedEventIsBacked'
    BY <1>12 DEF Unregister, IsCurrent, SupersededNext
<1>13. ASSUME NEW c \in Conns, SetOffline(c) PROVE ConnectedEventIsBacked'
    BY <1>13 DEF SetOffline, OfflineTaints
<1>14. ASSUME NEW c \in Conns, WgDone(c) PROVE ConnectedEventIsBacked'
    BY <1>14 DEF WgDone
<1>15. ASSUME NEW c \in Conns, PublishDisconnected(c) PROVE ConnectedEventIsBacked'
    BY <1>15 DEF PublishDisconnected
<1>16. ASSUME NEW c \in Conns, CloseClient(c) PROVE ConnectedEventIsBacked'
    BY <1>16 DEF CloseClient
<1>17. CASE ShutdownBegins
    BY <1>17 DEF ShutdownBegins, Snapshot, MapAfterSnapshot
<1>18. CASE CloseAllReturns
    BY <1>18 DEF CloseAllReturns
<1>19. CASE WaitReturns
    BY <1>19 DEF WaitReturns, HandlersFinished
<1>20. CASE HTTPShutdownReturns
    BY <1>20 DEF HTTPShutdownReturns
<1>21. CASE Deadline
    BY <1>21 DEF Deadline
<1>22. CASE ProcessEnds
    BY <1>22 DEF ProcessEnds
<1>23. CASE ProcessStarts
    BY <1>23 DEF ProcessStarts
<1>24. CASE UNCHANGED vars
    BY <1>24 DEF vars
<1> QED
    BY <1>1, <1>2, <1>3, <1>4, <1>5, <1>6, <1>7, <1>8, <1>9, <1>10, <1>11, <1>12,
       <1>13, <1>14, <1>15, <1>16, <1>17, <1>18, <1>19, <1>20, <1>21, <1>22, <1>23, <1>24
       DEF Next, Handler, Shutdown

(***************************************************************************)
(* device.connected is never the last event of a device that no handler    *)
(* serves.                                                                 *)
(***************************************************************************)
THEOREM EventAlwaysBacked == Spec => []ConnectedEventIsBacked
<1>1. Init => ConnectedEventIsBacked
    BY DEF Init, ConnectedEventIsBacked
<1> QED
    BY <1>1, EventBackedNext, CoreInvariant, PTL DEF Spec

----------------------------------------------------------------------------
(* The wait group, and what Hub.Wait's return tells the shutdown.          *)

\* A step changes the counter exactly as it changes the set of clients that
\* are between NewClient and the end of Run.
LEMMA WgCountsNext == Core /\ WgCounts /\ [Next]_vars => WgCounts'
<1> SUFFICES ASSUME Core, WgCounts, [Next]_vars PROVE WgCounts'
    OBVIOUS
<1> USE DEF Core, TypeOK, WgCounts, serverVars, Stages, Fresh, BeforeRun,
        Looping, Live, Counted, Finished
<1>1. ASSUME NEW c \in Conns, Dial(c) PROVE WgCounts'
  <2>1. CountedConns' = CountedConns /\ wg' = wg
      BY <1>1 DEF Dial, CountedConns
  <2> QED
      BY <2>1
<1>2. ASSUME NEW c \in Conns, Upgrade(c) PROVE WgCounts'
  <2>1. CountedConns' = CountedConns /\ wg' = wg
      BY <1>2 DEF Upgrade, CountedConns
  <2> QED
      BY <2>1
<1>3. ASSUME NEW c \in Conns, WgAdd(c) PROVE WgCounts'
  <2>1. IsFiniteSet(CountedConns)
      BY HubAssumption, FS_Subset DEF CountedConns
  <2>2. CountedConns' = CountedConns \cup {c} /\ c \notin CountedConns
      BY <1>3 DEF WgAdd, CountedConns
  <2>3. wg' = wg + 1
      BY <1>3 DEF WgAdd
  <2> HIDE DEF CountedConns
  <2> QED
      BY <2>1, <2>2, <2>3, FS_AddElement, FS_CardinalityType
<1>4. ASSUME NEW c \in Conns, Register(c) PROVE WgCounts'
  <2>1. CountedConns' = CountedConns /\ wg' = wg
      BY <1>4 DEF Register, CountedConns
  <2> QED
      BY <2>1
<1>5. ASSUME NEW c \in Conns, CloseExisting(c) PROVE WgCounts'
  <2>1. CountedConns' = CountedConns /\ wg' = wg
      BY <1>5 DEF CloseExisting, Replaced, CountedConns
  <2> QED
      BY <2>1
<1>6. ASSUME NEW c \in Conns, SetOnline(c) PROVE WgCounts'
  <2>1. CountedConns' = CountedConns /\ wg' = wg
      BY <1>6 DEF SetOnline, OnlineTaints, CountedConns
  <2> QED
      BY <2>1
<1>7. ASSUME NEW c \in Conns, PublishConnected(c) PROVE WgCounts'
  <2>1. CountedConns' = CountedConns /\ wg' = wg
      BY <1>7 DEF PublishConnected, CountedConns
  <2> QED
      BY <2>1
<1>8. ASSUME NEW c \in Conns, ReadHeartbeat(c) PROVE WgCounts'
  <2>1. CountedConns' = CountedConns /\ wg' = wg
      BY <1>8 DEF ReadHeartbeat, CountedConns
  <2> QED
      BY <2>1
<1>9. ASSUME NEW c \in Conns, InsertHeartbeat(c) PROVE WgCounts'
  <2>1. CountedConns' = CountedConns /\ wg' = wg
      BY <1>9 DEF InsertHeartbeat, CountedConns
  <2> QED
      BY <2>1
<1>10. ASSUME NEW c \in Conns, UpdateLastSeen(c) PROVE WgCounts'
  <2>1. CountedConns' = CountedConns /\ wg' = wg
      BY <1>10 DEF UpdateLastSeen, OnlineTaints, TouchedStatus, CountedConns
  <2> QED
      BY <2>1
<1>11. ASSUME NEW c \in Conns, ReadFails(c) PROVE WgCounts'
  <2>1. CountedConns' = CountedConns /\ wg' = wg
      BY <1>11 DEF ReadFails, CountedConns
  <2> QED
      BY <2>1
<1>12. ASSUME NEW c \in Conns, Unregister(c) PROVE WgCounts'
  <2>1. CountedConns' = CountedConns /\ wg' = wg
      BY <1>12 DEF Unregister, IsCurrent, SupersededNext, CountedConns
  <2> QED
      BY <2>1
<1>13. ASSUME NEW c \in Conns, SetOffline(c) PROVE WgCounts'
  <2>1. CountedConns' = CountedConns /\ wg' = wg
      BY <1>13 DEF SetOffline, OfflineTaints, CountedConns
  <2> QED
      BY <2>1
<1>14. ASSUME NEW c \in Conns, WgDone(c) PROVE WgCounts'
  <2>1. IsFiniteSet(CountedConns)
      BY HubAssumption, FS_Subset DEF CountedConns
  <2>2. CountedConns' = CountedConns \ {c} /\ c \in CountedConns
      BY <1>14 DEF WgDone, CountedConns
  <2>3. wg' = wg - 1
      BY <1>14 DEF WgDone
  <2> HIDE DEF CountedConns
  <2> QED
      BY <2>1, <2>2, <2>3, FS_RemoveElement, FS_CardinalityType
<1>15. ASSUME NEW c \in Conns, PublishDisconnected(c) PROVE WgCounts'
  <2>1. CountedConns' = CountedConns /\ wg' = wg
      BY <1>15 DEF PublishDisconnected, CountedConns
  <2> QED
      BY <2>1
<1>16. ASSUME NEW c \in Conns, CloseClient(c) PROVE WgCounts'
  <2>1. CountedConns' = CountedConns /\ wg' = wg
      BY <1>16 DEF CloseClient, CountedConns
  <2> QED
      BY <2>1
<1>17. CASE ShutdownBegins
  <2>1. CountedConns' = CountedConns /\ wg' = wg
      BY <1>17 DEF ShutdownBegins, Snapshot, MapAfterSnapshot, CountedConns
  <2> QED
      BY <2>1
<1>18. CASE CloseAllReturns
  <2>1. CountedConns' = CountedConns /\ wg' = wg
      BY <1>18 DEF CloseAllReturns, CountedConns
  <2> QED
      BY <2>1
<1>19. CASE WaitReturns
  <2>1. CountedConns' = CountedConns /\ wg' = wg
      BY <1>19 DEF WaitReturns, HandlersFinished, CountedConns
  <2> QED
      BY <2>1
<1>20. CASE HTTPShutdownReturns
  <2>1. CountedConns' = CountedConns /\ wg' = wg
      BY <1>20 DEF HTTPShutdownReturns, CountedConns
  <2> QED
      BY <2>1
<1>21. CASE Deadline
  <2>1. CountedConns' = CountedConns /\ wg' = wg
      BY <1>21 DEF Deadline, CountedConns
  <2> QED
      BY <2>1
<1>22. CASE ProcessEnds
  <2>1. CountedConns' = {} /\ wg' = 0
      BY <1>22 DEF ProcessEnds, CountedConns
  <2> QED
      BY <2>1, FS_EmptySet
<1>23. CASE ProcessStarts
  <2>1. CountedConns' = CountedConns /\ wg' = wg
      BY <1>23 DEF ProcessStarts, CountedConns
  <2> QED
      BY <2>1
<1>24. CASE UNCHANGED vars
  <2>1. CountedConns' = CountedConns /\ wg' = wg
      BY <1>24 DEF vars, CountedConns
  <2> QED
      BY <2>1
<1> QED
    BY <1>1, <1>2, <1>3, <1>4, <1>5, <1>6, <1>7, <1>8, <1>9, <1>10, <1>11, <1>12,
       <1>13, <1>14, <1>15, <1>16, <1>17, <1>18, <1>19, <1>20, <1>21, <1>22, <1>23, <1>24
       DEF Next, Handler, Shutdown

(***************************************************************************)
(* Hub.wg is the number of clients between NewClient and the end of Run.   *)
(***************************************************************************)
THEOREM WgAlwaysCounts == Spec => []WgCounts
<1>1. Init => WgCounts
  <2>1. Init => CountedConns = {} /\ wg = 0
      BY DEF Init, CountedConns, Counted, Live, BeforeRun, Looping
  <2> QED
      BY <2>1, FS_EmptySet DEF WgCounts
<1> QED
    BY <1>1, WgCountsNext, CoreInvariant, PTL DEF Spec

\* The connections CloseAll found had been registered.
AskedWereLive ==
    \A c \in asked : pc[c] \in Live \cup {"offline", "release"} \cup Finished

Drained == AskedWereLive /\ CleanupBeforeDrain

\* A zero counter means that none of the clients CloseAll found is still
\* before the end of Run.
LEMMA ZeroMeansFinished ==
    ASSUME Core, WgCounts, AskedWereLive, wg = 0
    PROVE  \A c \in asked : pc[c] \in Finished
<1>1. IsFiniteSet(CountedConns)
    BY HubAssumption, FS_Subset DEF CountedConns
<1>2. CountedConns = {}
    BY <1>1, FS_EmptySet DEF WgCounts
<1> QED
    BY <1>2 DEF Core, TypeOK, AskedWereLive, CountedConns, Counted, Live

\* A step keeps what the shutdown may rely on.
LEMMA DrainedNext ==
    Core /\ WgCounts /\ Drained /\ [Next]_vars => Drained'
<1> SUFFICES ASSUME Core, WgCounts, Drained, [Next]_vars PROVE Drained'
    OBVIOUS
<1> USE HubAssumption DEF Core, TypeOK, CurrentIsLive, Drained, AskedWereLive,
        CleanupBeforeDrain, serverVars, Stages, Fresh, BeforeRun, Looping,
        Live, Counted, Finished
<1>1. ASSUME NEW c \in Conns, Dial(c) PROVE Drained'
    BY <1>1 DEF Dial
<1>2. ASSUME NEW c \in Conns, Upgrade(c) PROVE Drained'
    BY <1>2 DEF Upgrade
<1>3. ASSUME NEW c \in Conns, WgAdd(c) PROVE Drained'
    BY <1>3 DEF WgAdd
<1>4. ASSUME NEW c \in Conns, Register(c) PROVE Drained'
    BY <1>4 DEF Register
<1>5. ASSUME NEW c \in Conns, CloseExisting(c) PROVE Drained'
    BY <1>5 DEF CloseExisting, Replaced
<1>6. ASSUME NEW c \in Conns, SetOnline(c) PROVE Drained'
    BY <1>6 DEF SetOnline, OnlineTaints
<1>7. ASSUME NEW c \in Conns, PublishConnected(c) PROVE Drained'
    BY <1>7 DEF PublishConnected
<1>8. ASSUME NEW c \in Conns, ReadHeartbeat(c) PROVE Drained'
    BY <1>8 DEF ReadHeartbeat
<1>9. ASSUME NEW c \in Conns, InsertHeartbeat(c) PROVE Drained'
    BY <1>9 DEF InsertHeartbeat
<1>10. ASSUME NEW c \in Conns, UpdateLastSeen(c) PROVE Drained'
    BY <1>10 DEF UpdateLastSeen, OnlineTaints, TouchedStatus
<1>11. ASSUME NEW c \in Conns, ReadFails(c) PROVE Drained'
    BY <1>11 DEF ReadFails
<1>12. ASSUME NEW c \in Conns, Unregister(c) PROVE Drained'
    BY <1>12 DEF Unregister, IsCurrent, SupersededNext
<1>13. ASSUME NEW c \in Conns, SetOffline(c) PROVE Drained'
    BY <1>13 DEF SetOffline, OfflineTaints
<1>14. ASSUME NEW c \in Conns, WgDone(c) PROVE Drained'
    BY <1>14 DEF WgDone
<1>15. ASSUME NEW c \in Conns, PublishDisconnected(c) PROVE Drained'
    BY <1>15 DEF PublishDisconnected
<1>16. ASSUME NEW c \in Conns, CloseClient(c) PROVE Drained'
    BY <1>16 DEF CloseClient
<1>17. CASE ShutdownBegins
    BY <1>17 DEF ShutdownBegins, Snapshot, MapAfterSnapshot
<1>18. CASE CloseAllReturns
    BY <1>18 DEF CloseAllReturns
<1>19. CASE WaitReturns
    BY <1>19, ZeroMeansFinished DEF WaitReturns, HandlersFinished, DeadlinePassed
<1>20. CASE HTTPShutdownReturns
    BY <1>20 DEF HTTPShutdownReturns
<1>21. CASE Deadline
    BY <1>21 DEF Deadline
<1>22. CASE ProcessEnds
    BY <1>22 DEF ProcessEnds
<1>23. CASE ProcessStarts
    BY <1>23 DEF ProcessStarts
<1>24. CASE UNCHANGED vars
    BY <1>24 DEF vars
<1> QED
    BY <1>1, <1>2, <1>3, <1>4, <1>5, <1>6, <1>7, <1>8, <1>9, <1>10, <1>11, <1>12,
       <1>13, <1>14, <1>15, <1>16, <1>17, <1>18, <1>19, <1>20, <1>21, <1>22, <1>23, <1>24
       DEF Next, Handler, Shutdown

(***************************************************************************)
(* Once Hub.Wait has returned nil, every client that CloseAll found has    *)
(* finished its unregister and its offline write.                          *)
(***************************************************************************)
THEOREM CleanupPrecedesDrain == Spec => []CleanupBeforeDrain
<1>1. Init => Drained
    BY DEF Init, Drained, AskedWereLive, CleanupBeforeDrain
<1>2. Core /\ WgCounts /\ Drained /\ [Next]_vars => Drained'
    BY DrainedNext
<1>3. Drained => CleanupBeforeDrain
    BY DEF Drained
<1> QED
    BY <1>1, <1>2, <1>3, CoreInvariant, WgAlwaysCounts, PTL DEF Spec
============================================================================
