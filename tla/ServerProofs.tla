---------------------------- MODULE ServerProofs ----------------------------
(***************************************************************************)
(* Proofs about Server: it adds nothing to the hub's behaviour, so that    *)
(* the theorems of HubProofs hold of it, and its own two invariants.       *)
(***************************************************************************)
EXTENDS Server, HubProofs

----------------------------------------------------------------------------
(* Server implements Hub.                                                  *)

\* A step of Server is a step of Hub or leaves the hub's variables alone.
LEMMA StepsOfHub == [ServerNext]_allVars => [Next]_vars
<1> SUFFICES ASSUME [ServerNext]_allVars PROVE Next \/ UNCHANGED vars
    OBVIOUS
<1>1. CASE HubStep
    BY <1>1 DEF HubStep, Next, Shutdown
<1>2. CASE WaitSettles
    BY <1>2 DEF WaitSettles, Next, Shutdown
<1>3. CASE DrainReturns
    BY <1>3 DEF DrainReturns, Next, Shutdown
<1>4. CASE ServerEnds
    BY <1>4 DEF ServerEnds, Next
<1>5. ASSUME NEW r \in Readers, Ask(r) \/ QueryStore(r) \/ Overlay(r)
      PROVE  UNCHANGED vars
    BY <1>5 DEF Ask, QueryStore, Overlay
<1>6. ASSUME NEW s \in Streams, OpenStream(s) \/ StreamEnds(s)
      PROVE  UNCHANGED vars
    BY <1>6 DEF OpenStream, StreamEnds
<1>7. CASE UNCHANGED allVars
    BY <1>7 DEF allVars
<1> QED
    BY <1>1, <1>2, <1>3, <1>4, <1>5, <1>6, <1>7 DEF ServerNext

(***************************************************************************)
(* Readers, event streams and the longer wait of http.Shutdown only        *)
(* restrict the hub: every behaviour of Server is one of Hub.              *)
(***************************************************************************)
THEOREM ImplementsHub == ServerSpec => Spec
<1>1. ServerInit => Init
    BY DEF ServerInit
<1> QED
    BY <1>1, StepsOfHub, PTL DEF ServerSpec, Spec

----------------------------------------------------------------------------
(* The readers.                                                            *)

Statuses == {"unknown", "online", "offline"}

ReadersTyped ==
    /\ reading \in [Readers -> {"idle", "query", "overlay", "done"}]
    /\ answer \in [Readers -> [Devices -> Statuses \cup {"none"}]]
    /\ wasOn \in [Readers -> SUBSET Devices]
    /\ wasOff \in [Readers -> SUBSET Devices]

\* Before its query a reader knows nothing.
NothingRead(r) == reading[r] \in {"idle", "query"} => answer[r] = NoAnswer

\* Between the two looks: a stored "online" had its reason, and the history
\* has kept up with the hub.
KeptUp(r) ==
    reading[r] = "overlay" =>
        /\ \A d \in Devices : answer[r][d] = "online" => d \in wasOn[r]
        /\ Present \subseteq wasOn[r]
        /\ Absent \subseteq wasOff[r]

ReaderInv ==
    /\ ReadersTyped
    /\ \A r \in Readers : NothingRead(r) /\ KeptUp(r)
    /\ ReplyWasTrue

\* No reader has read anything when the server starts.
LEMMA ReaderInit == ServerInit => ReaderInv
BY DEF ServerInit, ReaderInv, ReadersTyped, NothingRead, KeptUp, ReplyWasTrue, NoAnswer

\* A step of the hub that the history observes.
LEMMA ObservedKeeps ==
    ASSUME ReaderInv, Core', Observed, UNCHANGED <<reading, answer>>
    PROVE  ReaderInv'
<1> USE DEF ReaderInv
<1>1. Present' \subseteq Devices /\ Absent' \subseteq Devices
    BY DEF Core, TypeOK, Present, Absent
<1>2. ReadersTyped'
    BY <1>1 DEF ReadersTyped, Observed
<1>3. ASSUME NEW r \in Readers PROVE NothingRead(r)' /\ KeptUp(r)'
    BY <1>3 DEF NothingRead, KeptUp, Observed, ReadersTyped
<1>4. ReplyWasTrue'
    BY DEF ReplyWasTrue, Observed, ReadersTyped
<1> QED
    BY <1>2, <1>3, <1>4

\* The hub stands still while a reader or a stream takes a step.
LEMMA HubStill ==
    ASSUME UNCHANGED vars
    PROVE  Present' = Present /\ Absent' = Absent
BY DEF vars, Present, Absent, OfflinePending

\* Every step keeps what readers rely on.
LEMMA ReaderNext ==
    Core /\ Core' /\ StatusAgrees /\ ReaderInv /\ [ServerNext]_allVars => ReaderInv'
<1> SUFFICES ASSUME Core, Core', StatusAgrees, ReaderInv, [ServerNext]_allVars
             PROVE  ReaderInv'
    OBVIOUS
<1>1. CASE HubStep
    BY <1>1, ObservedKeeps DEF HubStep
<1>2. CASE WaitSettles
    BY <1>2, ObservedKeeps DEF WaitSettles
<1>3. CASE DrainReturns
    BY <1>3, ObservedKeeps DEF DrainReturns
<1>4. CASE ServerEnds
    BY <1>4 DEF ServerEnds, ReaderInv, ReadersTyped, NothingRead, KeptUp,
                ReplyWasTrue, NoAnswer
<1>5. ASSUME NEW r \in Readers, Ask(r) PROVE ReaderInv'
    BY <1>5, HubStill DEF Ask, ReaderInv, ReadersTyped, NothingRead, KeptUp,
                          ReplyWasTrue
<1>6. ASSUME NEW r \in Readers, QueryStore(r) PROVE ReaderInv'
  <2>1. ASSUME NEW d \in Devices, status[d] = "online" PROVE d \in Present
      BY <2>1 DEF StatusAgrees, Present
  <2>2. Present \subseteq Devices /\ Absent \subseteq Devices
      BY DEF Core, TypeOK, Present, Absent
  <2>3. status \in [Devices -> Statuses]
      BY DEF Core, TypeOK, Statuses
  <2>4. ReadersTyped'
    <3>1. ASSUME NEW D, answer' = [answer EXCEPT ![r] =
                    [d \in Devices |-> IF d \in D THEN status[d] ELSE "none"]]
          PROVE  answer' \in [Readers -> [Devices -> Statuses \cup {"none"}]]
      <4>1. [d \in Devices |-> IF d \in D THEN status[d] ELSE "none"]
                \in [Devices -> Statuses \cup {"none"}]
          BY <2>3
      <4> QED
          BY <3>1, <4>1 DEF ReaderInv, ReadersTyped
    <3>2. answer' = answer \/
            \E D : answer' = [answer EXCEPT ![r] =
                    [d \in Devices |-> IF d \in D THEN status[d] ELSE "none"]]
        BY <1>6, Zenon DEF QueryStore
    <3>3. answer' \in [Readers -> [Devices -> Statuses \cup {"none"}]]
        BY <3>1, <3>2, Zenon DEF ReaderInv, ReadersTyped
    <3>4. /\ reading' \in [Readers -> {"idle", "query", "overlay", "done"}]
          /\ wasOn' \in [Readers -> SUBSET Devices]
          /\ wasOff' \in [Readers -> SUBSET Devices]
        BY <1>6, <2>2 DEF QueryStore, ReaderInv, ReadersTyped
    <3> QED
        BY <3>3, <3>4 DEF ReadersTyped
  <2>5. ASSUME NEW q \in Readers PROVE NothingRead(q)' /\ KeptUp(q)'
      BY <1>6, <2>1, <2>3, <2>5, HubStill
         DEF QueryStore, ReaderInv, ReadersTyped, NothingRead, KeptUp
  <2>6. ReplyWasTrue'
      BY <1>6 DEF QueryStore, ReaderInv, ReadersTyped, NothingRead, ReplyWasTrue,
                  NoAnswer
  <2> QED
      BY <2>4, <2>5, <2>6 DEF ReaderInv
<1>7. ASSUME NEW r \in Readers, Overlay(r) PROVE ReaderInv'
  <2>1. ReadersTyped'
      BY <1>7 DEF Overlay, Overlaid, ReaderInv, ReadersTyped, Statuses
  <2>2. ASSUME NEW q \in Readers PROVE NothingRead(q)' /\ KeptUp(q)'
      BY <1>7, <2>2, HubStill DEF Overlay, ReaderInv, ReadersTyped, NothingRead, KeptUp
  <2>3. ASSUME NEW q \in Readers, NEW d \in Devices, reading'[q] = "done"
        PROVE  /\ answer'[q][d] = "online" => d \in wasOn'[q]
               /\ answer'[q][d] \in {"offline", "unknown"} => d \in wasOff'[q]
    <3>1. CASE q = r
      <4>1. answer'[r][d] = IF answer[r][d] = "none" THEN "none"
                            ELSE Overlaid(d, answer[r][d])
          BY <1>7 DEF Overlay, ReaderInv, ReadersTyped
      <4>2. clients[d] # None => d \in wasOn[r]
          BY <1>7 DEF Overlay, ReaderInv, KeptUp, Present
      <4>3. clients[d] = None => d \in wasOff[r]
          BY <1>7 DEF Overlay, ReaderInv, KeptUp, Absent
      <4>4. answer[r][d] = "online" => d \in wasOn[r]
          BY <1>7 DEF Overlay, ReaderInv, KeptUp
      <4> QED
          BY <1>7, <3>1, <4>1, <4>2, <4>3, <4>4 DEF Overlay, Overlaid
    <3>2. CASE q # r
        BY <1>7, <2>3, <3>2 DEF Overlay, ReaderInv, ReadersTyped, ReplyWasTrue
    <3> QED
        BY <3>1, <3>2
  <2> QED
      BY <2>1, <2>2, <2>3 DEF ReaderInv, ReplyWasTrue
<1>8. ASSUME NEW s \in Streams, OpenStream(s) \/ StreamEnds(s) PROVE ReaderInv'
    BY <1>8, HubStill DEF OpenStream, StreamEnds, readerVars, ReaderInv,
                          ReadersTyped, NothingRead, KeptUp, ReplyWasTrue
<1>9. CASE UNCHANGED allVars
    BY <1>9, HubStill DEF allVars, readerVars, ReaderInv, ReadersTyped,
                          NothingRead, KeptUp, ReplyWasTrue
<1> QED
    BY <1>1, <1>2, <1>3, <1>4, <1>5, <1>6, <1>7, <1>8, <1>9 DEF ServerNext

(***************************************************************************)
(* Whatever the connections, the store and the process do between a        *)
(* reader's query and its look at the hub, the status it replies with was  *)
(* true at some moment in between.                                         *)
(***************************************************************************)
THEOREM RepliesTrue == ServerSpec => []ReplyWasTrue
<1>1. ReaderInv => ReplyWasTrue
    BY DEF ReaderInv
<1> QED
    BY <1>1, ReaderInit, ReaderNext, ImplementsHub, CoreInvariant,
       StatusAlwaysAgrees, PTL DEF ServerSpec

----------------------------------------------------------------------------
(* What Shutdown reports.                                                  *)

\* Once http.Shutdown has begun, the hub's handlers only move on: a finished
\* one stays finished, and no new request is accepted.
MovesOn ==
    srv \in {"draining", "stopped"} \/ srv' \in {"draining", "stopped"} =>
        /\ srv' = srv
        /\ asked' = asked
        /\ \A c \in Conns :
              /\ pc[c] \in Finished => pc'[c] \in Finished
              /\ pc'[c] = "dialled" => pc[c] = "dialled"

\* No step of the hub undoes a clean-up while the server drains.
LEMMA HubMovesOn == ASSUME Core, HubStep PROVE MovesOn
<1> USE DEF Core, TypeOK, MovesOn, serverVars, Finished, Stages, Fresh, Counted,
        Live, BeforeRun, Looping
<1>1. ASSUME NEW c \in Conns, Dial(c) PROVE MovesOn
    BY <1>1 DEF Dial
<1>2. ASSUME NEW c \in Conns, Upgrade(c) PROVE MovesOn
    BY <1>2 DEF Upgrade
<1>3. ASSUME NEW c \in Conns, WgAdd(c) PROVE MovesOn
    BY <1>3 DEF WgAdd
<1>4. ASSUME NEW c \in Conns, Register(c) PROVE MovesOn
    BY <1>4 DEF Register
<1>5. ASSUME NEW c \in Conns, CloseExisting(c) PROVE MovesOn
    BY <1>5 DEF CloseExisting
<1>6. ASSUME NEW c \in Conns, SetOnline(c) PROVE MovesOn
    BY <1>6 DEF SetOnline
<1>7. ASSUME NEW c \in Conns, PublishConnected(c) PROVE MovesOn
    BY <1>7 DEF PublishConnected
<1>8. ASSUME NEW c \in Conns, ReadHeartbeat(c) \/ InsertHeartbeat(c) PROVE MovesOn
    BY <1>8 DEF ReadHeartbeat, InsertHeartbeat
<1>9. ASSUME NEW c \in Conns, UpdateLastSeen(c) PROVE MovesOn
    BY <1>9 DEF UpdateLastSeen
<1>10. ASSUME NEW c \in Conns, ReadFails(c) PROVE MovesOn
    BY <1>10 DEF ReadFails
<1>11. ASSUME NEW c \in Conns, Unregister(c) PROVE MovesOn
    BY <1>11 DEF Unregister, SupersededNext
<1>12. ASSUME NEW c \in Conns, SetOffline(c) PROVE MovesOn
    BY <1>12 DEF SetOffline
<1>13. ASSUME NEW c \in Conns, WgDone(c) \/ PublishDisconnected(c) PROVE MovesOn
    BY <1>13 DEF WgDone, PublishDisconnected
<1>14. ASSUME NEW c \in Conns, CloseClient(c) PROVE MovesOn
    BY <1>14 DEF CloseClient
<1>15. CASE ShutdownBegins \/ CloseAllReturns \/ Deadline \/ ProcessStarts
    BY <1>15 DEF ShutdownBegins, CloseAllReturns, Deadline, ProcessStarts
<1> HIDE DEF MovesOn
<1> QED
    BY <1>1, <1>2, <1>3, <1>4, <1>5, <1>6, <1>7, <1>8, <1>9, <1>10, <1>11, <1>12,
       <1>13, <1>14, <1>15 DEF HubStep, Handler

RequestsTyped ==
    /\ reading \in [Readers -> {"idle", "query", "overlay", "done"}]
    /\ stream \in [Streams -> {"idle", "open", "done"}]

ReportInv ==
    /\ RequestsTyped
    /\ waited => srv \in {"draining", "stopped"}
    /\ ShutdownReportsTrue

\* Shutdown has reported nothing when the server starts.
LEMMA ReportInit == ServerInit => ReportInv
BY DEF ServerInit, Init, ReportInv, RequestsTyped, ShutdownReportsTrue

\* Every step keeps what Shutdown reports true.
LEMMA ReportNext ==
    Core /\ WgCounts /\ Drained /\ ReportInv /\ [ServerNext]_allVars => ReportInv'
<1> SUFFICES ASSUME Core, WgCounts, Drained, ReportInv, [ServerNext]_allVars
             PROVE  ReportInv'
    OBVIOUS
<1>1. asked \subseteq Conns
    BY DEF Core, TypeOK
<1> USE DEF ReportInv, RequestsTyped, ShutdownReportsTrue, NoneActive
<1>2. CASE HubStep
    BY <1>1, <1>2, HubMovesOn DEF HubStep, MovesOn, outcomeVars
<1>3. CASE WaitSettles
  <2>1. HandlersFinished => \A c \in asked : pc[c] \in Finished
      BY ZeroMeansFinished DEF HandlersFinished, Drained
  <2> QED
      BY <1>3, <2>1 DEF WaitSettles, WaitReturns
<1>4. CASE DrainReturns
    BY <1>4 DEF DrainReturns, HTTPShutdownReturns
<1>5. CASE ServerEnds
    BY <1>5 DEF ServerEnds, ProcessEnds
<1>6. ASSUME NEW r \in Readers, Ask(r) \/ QueryStore(r) \/ Overlay(r)
      PROVE  ReportInv'
    BY <1>6 DEF Ask, QueryStore, Overlay, Accepting, vars, serverVars, outcomeVars
<1>7. ASSUME NEW s \in Streams, OpenStream(s) \/ StreamEnds(s) PROVE ReportInv'
    BY <1>7 DEF OpenStream, StreamEnds, Accepting, vars, serverVars, outcomeVars,
                readerVars
<1>8. CASE UNCHANGED allVars
    BY <1>8 DEF allVars, vars, serverVars, outcomeVars, readerVars
<1> QED
    BY <1>2, <1>3, <1>4, <1>5, <1>6, <1>7, <1>8 DEF ServerNext

(***************************************************************************)
(* A Wait that returned nil means that the devices CloseAll found have     *)
(* been cleaned up, a Shutdown that returned nil that no request is cut    *)
(* off, for any number of devices, readers and streams.                    *)
(***************************************************************************)
THEOREM ReportsTrue == ServerSpec => []ShutdownReportsTrue
<1>1. Init => Drained
    BY DEF Init, Drained, AskedWereLive, CleanupBeforeDrain
<1>2. Spec => []Drained
    BY <1>1, DrainedNext, CoreInvariant, WgAlwaysCounts, PTL DEF Spec
<1>3. ReportInv => ShutdownReportsTrue
    BY DEF ReportInv
<1> QED
    BY <1>2, <1>3, ReportInit, ReportNext, ImplementsHub, CoreInvariant,
       WgAlwaysCounts, PTL DEF ServerSpec
=============================================================================
