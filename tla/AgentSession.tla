---------------------------- MODULE AgentSession ----------------------------
(***************************************************************************)
(* Agent with the connection that Run is serving opened up (cmd/puls-agent *)
(* /agent.go): the select loop of connectAndServe, the readLoop goroutine  *)
(* that feeds it over two channels, and the goroutines handleMessage       *)
(* starts for diagnostic requests.  incoming is unbuffered: a message      *)
(* passes from the reader to the loop in one step.  readErrCh has room for *)
(* one error.                                                              *)
(***************************************************************************)
EXTENDS Agent

CONSTANT MaxDiags   \* bound: diagnostic goroutines at a time

ASSUME SessionAssumption == MaxDiags \in Nat

VARIABLES
    canceled,   \* the agent's context is done: a signal arrived while it served
    stopRead,   \* cancelRead was called
    peer,       \* the server's end of the connection is there
    shut,       \* this end is closed
    loop,       \* connectAndServe
    tick,       \* a tick is waiting in ticker.C
    waiting,    \* a message from the server is waiting on the socket
    reader,     \* readLoop
    errs,       \* errors in readErrCh
    diags       \* handleDiagRequest goroutines at work, of earlier connections too

connVars == <<peer, shut, waiting>>
sessionVars == <<canceled, stopRead, connVars, loop, tick, reader, errs, diags>>

SessionTypeOK ==
    /\ \A b \in {canceled, stopRead, peer, shut, tick, waiting} : b \in BOOLEAN
    /\ loop \in {"greeting", "select", "leaving", "closing", "returned"}
    /\ reader \in {"reading", "offering", "failing", "ended"}
    /\ errs \in 0..1
    /\ diags \in 0..MaxDiags

\* There is no connection yet.
SessionInit ==
    /\ Init
    /\ canceled = FALSE
    /\ stopRead = TRUE
    /\ peer = FALSE
    /\ shut = TRUE
    /\ loop = "returned"
    /\ tick = FALSE
    /\ waiting = FALSE
    /\ reader = "ended"
    /\ errs = 0
    /\ diags = 0

----------------------------------------------------------------------------
(* Slips a change to the code could make; substituted for the definition   *)
(* named beside it, each breaks one of the properties below.               *)

InlineDiagnostics == loop = "select" /\ diags = 0   \* InSelect
Unbuffered        == loop = "select"                \* RoomForError
Unreported        == "ended"                        \* AfterReadError

----------------------------------------------------------------------------
(* connectAndServe.                                                        *)

\* A write may time out, and fails for certain once this end is closed or the
\* context is done.  On a connection the peer has left it may still succeed.
SendHeartbeat(next) ==
    \/ /\ ~shut /\ ~canceled
       /\ loop' = next
    \/ loop' = "leaving"

\* The immediate heartbeat.
Greet ==
    /\ loop = "greeting"
    /\ SendHeartbeat("select")
    /\ UNCHANGED <<canceled, stopRead, connVars, tick, reader, errs, diags>>

InSelect == loop = "select"

SelectCanceled ==
    /\ InSelect
    /\ canceled
    /\ shut' = TRUE
    /\ loop' = "leaving"
    /\ UNCHANGED <<canceled, stopRead, peer, waiting, tick, reader, errs, diags>>

SelectReadErr ==
    /\ InSelect
    /\ errs > 0
    /\ errs' = errs - 1
    /\ loop' = "leaving"
    /\ UNCHANGED <<canceled, stopRead, connVars, tick, reader, diags>>

\* handleMessage: a diagnostic request gets a goroutine of its own, anything
\* else is logged.
SelectIncoming ==
    /\ InSelect
    /\ reader = "offering"
    /\ reader' = "reading"
    /\ \/ diags < MaxDiags /\ diags' = diags + 1
       \/ diags' = diags
    /\ UNCHANGED <<canceled, stopRead, connVars, loop, tick, errs>>

SelectTick ==
    /\ InSelect
    /\ tick
    /\ tick' = FALSE
    /\ SendHeartbeat("select")
    /\ UNCHANGED <<canceled, stopRead, connVars, reader, errs, diags>>

\* The deferred calls, last one first: the ticker stops, cancelRead, CloseNow.
CancelRead ==
    /\ loop = "leaving"
    /\ stopRead' = TRUE
    /\ tick' = FALSE
    /\ loop' = "closing"
    /\ UNCHANGED <<canceled, connVars, reader, errs, diags>>

CloseNow ==
    /\ loop = "closing"
    /\ shut' = TRUE
    /\ peer' = FALSE
    /\ waiting' = FALSE
    /\ loop' = "returned"
    /\ UNCHANGED <<canceled, stopRead, tick, reader, errs, diags>>

----------------------------------------------------------------------------
(* readLoop.                                                               *)

MsgCtxDone == canceled \/ stopRead

\* A malformed message is logged and the next one read.
ReadMessage ==
    /\ reader = "reading"
    /\ waiting /\ ~shut
    /\ waiting' = FALSE
    /\ reader' \in {"reading", "offering"}
    /\ UNCHANGED <<canceled, stopRead, peer, shut, loop, tick, errs, diags>>

AfterReadError == "failing"

\* A read whose context is done closes the connection.
ReadFails ==
    /\ reader = "reading"
    /\ shut \/ ~peer \/ MsgCtxDone
    /\ shut' = TRUE
    /\ reader' = AfterReadError
    /\ UNCHANGED <<canceled, stopRead, peer, waiting, loop, tick, errs, diags>>

RoomForError == errs < 1
Reported     == errs + 1

ReportError ==
    /\ reader = "failing"
    /\ RoomForError
    /\ errs' = Reported
    /\ reader' = "ended"
    /\ UNCHANGED <<canceled, stopRead, connVars, loop, tick, diags>>

OfferAbandoned ==
    /\ reader = "offering"
    /\ MsgCtxDone
    /\ reader' = "ended"
    /\ UNCHANGED <<canceled, stopRead, connVars, loop, tick, errs, diags>>

----------------------------------------------------------------------------
(* handleDiagRequest, the server, the clock and the operator.              *)

\* It answers, fails to, or could not make sense of the request.  A write that
\* times out closes the connection.  (Not a later one; but that may close in
\* the same way.)
DiagFinishes ==
    /\ diags > 0
    /\ diags' = diags - 1
    /\ shut' \in {shut, TRUE}
    /\ UNCHANGED <<canceled, stopRead, peer, waiting, loop, tick, reader, errs>>

\* Nothing is received on a connection that this end has closed.
ServerSends ==
    /\ peer /\ ~shut
    /\ ~waiting
    /\ waiting' = TRUE
    /\ UNCHANGED <<canceled, stopRead, peer, shut, loop, tick, reader, errs, diags>>

PeerDrops ==
    /\ peer /\ ~shut
    /\ peer' = FALSE
    /\ UNCHANGED <<canceled, stopRead, shut, waiting, loop, tick, reader, errs, diags>>

TickerFires ==
    /\ loop \in {"greeting", "select"}
    /\ ~tick
    /\ tick' = TRUE
    /\ UNCHANGED <<canceled, stopRead, connVars, loop, reader, errs, diags>>

\* A signal while Run serves; at any other point Stop stands for it.
Cancel ==
    /\ loop # "returned"
    /\ ~canceled
    /\ canceled' = TRUE
    /\ UNCHANGED <<stopRead, connVars, loop, tick, reader, errs, diags>>

----------------------------------------------------------------------------
(* Run and the connection.                                                 *)

\* A new process has a new context.
Starts ==
    /\ Start
    /\ canceled' = FALSE
    /\ UNCHANGED <<stopRead, connVars, loop, tick, reader, errs, diags>>

\* The dial succeeds and the reader starts.  The reader of the connection
\* before shares nothing with this one, waits for nothing once its connection
\* is closed, and is taken to have ended in the delay before the dial.
Connects ==
    /\ DialSucceeds
    /\ reader = "ended"
    /\ stopRead' = FALSE
    /\ peer' = TRUE
    /\ shut' = FALSE
    /\ loop' = "greeting"
    /\ tick' = FALSE
    /\ waiting' = FALSE
    /\ reader' = "reading"
    /\ errs' = 0
    /\ UNCHANGED <<canceled, diags>>

\* connectAndServe returns: Run returns if the context is done, else it goes
\* on to its delay.  (What the reader does after Run's return is kept.)
Returns ==
    /\ CloseNow
    /\ IF canceled THEN Stop ELSE ConnectionLost

\* The process ends with all its goroutines: killed, or stopped elsewhere.
Dies ==
    /\ Stop
    /\ loop' = "returned"
    /\ shut' = TRUE
    /\ stopRead' = TRUE
    /\ reader' = "ended"
    /\ peer' = FALSE /\ waiting' = FALSE /\ tick' = FALSE
    /\ errs' = 0
    /\ diags' = 0
    /\ UNCHANGED canceled

----------------------------------------------------------------------------
Reader == ReadMessage \/ ReadFails \/ ReportError \/ OfferAbandoned

Served ==
    \/ Greet \/ SelectCanceled \/ SelectReadErr \/ SelectIncoming \/ SelectTick
    \/ CancelRead
    \/ Reader
    \/ DiagFinishes \/ ServerSends \/ PeerDrops \/ TickerFires \/ Cancel

SessionNext ==
    \/ Served /\ UNCHANGED vars
    \/ (Loop \/ Revoke) /\ UNCHANGED sessionVars
    \/ Starts \/ Connects \/ Returns \/ Dies

allVars == <<vars, sessionVars>>

SessionSpec == SessionInit /\ [][SessionNext]_allVars

\* Goroutines that can run do run, and a select takes every case that stays
\* ready at some time (Go picks among the ready ones at random).  A diagnosis
\* may take for ever, and nothing outside the agent is fair.
SessionFairSpec ==
    /\ SessionSpec
    /\ WF_sessionVars(Greet) /\ WF_sessionVars(CancelRead) /\ WF_allVars(Returns)
    /\ WF_sessionVars(SelectCanceled) /\ WF_sessionVars(SelectReadErr)
    /\ WF_sessionVars(SelectIncoming) /\ WF_sessionVars(SelectTick)
    /\ WF_sessionVars(ReadMessage \/ OfferAbandoned) /\ WF_sessionVars(ReadFails)
    /\ WF_sessionVars(ReportError)

----------------------------------------------------------------------------
(* Properties.                                                             *)

(***************************************************************************)
(* The reader goroutine does not outlive its connection, whichever of the  *)
(* two sides gives up first and whatever the reader was doing: reconnects  *)
(* leak nothing.                                                           *)
(***************************************************************************)
ReaderEnds == loop = "returned" ~> reader = "ended"

(***************************************************************************)
(* A heartbeat that is due is sent, or the connection given up, although   *)
(* diagnostic requests may keep coming and never finish.                   *)
(***************************************************************************)
HeartbeatsFlow == tick ~> ~tick

(***************************************************************************)
(* A connection the server dropped is given up, so that Run reconnects,    *)
(* even while heartbeats into the dead connection seem to succeed; and a   *)
(* signal ends Run, whatever the connection is in the middle of.           *)
(***************************************************************************)
SessionEnds ==
    /\ (pc = "serving" /\ ~peer) ~> pc # "serving"
    /\ canceled ~> pc \in Down
=============================================================================
