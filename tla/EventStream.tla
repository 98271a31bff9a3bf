---------------------------- MODULE EventStream ----------------------------
(***************************************************************************)
(* The event fan-out of puls-server: Broadcaster (internal/server/         *)
(* broadcaster.go) and the server-sent-event handlers that drain it        *)
(* (internal/server/routes_events.go).  Publishers are the WebSocket       *)
(* handlers; they must not wait for a dashboard that stopped reading.      *)
(* Events are numbered in the order Publish took the broadcaster's lock.   *)
(***************************************************************************)
EXTENDS Naturals, Sequences, FiniteSets, SequencesExt

CONSTANTS
    Streams,    \* requests for the event stream
    Cap,        \* capacity of a subscriber's channel (32 in the code)
    SockBuf,    \* writes the socket's send buffer takes from a stalled client
    MaxEvents   \* bound: events published

ASSUME StreamAssumption ==
    /\ IsFiniteSet(Streams)
    /\ Cap \in Nat \ {0}
    /\ SockBuf \in Nat
    /\ MaxEvents \in Nat

VARIABLES
    published,  \* number of events published so far
    subs,       \* Broadcaster.subs
    ch,         \* the channel of each stream
    pc,         \* what each stream's handler is doing
    hand,       \* the event a handler took off its channel and is writing
    client,     \* what the client at the other end does
    unread,     \* writes that sit in the send buffer of a stalled client
    written,    \* history: events written to the client, in order
    dropped,    \* history: events Publish could not put on the channel
    joined,     \* history: value of published when the stream subscribed
    drained     \* history: value of published when its channel was last empty

vars == <<published, subs, ch, pc, hand, client, unread, written, dropped,
          joined, drained>>

\* A client reads, has stopped reading without closing the connection, or
\* has closed it.
ClientStates == {"reads", "stalled", "left"}

Events == 1..MaxEvents

TypeOK ==
    /\ published \in 0..MaxEvents
    /\ subs \subseteq Streams
    /\ ch \in [Streams -> Seq(Events)] /\ \A s \in Streams : Len(ch[s]) <= Cap
    /\ pc \in [Streams -> {"idle", "select", "event", "keepalive", "leave", "done"}]
    /\ hand \in [Streams -> 0..MaxEvents]
    /\ client \in [Streams -> ClientStates]
    /\ unread \in [Streams -> 0..SockBuf]
    /\ written \in [Streams -> Seq(Events)]
    /\ dropped \in [Streams -> SUBSET Events]
    /\ joined \in [Streams -> 0..MaxEvents]
    /\ drained \in [Streams -> 0..MaxEvents]

Init ==
    /\ published = 0
    /\ subs = {}
    /\ ch = [s \in Streams |-> <<>>]
    /\ pc = [s \in Streams |-> "idle"]
    /\ hand = [s \in Streams |-> 0]
    /\ client = [s \in Streams |-> "reads"]
    /\ unread = [s \in Streams |-> 0]
    /\ written = [s \in Streams |-> <<>>]
    /\ dropped = [s \in Streams |-> {}]
    /\ joined = [s \in Streams |-> 0]
    /\ drained = [s \in Streams |-> 0]

----------------------------------------------------------------------------
(* Slips a change to the code could make; substituted for the definition   *)
(* named beside it, each breaks one of the properties below.               *)

NoCapacity(s)    == TRUE                            \* HasRoom
FirstOnly(s)     == ch[s] = <<>>                    \* HasRoom
NewestFirst(q, e) == <<e>> \o q                    \* Enqueue
NoTicker(s)      == FALSE                           \* KeepaliveDue

----------------------------------------------------------------------------
(* Broadcaster.                                                            *)

\* The non-blocking send of Publish.
HasRoom(s) == Len(ch[s]) < Cap

Enqueue(q, e) == Append(q, e)

\* Publish holds the lock over the whole loop, so it is one step; it waits for
\* no stream.
Publish ==
    LET e == published + 1 IN
    /\ published < MaxEvents
    /\ published' = e
    /\ ch' = [s \in Streams |->
                IF s \in subs /\ HasRoom(s) THEN Enqueue(ch[s], e) ELSE ch[s]]
    /\ dropped' = [s \in Streams |->
                IF s \in subs /\ ~HasRoom(s) THEN dropped[s] \cup {e} ELSE dropped[s]]
    /\ UNCHANGED <<subs, pc, hand, client, unread, written, joined, drained>>

Subscribe(s) ==
    /\ pc[s] = "idle"
    /\ subs' = subs \cup {s}
    /\ joined' = [joined EXCEPT ![s] = published]
    /\ drained' = [drained EXCEPT ![s] = published]
    /\ pc' = [pc EXCEPT ![s] = "select"]
    /\ UNCHANGED <<published, ch, hand, client, unread, written, dropped>>

\* The deferred unsub of handleEvents.  The channel is left to the garbage
\* collector, with what the handler held; the records of the stream end here.
Unsubscribe(s) ==
    /\ pc[s] = "leave"
    /\ subs' = subs \ {s}
    /\ pc' = [pc EXCEPT ![s] = "done"]
    /\ ch' = [ch EXCEPT ![s] = <<>>]
    /\ hand' = [hand EXCEPT ![s] = 0]
    /\ unread' = [unread EXCEPT ![s] = 0]
    /\ written' = [written EXCEPT ![s] = <<>>]
    /\ dropped' = [dropped EXCEPT ![s] = {}]
    /\ joined' = [joined EXCEPT ![s] = 0]
    /\ drained' = [drained EXCEPT ![s] = 0]
    /\ UNCHANGED <<published, client>>

----------------------------------------------------------------------------
(* handleEvents: each case of its select, and the writes.                  *)

\* r.Context() is done: net/http saw the client close the connection.
ContextDone(s) ==
    /\ pc[s] = "select"
    /\ client[s] = "left"
    /\ pc' = [pc EXCEPT ![s] = "leave"]
    /\ UNCHANGED <<published, subs, ch, hand, client, unread, written, dropped,
                   joined, drained>>

\* The ticker fires every sseKeepaliveInterval.
KeepaliveDue(s) == TRUE

Keepalive(s) ==
    /\ pc[s] = "select"
    /\ KeepaliveDue(s)
    /\ pc' = [pc EXCEPT ![s] = "keepalive"]
    /\ UNCHANGED <<published, subs, ch, hand, client, unread, written, dropped,
                   joined, drained>>

\* (json.Marshal does not fail on an event: strings and finite numbers.)
TakeEvent(s) ==
    /\ pc[s] = "select"
    /\ ch[s] # <<>>
    /\ hand' = [hand EXCEPT ![s] = Head(ch[s])]
    /\ ch' = [ch EXCEPT ![s] = Tail(ch[s])]
    /\ pc' = [pc EXCEPT ![s] = "event"]
    /\ drained' = IF Tail(ch[s]) = <<>> THEN [drained EXCEPT ![s] = published] ELSE drained
    /\ UNCHANGED <<published, subs, client, unread, written, dropped, joined>>

Writing(s) == pc[s] \in {"event", "keepalive"}

\* The write and its flush succeed: the client reads, or the send buffer
\* still has room for what it does not read.
WriteSucceeds(s) ==
    /\ Writing(s)
    /\ \/ client[s] = "reads" /\ unread' = unread
       \/ /\ client[s] = "stalled"
          /\ unread[s] < SockBuf
          /\ unread' = [unread EXCEPT ![s] = @ + 1]
    /\ written' = IF pc[s] = "event"
                  THEN [written EXCEPT ![s] = Append(@, hand[s])]
                  ELSE written
    /\ hand' = [hand EXCEPT ![s] = 0]
    /\ pc' = [pc EXCEPT ![s] = "select"]
    /\ UNCHANGED <<published, subs, ch, client, dropped, joined, drained>>

\* The write blocks on a full buffer until sseWriteTimeout, or the
\* connection is closed.
WriteFails(s) ==
    /\ Writing(s)
    /\ \/ client[s] = "left"
       \/ client[s] = "stalled" /\ unread[s] = SockBuf
    /\ pc' = [pc EXCEPT ![s] = "leave"]
    /\ UNCHANGED <<published, subs, ch, hand, client, unread, written, dropped,
                   joined, drained>>

\* While it is served, the client stalls, recovers and reads what was
\* buffered, or leaves.
ClientChanges(s) ==
    /\ pc[s] \notin {"idle", "leave", "done"}
    /\ \/ /\ client[s] = "reads"
          /\ client' = [client EXCEPT ![s] = "stalled"]
          /\ unread' = unread
       \/ /\ client[s] = "stalled"
          /\ client' = [client EXCEPT ![s] = "reads"]
          /\ unread' = [unread EXCEPT ![s] = 0]
       \/ /\ client[s] # "left"
          /\ client' = [client EXCEPT ![s] = "left"]
          /\ unread' = [unread EXCEPT ![s] = 0]
    /\ UNCHANGED <<published, subs, ch, pc, hand, written, dropped, joined,
                   drained>>

----------------------------------------------------------------------------
HandleEvents(s) ==
    \/ ContextDone(s) \/ Keepalive(s) \/ TakeEvent(s)
    \/ WriteSucceeds(s) \/ WriteFails(s) \/ Unsubscribe(s)

Next ==
    \/ Publish
    \/ \E s \in Streams : Subscribe(s) \/ HandleEvents(s) \/ ClientChanges(s)

Spec == Init /\ [][Next]_vars

\* Publishers and handlers run; the ticker and the write deadline fire.
Fairness ==
    /\ WF_vars(Publish)
    /\ \A s \in Streams : WF_vars(HandleEvents(s))

FairSpec == Spec /\ Fairness

----------------------------------------------------------------------------
(* Properties.                                                             *)

InHand(s) == IF pc[s] = "event" THEN <<hand[s]>> ELSE <<>>

\* What a stream has written, is writing and will find on its channel.
Pipeline(s) == written[s] \o InHand(s) \o ch[s]

Increasing(q) == \A i, j \in 1..Len(q) : i < j => q[i] < q[j]

(***************************************************************************)
(* A stream delivers what was published since it subscribed, in the order  *)
(* Publish put it out, none twice and none lost silently: what it has      *)
(* written, is writing and has on its channel is exactly that, without the *)
(* events dropped on a full channel.                                       *)
(***************************************************************************)
AllAccountedFor ==
    \A s \in subs : pc[s] # "leave" =>
        /\ Increasing(Pipeline(s))
        /\ ToSet(Pipeline(s)) = ((joined[s] + 1)..published) \ dropped[s]

(***************************************************************************)
(* A burst of Cap events reaches a stream in full whenever it begins: of   *)
(* the events published since the channel was last empty, none is dropped  *)
(* before Cap of them were kept.  A stream that caught up has its whole    *)
(* channel again, whatever it delivered or lost before.                    *)
(***************************************************************************)
BurstFits ==
    \A s \in subs : \A e \in dropped[s] :
        pc[s] # "leave" /\ e > drained[s] =>
            Cardinality({x \in ToSet(Pipeline(s)) : drained[s] < x /\ x < e}) >= Cap

(***************************************************************************)
(* A client that stalls or leaves for good loses its subscription, even if *)
(* no event is ever published again: the keepalive finds it out.           *)
(***************************************************************************)
StalledStreamEnds ==
    \A s \in Streams : (s \in subs /\ [](client[s] # "reads")) ~> s \notin subs
============================================================================
