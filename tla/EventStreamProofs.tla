------------------------- MODULE EventStreamProofs -------------------------
(***************************************************************************)
(* Proofs about EventStream, for any set of streams and any capacity of    *)
(* their channels: every event is delivered in order or was dropped on a   *)
(* full channel.                                                           *)
(***************************************************************************)
EXTENDS EventStream, FiniteSetTheorems, SequenceTheorems, TLAPS

----------------------------------------------------------------------------
(* Sequences of numbers.                                                   *)

\* What is in a sequence of numbers.
LEMMA ToSetIs ==
    ASSUME NEW q \in Seq(Nat)
    PROVE  ToSet(q) = {q[i] : i \in 1..Len(q)}
BY DEF ToSet

\* What is appended is added.
LEMMA ToSetAppend ==
    ASSUME NEW q \in Seq(Nat), NEW e \in Nat
    PROVE  ToSet(Append(q, e)) = ToSet(q) \cup {e}
<1>1. Append(q, e) \in Seq(Nat) /\ Len(Append(q, e)) = Len(q) + 1 /\ Len(q) \in Nat
    OBVIOUS
<1>2. ASSUME NEW x \in ToSet(Append(q, e)) PROVE x \in ToSet(q) \cup {e}
    <2>1. PICK i \in 1..Len(q) + 1 : x = Append(q, e)[i]
        BY <1>1, ToSetIs
    <2> QED
        BY <1>1, <2>1, ToSetIs
<1>3. ASSUME NEW x \in ToSet(q) PROVE x \in ToSet(Append(q, e))
    <2>1. PICK i \in 1..Len(q) : x = q[i]
        BY ToSetIs
    <2>2. i \in 1..Len(q) + 1 /\ x = Append(q, e)[i]
        BY <1>1, <2>1
    <2> QED
        BY <1>1, <2>2, ToSetIs
<1>4. e \in ToSet(Append(q, e))
    <2>1. Len(q) + 1 \in 1..Len(q) + 1 /\ e = Append(q, e)[Len(q) + 1]
        BY <1>1
    <2> QED
        BY <1>1, <2>1, ToSetIs
<1> QED
    BY <1>2, <1>3, <1>4

\* A larger number may be appended.
LEMMA IncreasingAppend ==
    ASSUME NEW q \in Seq(Nat), NEW e \in Nat, Increasing(q), \A x \in ToSet(q) : x < e
    PROVE  Increasing(Append(q, e))
<1>1. \A i \in 1..Len(q) : q[i] < e
    BY ToSetIs
<1> QED
    BY <1>1 DEF Increasing

\* What is in the last part of a sequence is in the sequence.
LEMMA SuffixWithin ==
    ASSUME NEW p \in Seq(Nat), NEW q \in Seq(Nat)
    PROVE  ToSet(q) \subseteq ToSet(p \o q)
<1> SUFFICES ASSUME NEW x \in ToSet(q) PROVE x \in ToSet(p \o q)
    OBVIOUS
<1>1. PICK i \in 1..Len(q) : x = q[i]
    BY ToSetIs
<1>2. p \o q \in Seq(Nat) /\ Len(p) + i \in 1..Len(p \o q) /\ (p \o q)[Len(p) + i] = x
    BY <1>1
<1> QED
    BY <1>2, ToSetIs

\* The last part of an increasing sequence has as many values as entries.
LEMMA SuffixCounts ==
    ASSUME NEW p \in Seq(Nat), NEW q \in Seq(Nat), Increasing(p \o q),
           NEW S, IsFiniteSet(S), \A i \in 1..Len(q) : q[i] \in S
    PROVE  Len(q) <= Cardinality(S)
<1>1. /\ Len(q) \in Nat /\ Len(p) \in Nat /\ Len(p \o q) = Len(p) + Len(q)
      /\ p \o q \in Seq(Nat)
      /\ \A i \in 1..Len(q) : (p \o q)[Len(p) + i] = q[i]
    OBVIOUS
<1>3. ASSUME NEW i \in 1..Len(q), NEW j \in 1..Len(q), i < j PROVE q[i] # q[j]
    <2>1. /\ Len(p) + i \in 1..Len(p \o q) /\ Len(p) + j \in 1..Len(p \o q)
          /\ Len(p) + i < Len(p) + j
        BY <1>1, <1>3
    <2>2. (p \o q)[Len(p) + i] < (p \o q)[Len(p) + j]
        BY <2>1 DEF Increasing
    <2>3. q[i] < q[j] /\ q[i] \in Nat /\ q[j] \in Nat
        BY <1>1, <2>2
    <2> QED
        BY <2>3
<1>4. q \in Injection(1..Len(q), S)
    <2>1. q \in [1..Len(q) -> S]
        OBVIOUS
    <2>2. ASSUME NEW i \in 1..Len(q), NEW j \in 1..Len(q), q[i] = q[j] PROVE i = j
        BY <1>1, <1>3, <2>2
    <2> QED
        BY <2>1, <2>2 DEF Injection, IsInjective
<1>5. Cardinality(1..Len(q)) <= Cardinality(S)
    BY <1>4, FS_Injection
<1>6. Cardinality(1..Len(q)) = Len(q)
    <2>1. Cardinality(1..Len(q)) = IF 1 > Len(q) THEN 0 ELSE Len(q) - 1 + 1
        <3>1. 1 \in Int /\ Len(q) \in Int
            BY <1>1
        <3> QED
            BY <3>1, FS_Interval, Zenon
    <2> QED
        BY <1>1, <2>1
<1> QED
    BY <1>5, <1>6

----------------------------------------------------------------------------
(* The pipeline: an event moves through it, and only Publish adds to it.   *)

\* TakeEvent: the event at the head of the channel becomes the one in hand.
LEMMA MovesAlong ==
    ASSUME NEW p \in Seq(Nat), NEW q \in Seq(Nat), q # <<>>
    PROVE  p \o <<Head(q)>> \o Tail(q) = p \o <<>> \o q
<1> DEFINE l == p \o <<Head(q)>> \o Tail(q)
<1> DEFINE r == p \o <<>> \o q
<1>1. l \in Seq(Nat) /\ r \in Seq(Nat)
    OBVIOUS
<1>2. Len(l) = Len(r) /\ Len(r) = Len(p) + Len(q)
    OBVIOUS
<1>3. ASSUME NEW i \in 1..Len(l) PROVE l[i] = r[i]
    OBVIOUS
<1> QED
    BY <1>1, <1>2, <1>3, SeqEqual

\* WriteSucceeds: the event in hand becomes the last one written.
LEMMA IsWritten ==
    ASSUME NEW p \in Seq(Nat), NEW q \in Seq(Nat), NEW e \in Nat
    PROVE  Append(p, e) \o <<>> \o q = p \o <<e>> \o q
OBVIOUS

\* Publish: an event enters the pipeline at its end.
LEMMA IsAdded ==
    ASSUME NEW p \in Seq(Nat), NEW h \in Seq(Nat), NEW q \in Seq(Nat), NEW e \in Nat
    PROVE  p \o h \o Append(q, e) = Append(p \o h \o q, e)
OBVIOUS

----------------------------------------------------------------------------
(* The inductive invariant.                                                *)

\* A handler is subscribed from Subscribe to the deferred unsub.
Subscribed(s) == s \in subs <=> pc[s] \notin {"idle", "done"}

\* A stream that has not begun has nothing.
Fresh(s) == pc[s] = "idle" => ch[s] = <<>> /\ written[s] = <<>> /\ dropped[s] = {}

\* A handler that writes an event has one.
HoldsOne(s) == pc[s] = "event" => hand[s] \in Events

\* What is recorded of a stream lies in the past.
InPast(s) ==
    dropped[s] \subseteq 1..published /\ joined[s] <= published /\ drained[s] <= published

\* What is on a channel was published after the channel was last empty.
SinceDrained(s) == \A i \in 1..Len(ch[s]) : drained[s] < ch[s][i]

Active(s) == s \in subs /\ pc[s] # "leave"

\* AllAccountedFor and BurstFits, of one stream.
Accounted(s) == Active(s) =>
    /\ Increasing(Pipeline(s))
    /\ ToSet(Pipeline(s)) = ((joined[s] + 1)..published) \ dropped[s]

Burst(s, e) == {x \in ToSet(Pipeline(s)) : drained[s] < x /\ x < e}

Fits(s) == Active(s) => \A e \in dropped[s] :
    e > drained[s] => Cardinality(Burst(s, e)) >= Cap

Handler(s) == Subscribed(s) /\ Fresh(s) /\ HoldsOne(s) /\ InPast(s)

IInv ==
    /\ TypeOK
    /\ \A s \in Streams : Handler(s) /\ SinceDrained(s) /\ Accounted(s) /\ Fits(s)

\* A pipeline is a sequence of numbers.
LEMMA PipelineType ==
    ASSUME TypeOK, NEW s \in Streams, HoldsOne(s)
    PROVE  /\ written[s] \in Seq(Nat) /\ InHand(s) \in Seq(Nat) /\ ch[s] \in Seq(Nat)
           /\ Pipeline(s) \in Seq(Nat)
<1>1. Events \subseteq Nat
    BY StreamAssumption DEF Events
<1>2. written[s] \in Seq(Nat) /\ ch[s] \in Seq(Nat)
    BY <1>1, SeqMonotonic DEF TypeOK
<1>3. InHand(s) \in Seq(Nat)
    <2>1. CASE pc[s] = "event"
        <3>1. hand[s] \in Nat
            BY <1>1, <2>1 DEF HoldsOne
        <3>2. <<hand[s]>> \in Seq(Nat)
            BY <3>1
        <3> QED
            BY <2>1, <3>2 DEF InHand
    <2>2. CASE pc[s] # "event"
        BY <2>2 DEF InHand
    <2> QED
        BY <2>1, <2>2
<1> QED
    BY <1>2, <1>3 DEF Pipeline

\* The invariant holds before the first subscription.
LEMMA IInvInit == Init => IInv
<1> SUFFICES ASSUME Init PROVE IInv
    OBVIOUS
<1> USE StreamAssumption DEF Init
<1>1. TypeOK
    BY DEF TypeOK, Events, ClientStates
<1>2. ASSUME NEW s \in Streams
      PROVE  Handler(s) /\ SinceDrained(s) /\ Accounted(s) /\ Fits(s)
    BY DEF Handler, Subscribed, Fresh, HoldsOne, InPast, SinceDrained, Active,
           Accounted, Fits
<1> QED
    BY <1>1, <1>2 DEF IInv

----------------------------------------------------------------------------
(* Types, and where the handlers are.                                      *)

\* Every step keeps the types.
LEMMA TypeNext == IInv /\ [Next]_vars => TypeOK'
<1> SUFFICES ASSUME IInv, [Next]_vars PROVE TypeOK'
    OBVIOUS
<1> USE StreamAssumption
<1> USE DEF IInv, TypeOK, Events, ClientStates
<1>1. CASE Publish
    <2>1. published + 1 \in Events
        BY <1>1 DEF Publish
    <2> HIDE DEF Events
    <2>2. ASSUME NEW s \in Streams
          PROVE  ch'[s] \in Seq(Events) /\ Len(ch'[s]) <= Cap
        <3>1. ch[s] \in Seq(Events) /\ Len(ch[s]) <= Cap /\ Len(ch[s]) \in Nat
            BY LenProperties
        <3>2. CASE s \in subs /\ HasRoom(s)
            <4>1. ch'[s] = Append(ch[s], published + 1)
                BY <1>1, <3>2 DEF Publish, Enqueue
            <4>2. ch'[s] \in Seq(Events) /\ Len(ch'[s]) = Len(ch[s]) + 1
                BY <2>1, <3>1, <4>1, AppendProperties
            <4> QED
                BY <3>1, <3>2, <4>2 DEF HasRoom
        <3>3. CASE ~(s \in subs /\ HasRoom(s))
            BY <1>1, <3>1, <3>3 DEF Publish
        <3> QED
            BY <3>2, <3>3
    <2>3. ch' \in [Streams -> Seq(Events)]
        BY <1>1, <2>2 DEF Publish
    <2>4. dropped' \in [Streams -> SUBSET Events]
        BY <1>1, <2>1 DEF Publish
    <2>5. published' \in 0..MaxEvents
        BY <1>1 DEF Publish
    <2> QED
        BY <1>1, <2>2, <2>3, <2>4, <2>5 DEF Publish
<1>2. ASSUME NEW s \in Streams, Subscribe(s) PROVE TypeOK'
    BY <1>2 DEF Subscribe
<1>3. ASSUME NEW s \in Streams, ContextDone(s) PROVE TypeOK'
    BY <1>3 DEF ContextDone
<1>4. ASSUME NEW s \in Streams, Keepalive(s) PROVE TypeOK'
    BY <1>4 DEF Keepalive
<1>5. ASSUME NEW s \in Streams, TakeEvent(s) PROVE TypeOK'
    <2>1. drained' = drained \/ drained' = [drained EXCEPT ![s] = published]
        BY <1>5 DEF TakeEvent
    <2>2. drained' \in [Streams -> 0..MaxEvents]
        BY <2>1
    <2> HIDE DEF Events
    <2>3. ch[s] \in Seq(Events) /\ ch[s] # <<>> /\ Len(ch[s]) <= Cap
        BY <1>5 DEF TakeEvent
    <2>4. /\ Head(ch[s]) \in Events /\ Tail(ch[s]) \in Seq(Events)
          /\ Len(Tail(ch[s])) <= Cap
        BY <2>3, HeadTailProperties
    <2>5. ch' \in [Streams -> Seq(Events)] /\ \A q \in Streams : Len(ch'[q]) <= Cap
        BY <1>5, <2>4 DEF TakeEvent
    <2>6. hand' \in [Streams -> 0..MaxEvents]
        BY <1>5, <2>4 DEF TakeEvent, Events
    <2>7. pc' \in [Streams -> {"idle", "select", "event", "keepalive", "leave", "done"}]
        BY <1>5 DEF TakeEvent
    <2>8. UNCHANGED <<published, subs, client, unread, written, dropped, joined>>
        BY <1>5 DEF TakeEvent
    <2> QED
        BY <2>2, <2>5, <2>6, <2>7, <2>8 DEF Events
<1>6. ASSUME NEW s \in Streams, WriteSucceeds(s) PROVE TypeOK'
    <2> HIDE DEF Events
    <2>1. written' \in [Streams -> Seq(Events)]
        <3>1. CASE pc[s] = "event"
            <4>1. hand[s] \in Events /\ written[s] \in Seq(Events)
                BY <3>1 DEF Handler, HoldsOne
            <4>2. Append(written[s], hand[s]) \in Seq(Events)
                BY <4>1, AppendProperties
            <4>3. written' = [written EXCEPT ![s] = Append(written[s], hand[s])]
                BY <1>6, <3>1 DEF WriteSucceeds
            <4> QED
                BY <4>2, <4>3
        <3>2. CASE pc[s] # "event"
            BY <1>6, <3>2 DEF WriteSucceeds
        <3> QED
            BY <3>1, <3>2
    <2>2. unread' \in [Streams -> 0..SockBuf]
        <3>1. unread \in [Streams -> 0..SockBuf]
            OBVIOUS
        <3>2. \/ unread' = unread
              \/ unread[s] < SockBuf /\ unread' = [unread EXCEPT ![s] = @ + 1]
            BY <1>6 DEF WriteSucceeds
        <3> HIDE DEF IInv, TypeOK
        <3> QED
            BY <3>1, <3>2
    <2>3. hand' \in [Streams -> 0..MaxEvents]
        BY <1>6 DEF WriteSucceeds
    <2>4. UNCHANGED <<published, subs, ch, client, dropped, joined, drained>>
        BY <1>6 DEF WriteSucceeds
    <2>5. pc' \in [Streams -> {"idle", "select", "event", "keepalive", "leave", "done"}]
        BY <1>6 DEF WriteSucceeds
    <2> QED
        BY <2>1, <2>2, <2>3, <2>4, <2>5 DEF Events
<1>7. ASSUME NEW s \in Streams, WriteFails(s) PROVE TypeOK'
    BY <1>7 DEF WriteFails, Writing
<1>8. ASSUME NEW s \in Streams, Unsubscribe(s) PROVE TypeOK'
    BY <1>8 DEF Unsubscribe
<1>9. ASSUME NEW s \in Streams, ClientChanges(s) PROVE TypeOK'
    <2> HIDE DEF Events
    <2>1. /\ unread' \in [Streams -> 0..SockBuf]
          /\ client' \in [Streams -> ClientStates]
        <3>1. /\ unread \in [Streams -> 0..SockBuf] /\ 0 \in 0..SockBuf
              /\ client \in [Streams -> ClientStates]
            OBVIOUS
        <3>2. unread' = unread \/ unread' = [unread EXCEPT ![s] = 0]
            BY <1>9 DEF ClientChanges
        <3>3. PICK c \in ClientStates : client' = [client EXCEPT ![s] = c]
            BY <1>9 DEF ClientChanges
        <3> HIDE DEF IInv, TypeOK, ClientStates
        <3> QED
            BY <3>1, <3>2, <3>3
    <2>2. UNCHANGED <<published, subs, ch, pc, hand, written, dropped, joined, drained>>
        BY <1>9 DEF ClientChanges
    <2> QED
        BY <2>1, <2>2 DEF Events
<1>10. CASE UNCHANGED vars
    BY <1>10 DEF vars
<1> QED
    BY <1>1, <1>2, <1>3, <1>4, <1>5, <1>6, <1>7, <1>8, <1>9, <1>10
       DEF Next, HandleEvents

\* Every step keeps what is known of stream q's handler.
LEMMA HandlerNext ==
    ASSUME IInv, [Next]_vars, NEW q \in Streams PROVE Handler(q)'
<1> USE StreamAssumption
<1> USE DEF IInv, TypeOK, Events, Handler, Subscribed, Fresh, HoldsOne, InPast
<1>1. CASE Publish
    BY <1>1 DEF Publish
<1>2. ASSUME NEW s \in Streams, Subscribe(s) PROVE Handler(q)'
    BY <1>2 DEF Subscribe
<1>3. ASSUME NEW s \in Streams, ContextDone(s) PROVE Handler(q)'
    BY <1>3 DEF ContextDone
<1>4. ASSUME NEW s \in Streams, Keepalive(s) PROVE Handler(q)'
    BY <1>4 DEF Keepalive
<1>5. ASSUME NEW s \in Streams, TakeEvent(s) PROVE Handler(q)'
    <2> HIDE DEF Events
    <2>1. Head(ch[s]) \in Events
        <3>1. ch[s] \in Seq(Events) /\ ch[s] # <<>>
            BY <1>5 DEF TakeEvent
        <3> QED
            BY <3>1, HeadTailProperties
    <2> HIDE DEF Subscribed, Fresh, InPast
    <2>2. Subscribed(q)'
        BY <1>5 DEF TakeEvent, Subscribed
    <2>4. Fresh(q)'
        BY <1>5 DEF TakeEvent, Fresh
    <2>5. InPast(q)'
        <3>1. drained'[q] \in {drained[q], published}
            BY <1>5 DEF TakeEvent
        <3>2. UNCHANGED <<published, dropped, joined>>
            BY <1>5 DEF TakeEvent
        <3> QED
            BY <3>1, <3>2 DEF InPast
    <2>3. HoldsOne(q)'
        BY <1>5, <2>1 DEF TakeEvent
    <2> QED
        BY <2>2, <2>3, <2>4, <2>5
<1>6. ASSUME NEW s \in Streams, WriteSucceeds(s) PROVE Handler(q)'
    BY <1>6 DEF WriteSucceeds, Writing
<1>7. ASSUME NEW s \in Streams, WriteFails(s) PROVE Handler(q)'
    BY <1>7 DEF WriteFails, Writing
<1>8. ASSUME NEW s \in Streams, Unsubscribe(s) PROVE Handler(q)'
    BY <1>8 DEF Unsubscribe
<1>9. ASSUME NEW s \in Streams, ClientChanges(s) PROVE Handler(q)'
    BY <1>9 DEF ClientChanges
<1>10. CASE UNCHANGED vars
    BY <1>10 DEF vars
<1> QED
    BY <1>1, <1>2, <1>3, <1>4, <1>5, <1>6, <1>7, <1>8, <1>9, <1>10
       DEF Next, HandleEvents

\* A channel that was emptied holds only what was published since.
LEMMA QueueNext ==
    ASSUME IInv, [Next]_vars, NEW q \in Streams PROVE SinceDrained(q)'
<1>1. /\ ch[q] \in Seq(Nat) /\ Len(ch[q]) \in Nat /\ SinceDrained(q)
      /\ drained[q] <= published /\ drained[q] \in Nat /\ published \in Nat
    <2>1. ch[q] \in Seq(Nat)
        BY PipelineType DEF IInv, Handler
    <2> QED
        BY <2>1, StreamAssumption DEF IInv, TypeOK, Handler, InPast
<1>2. CASE ch'[q] = ch[q] /\ drained'[q] = drained[q]
    BY <1>1, <1>2 DEF SinceDrained
<1>3. CASE ch'[q] = <<>>
    BY <1>3 DEF SinceDrained
<1>4. CASE Publish
    <2>1. drained' = drained
        BY <1>4 DEF Publish
    <2>2. ch'[q] = ch[q] \/ ch'[q] = Append(ch[q], published + 1)
        BY <1>4 DEF Publish, Enqueue
    <2>3. CASE ch'[q] = Append(ch[q], published + 1)
        BY <1>1, <2>1, <2>3 DEF SinceDrained
    <2> QED
        BY <1>2, <2>1, <2>2, <2>3
<1>5. ASSUME NEW s \in Streams, TakeEvent(s) PROVE SinceDrained(q)'
    <2>1. CASE q = s /\ Tail(ch[q]) # <<>>
        <3>1. ch'[q] = Tail(ch[q]) /\ ch[q] # <<>> /\ drained' = drained
            BY <1>5, <2>1 DEF TakeEvent, IInv, TypeOK
        <3>2. \A i \in 1..Len(Tail(ch[q])) :
                  i + 1 \in 1..Len(ch[q]) /\ Tail(ch[q])[i] = ch[q][i + 1]
            BY <1>1, <3>1
        <3> QED
            BY <1>1, <3>1, <3>2 DEF SinceDrained
    <2>2. CASE q = s /\ Tail(ch[q]) = <<>>
        BY <1>3, <1>5, <2>2 DEF TakeEvent, IInv, TypeOK
    <2>3. CASE q # s
        BY <1>2, <1>5, <2>3 DEF TakeEvent, IInv, TypeOK
    <2> QED
        BY <2>1, <2>2, <2>3
<1>6. ASSUME NEW s \in Streams, Subscribe(s) PROVE SinceDrained(q)'
    <2>1. CASE q = s
        BY <1>3, <1>6, <2>1 DEF Subscribe, IInv, Handler, Fresh
    <2>2. CASE q # s
        BY <1>2, <1>6, <2>2 DEF Subscribe, IInv, TypeOK
    <2> QED
        BY <2>1, <2>2
<1>7. ASSUME NEW s \in Streams, Unsubscribe(s) PROVE SinceDrained(q)'
    <2>1. CASE q = s
        BY <1>3, <1>7, <2>1 DEF Unsubscribe, IInv, TypeOK
    <2>2. CASE q # s
        BY <1>2, <1>7, <2>2 DEF Unsubscribe, IInv, TypeOK
    <2> QED
        BY <2>1, <2>2
<1>8. ASSUME UNCHANGED <<ch, drained>> PROVE SinceDrained(q)'
    BY <1>2, <1>8
<1>9. ASSUME NEW s \in Streams,
             \/ ContextDone(s) \/ Keepalive(s) \/ WriteSucceeds(s) \/ WriteFails(s)
             \/ ClientChanges(s)
      PROVE  SinceDrained(q)'
    BY <1>8, <1>9 DEF ContextDone, Keepalive, WriteSucceeds, WriteFails, ClientChanges
<1> QED
    BY <1>4, <1>5, <1>6, <1>7, <1>8, <1>9 DEF Next, HandleEvents, vars

----------------------------------------------------------------------------
(* What a stream delivers.                                                 *)

\* The two claims about stream q depend only on its pipeline and its records.
LEMMA Kept ==
    ASSUME IInv, NEW q \in Streams, Active(q)' => Active(q),
           Active(q) => Pipeline(q)' = Pipeline(q),
           published' = published, joined'[q] = joined[q], dropped'[q] = dropped[q],
           drained'[q] = drained[q]
    PROVE  Accounted(q)' /\ Fits(q)'
<1> SUFFICES ASSUME Active(q)' PROVE Accounted(q)' /\ Fits(q)'
    BY DEF Accounted, Fits
<1>1. Accounted(q) /\ Fits(q) /\ Active(q)
    BY DEF IInv
<1>2. Pipeline(q)' = Pipeline(q)
    BY <1>1
<1>3. Increasing(Pipeline(q))' /\ ToSet(Pipeline(q))' = ToSet(Pipeline(q))
    BY <1>1, <1>2 DEF Accounted, Increasing
<1>4. Accounted(q)'
    BY <1>1, <1>3 DEF Accounted
<1>5. \A e : Burst(q, e)' = Burst(q, e)
    BY <1>3 DEF Burst
<1>6. Fits(q)'
    BY <1>1, <1>5 DEF Fits
<1> QED
    BY <1>4, <1>6

\* A handler that takes an event off its channel does not change its pipeline.
LEMMA TakeKeeps ==
    ASSUME IInv, NEW s \in Streams, TakeEvent(s) PROVE Pipeline(s)' = Pipeline(s)
<1>1. /\ written[s] \in Seq(Nat) /\ ch[s] \in Seq(Nat)
    BY PipelineType DEF IInv, Handler
<1>2. /\ ch[s] # <<>> /\ InHand(s) = <<>> /\ written'[s] = written[s]
      /\ ch'[s] = Tail(ch[s]) /\ hand'[s] = Head(ch[s]) /\ pc'[s] = "event"
    BY DEF TakeEvent, InHand, IInv, TypeOK
<1>3. InHand(s)' = <<Head(ch[s])>>
    BY <1>2 DEF InHand
<1>4. written[s] \o <<Head(ch[s])>> \o Tail(ch[s]) = written[s] \o <<>> \o ch[s]
    BY <1>1, <1>2, MovesAlong
<1> QED
    BY <1>2, <1>3, <1>4 DEF Pipeline

\* Nor does a write change it, of an event or of a keepalive.
LEMMA WriteKeeps ==
    ASSUME IInv, NEW s \in Streams, WriteSucceeds(s) PROVE Pipeline(s)' = Pipeline(s)
<1>1. /\ written[s] \in Seq(Nat) /\ ch[s] \in Seq(Nat)
    BY PipelineType DEF IInv, Handler
<1>2. ch'[s] = ch[s] /\ pc'[s] = "select"
    BY DEF WriteSucceeds, IInv, TypeOK
<1>3. InHand(s)' = <<>>
    BY <1>2 DEF InHand
<1>4. CASE pc[s] = "event"
    <2>1. hand[s] \in Nat
        BY <1>4, StreamAssumption DEF IInv, Handler, HoldsOne, Events
    <2>2. written'[s] = Append(written[s], hand[s]) /\ InHand(s) = <<hand[s]>>
        BY <1>4 DEF WriteSucceeds, IInv, TypeOK, InHand
    <2>3. Append(written[s], hand[s]) \o <<>> \o ch[s] = written[s] \o <<hand[s]>> \o ch[s]
        BY <1>1, <2>1, IsWritten
    <2> QED
        BY <1>2, <1>3, <2>2, <2>3 DEF Pipeline
<1>5. CASE pc[s] # "event"
    <2>1. written'[s] = written[s] /\ InHand(s) = <<>>
        BY <1>5 DEF WriteSucceeds, InHand
    <2> QED
        BY <1>2, <1>3, <2>1 DEF Pipeline
<1> QED
    BY <1>4, <1>5

\* A stream that empties its channel has no burst under way.
LEMMA CaughtUp ==
    ASSUME IInv, NEW s \in Streams, TakeEvent(s), NEW q \in Streams,
           drained'[q] # drained[q], Active(q)' => Active(q), Pipeline(q)' = Pipeline(q),
           UNCHANGED <<published, joined, dropped>>
    PROVE  Accounted(q)' /\ Fits(q)'
<1>1. /\ drained'[q] = published /\ published \in Nat /\ dropped[q] \subseteq 1..published
    BY StreamAssumption DEF TakeEvent, IInv, TypeOK, Handler, InPast
<1>2. \A e \in dropped'[q] : ~(e > drained'[q])
    BY <1>1
<1>3. Fits(q)'
    BY <1>2 DEF Fits
<1>4. Increasing(Pipeline(q))' <=> Increasing(Pipeline(q))
    BY DEF Increasing
<1>5. Accounted(q)'
    BY <1>4 DEF IInv, Accounted, ToSet
<1> QED
    BY <1>3, <1>5

\* Publish on a channel with room puts the event at the end of the pipeline.
LEMMA PublishWithRoom ==
    ASSUME IInv, Publish, NEW q \in Streams, Active(q), HasRoom(q)
    PROVE  Accounted(q)' /\ Fits(q)'
<1> DEFINE e == published + 1
<1>1. /\ published \in Nat /\ e \in Nat /\ joined[q] \in Nat /\ joined[q] <= published
      /\ dropped[q] \subseteq 1..published
    BY StreamAssumption DEF IInv, TypeOK, Handler, InPast
<1>2. /\ written[q] \in Seq(Nat) /\ InHand(q) \in Seq(Nat) /\ ch[q] \in Seq(Nat)
      /\ Pipeline(q) \in Seq(Nat)
    BY PipelineType DEF IInv, Handler
<1>3. /\ Increasing(Pipeline(q))
      /\ ToSet(Pipeline(q)) = ((joined[q] + 1)..published) \ dropped[q]
    BY DEF IInv, Accounted
<1>4. /\ published' = e /\ joined' = joined /\ dropped'[q] = dropped[q] /\ drained' = drained
      /\ ch'[q] = Append(ch[q], e) /\ written' = written /\ InHand(q)' = InHand(q)
    BY DEF Publish, Enqueue, Active, InHand
<1>5. Pipeline(q)' = Append(Pipeline(q), e)
    <2>1. Pipeline(q)' = written[q] \o InHand(q) \o Append(ch[q], e)
        BY <1>4 DEF Pipeline
    <2>2. Pipeline(q) = written[q] \o InHand(q) \o ch[q]
        BY DEF Pipeline
    <2> HIDE DEF e
    <2>3. written[q] \o InHand(q) \o Append(ch[q], e)
              = Append(written[q] \o InHand(q) \o ch[q], e)
        <3>1. written[q] \in Seq(Nat) /\ InHand(q) \in Seq(Nat) /\ ch[q] \in Seq(Nat)
            BY <1>2
        <3>2. e \in Nat
            BY <1>1
        <3> QED
            BY <3>1, <3>2, IsAdded
    <2> QED
        BY <2>1, <2>2, <2>3, Zenon
<1>6. \A x \in ToSet(Pipeline(q)) : x < e
    BY <1>1, <1>3
<1> HIDE DEF e
<1>7. Increasing(Pipeline(q)')
    BY <1>1, <1>2, <1>3, <1>5, <1>6, IncreasingAppend
<1>8. ToSet(Pipeline(q)') = ToSet(Pipeline(q)) \cup {e}
    BY <1>1, <1>2, <1>5, ToSetAppend
<1>9. ToSet(Pipeline(q)') = ((joined[q] + 1)..e) \ dropped[q]
    BY <1>1, <1>3, <1>8 DEF e
<1>10. Accounted(q)'
    BY <1>4, <1>7, <1>9 DEF Accounted, Increasing, ToSet
<1>11. ASSUME NEW d \in dropped[q], d > drained[q]
       PROVE  Cardinality(Burst(q, d)') >= Cap
    <2>1. d \in Nat /\ ~(e < d)
        BY <1>1 DEF e
    <2>2. Burst(q, d)' = Burst(q, d)
        BY <1>4, <1>8, <2>1 DEF Burst
    <2>3. Cardinality(Burst(q, d)) >= Cap
        BY <1>11 DEF IInv, Fits
    <2> QED
        BY <2>2, <2>3
<1>12. Fits(q)'
    BY <1>4, <1>11 DEF Fits
<1> QED
    BY <1>10, <1>12

\* Publish on a full channel drops the event: the channel alone holds Cap
\* earlier ones, all published since it was last empty.
LEMMA PublishWithoutRoom ==
    ASSUME IInv, Publish, NEW q \in Streams, Active(q), ~HasRoom(q)
    PROVE  Accounted(q)' /\ Fits(q)'
<1> DEFINE e == published + 1
<1>1. /\ published \in Nat /\ e \in Nat /\ joined[q] \in Nat /\ joined[q] <= published
      /\ dropped[q] \subseteq 1..published /\ Cap \in Nat /\ drained[q] \in Nat
    BY StreamAssumption DEF IInv, TypeOK, Handler, InPast
<1>2. /\ written[q] \in Seq(Nat) /\ InHand(q) \in Seq(Nat) /\ ch[q] \in Seq(Nat)
      /\ Pipeline(q) \in Seq(Nat)
    BY PipelineType DEF IInv, Handler
<1>3. /\ Increasing(Pipeline(q))
      /\ ToSet(Pipeline(q)) = ((joined[q] + 1)..published) \ dropped[q]
    BY DEF IInv, Accounted
<1>4. /\ published' = e /\ joined' = joined /\ dropped'[q] = dropped[q] \cup {e}
      /\ drained' = drained
      /\ ch'[q] = ch[q] /\ written' = written /\ InHand(q)' = InHand(q)
    BY DEF Publish, Active, InHand
<1>5. Pipeline(q)' = Pipeline(q)
    BY <1>4 DEF Pipeline
<1>6. ((joined[q] + 1)..published) \ dropped[q] = ((joined[q] + 1)..e) \ (dropped[q] \cup {e})
    BY <1>1
<1>7. Accounted(q)'
    BY <1>3, <1>4, <1>5, <1>6 DEF Accounted, Increasing, ToSet
<1>8. Cardinality(Burst(q, e)) >= Cap
    <2> DEFINE S == Burst(q, e)
    <2>1. ToSet(ch[q]) \subseteq ToSet(Pipeline(q))
        <3>1. Pipeline(q) = (written[q] \o InHand(q)) \o ch[q]
            BY DEF Pipeline
        <3>2. written[q] \o InHand(q) \in Seq(Nat)
            BY <1>2
        <3> QED
            BY <1>2, <3>1, <3>2, SuffixWithin
    <2>2. \A i \in 1..Len(ch[q]) : ch[q][i] \in S
        <3> SUFFICES ASSUME NEW i \in 1..Len(ch[q]) PROVE ch[q][i] \in S
            OBVIOUS
        <3>1. ch[q][i] \in ToSet(Pipeline(q))
            BY <1>2, <2>1, ToSetIs
        <3>2. drained[q] < ch[q][i]
            BY DEF IInv, SinceDrained
        <3>3. ch[q][i] < e
            BY <1>1, <1>3, <3>1
        <3> QED
            BY <3>1, <3>2, <3>3 DEF Burst
    <2>3. IsFiniteSet(S)
        <3>1. joined[q] + 1 \in Int /\ published \in Int
            BY <1>1
        <3>2. IsFiniteSet((joined[q] + 1)..published)
            BY <3>1, FS_Interval, Zenon
        <3>3. S \subseteq (joined[q] + 1)..published
            BY <1>3 DEF Burst
        <3> QED
            BY <3>2, <3>3, FS_Subset
    <2>4. Len(ch[q]) <= Cardinality(S)
        <3>1. written[q] \o InHand(q) \in Seq(Nat)
            BY <1>2
        <3>2. Pipeline(q) = (written[q] \o InHand(q)) \o ch[q]
            BY DEF Pipeline
        <3>3. Increasing((written[q] \o InHand(q)) \o ch[q])
            BY <1>3, <3>2
        <3> HIDE DEF S
        <3> QED
            BY <1>2, <2>2, <2>3, <3>1, <3>3, SuffixCounts
    <2>5. Len(ch[q]) >= Cap /\ Len(ch[q]) \in Nat
        BY <1>1, <1>2 DEF HasRoom
    <2>6. Cardinality(S) \in Nat
        BY <2>3, FS_CardinalityType
    <2> QED
        BY <1>1, <2>4, <2>5, <2>6
<1>9. Fits(q)'
    <2>1. \A x : Burst(q, x)' = Burst(q, x)
        BY <1>4, <1>5 DEF Burst, ToSet
    <2>2. \A d \in dropped[q] : d > drained[q] => Cardinality(Burst(q, d)) >= Cap
        BY DEF IInv, Fits
    <2> QED
        BY <1>4, <1>8, <2>1, <2>2 DEF Fits
<1> QED
    BY <1>7, <1>9

\* A new subscription owes its client nothing that was published before.
LEMMA SubscribeStarts ==
    ASSUME IInv, NEW s \in Streams, Subscribe(s)
    PROVE  Accounted(s)' /\ Fits(s)'
<1>1. /\ dropped'[s] = {} /\ ch'[s] = <<>> /\ written'[s] = <<>> /\ pc'[s] = "select"
      /\ joined'[s] = published /\ published' = published /\ published \in Nat
    BY StreamAssumption DEF Subscribe, IInv, TypeOK, Handler, Fresh
<1>2. Pipeline(s)' = <<>>
    BY <1>1 DEF Pipeline, InHand
<1>3. ToSet(<<>>) = {}
    BY DEF ToSet
<1>4. ((published + 1)..published) = {}
    BY <1>1
<1>5. Accounted(s)'
    BY <1>1, <1>2, <1>3, <1>4 DEF Accounted, Increasing, ToSet
<1>6. Fits(s)'
    BY <1>1 DEF Fits
<1> QED
    BY <1>5, <1>6

\* Every step keeps both claims.
LEMMA DeliveryNext ==
    ASSUME IInv, [Next]_vars, NEW q \in Streams
    PROVE  Accounted(q)' /\ Fits(q)'
<1>1. CASE Publish
    <2>1. Active(q)' => Active(q)
        BY <1>1 DEF Publish, Active
    <2>2. CASE Active(q)
        BY <1>1, <2>2, PublishWithRoom, PublishWithoutRoom
    <2>3. CASE ~Active(q)
        BY <2>1, <2>3 DEF Accounted, Fits
    <2> QED
        BY <2>2, <2>3
<1>2. ASSUME NEW s \in Streams, Subscribe(s) PROVE Accounted(q)' /\ Fits(q)'
    <2>1. CASE q = s
        BY <1>2, <2>1, SubscribeStarts
    <2>2. CASE q # s
        BY <1>2, <2>2, Kept DEF Subscribe, Active, Pipeline, InHand, IInv, TypeOK
    <2> QED
        BY <2>1, <2>2
<1>3. ASSUME NEW s \in Streams, ContextDone(s) PROVE Accounted(q)' /\ Fits(q)'
    BY <1>3, Kept DEF ContextDone, Active, Pipeline, InHand, IInv, TypeOK
<1>4. ASSUME NEW s \in Streams, Keepalive(s) PROVE Accounted(q)' /\ Fits(q)'
    BY <1>4, Kept DEF Keepalive, Active, Pipeline, InHand, IInv, TypeOK
<1>5. ASSUME NEW s \in Streams, TakeEvent(s) PROVE Accounted(q)' /\ Fits(q)'
    <2>1. Active(q)' => Active(q)
        BY <1>5 DEF TakeEvent, Active, IInv, TypeOK
    <2>2. Pipeline(q)' = Pipeline(q)
        BY <1>5, TakeKeeps DEF TakeEvent, Pipeline, InHand, IInv, TypeOK
    <2>3. UNCHANGED <<published, joined, dropped>>
        BY <1>5 DEF TakeEvent
    <2>4. CASE drained'[q] = drained[q]
        BY <2>1, <2>2, <2>3, <2>4, Kept
    <2>5. CASE drained'[q] # drained[q]
        BY <1>5, <2>1, <2>2, <2>3, <2>5, CaughtUp
    <2> QED
        BY <2>4, <2>5
<1>6. ASSUME NEW s \in Streams, WriteSucceeds(s) PROVE Accounted(q)' /\ Fits(q)'
    <2>1. Active(q)' => Active(q)
        BY <1>6 DEF WriteSucceeds, Writing, Active, IInv, TypeOK
    <2>2. Pipeline(q)' = Pipeline(q)
        BY <1>6, WriteKeeps DEF WriteSucceeds, Pipeline, InHand, IInv, TypeOK
    <2> QED
        BY <1>6, <2>1, <2>2, Kept DEF WriteSucceeds
<1>7. ASSUME NEW s \in Streams, WriteFails(s) PROVE Accounted(q)' /\ Fits(q)'
    <2>1. CASE q = s
        BY <1>7, <2>1 DEF WriteFails, Active, Accounted, Fits, IInv, TypeOK
    <2>2. CASE q # s
        BY <1>7, <2>2, Kept DEF WriteFails, Active, Pipeline, InHand, IInv, TypeOK
    <2> QED
        BY <2>1, <2>2
<1>8. ASSUME NEW s \in Streams, Unsubscribe(s) PROVE Accounted(q)' /\ Fits(q)'
    <2>1. CASE q = s
        BY <1>8, <2>1 DEF Unsubscribe, Active, Accounted, Fits
    <2>2. CASE q # s
        BY <1>8, <2>2, Kept DEF Unsubscribe, Active, Pipeline, InHand, IInv, TypeOK
    <2> QED
        BY <2>1, <2>2
<1>9. ASSUME NEW s \in Streams, ClientChanges(s) PROVE Accounted(q)' /\ Fits(q)'
    BY <1>9, Kept DEF ClientChanges, Active, Pipeline, InHand
<1>10. CASE UNCHANGED vars
    BY <1>10, Kept DEF vars, Active, Pipeline, InHand
<1> QED
    BY <1>1, <1>2, <1>3, <1>4, <1>5, <1>6, <1>7, <1>8, <1>9, <1>10
       DEF Next, HandleEvents

----------------------------------------------------------------------------
(***************************************************************************)
(* The inductive invariant holds.                                          *)
(***************************************************************************)
THEOREM EventStreamInvariant == Spec => []IInv
<1>1. IInv /\ [Next]_vars => IInv'
    BY TypeNext, HandlerNext, QueueNext, DeliveryNext DEF IInv
<1> QED
    BY <1>1, IInvInit, PTL DEF Spec

(***************************************************************************)
(* Type correctness; in particular no channel holds more than Cap events.  *)
(***************************************************************************)
THEOREM TypeCorrect == Spec => []TypeOK
<1>1. IInv => TypeOK
    BY DEF IInv
<1> QED
    BY <1>1, EventStreamInvariant, PTL

(***************************************************************************)
(* However publishers, handlers and clients interleave, a stream writes    *)
(* the events published since it subscribed in their order, none twice,    *)
(* and misses only those that found its channel full.                      *)
(***************************************************************************)
THEOREM NothingLost == Spec => []AllAccountedFor
<1>1. IInv => AllAccountedFor
    BY DEF IInv, TypeOK, Accounted, Active, AllAccountedFor
<1> QED
    BY <1>1, EventStreamInvariant, PTL

(***************************************************************************)
(* Whatever a stream delivered or missed before: once its channel was      *)
(* empty, the next Cap events it is sent are all kept, however the         *)
(* publishers and its handler interleave.                                  *)
(***************************************************************************)
THEOREM BurstDelivered == Spec => []BurstFits
<1>1. IInv => BurstFits
    BY DEF IInv, TypeOK, Fits, Burst, Active, BurstFits
<1> QED
    BY <1>1, EventStreamInvariant, PTL
============================================================================
