# Puls in TLA+

Puls is a small fleet monitor: `puls-server` keeps a WebSocket connection to
each device, stores heartbeats and diagnostics in SQLite or Postgres, and
streams events to admins; `puls-agent` is the device side. This directory
holds TLA+ models of the parts whose correctness depends on interleavings,
failures or arithmetic at a boundary, the TLC runs that check them on small
instances, and TLAPS proofs, for every value of the constants, of all their
safety properties.

`PROJECT.json` lists components, runs, mutants, the source lines each
definition models, findings, hazards and theorems.

    tlc -workers 2 -config HubSafety.cfg MCHub    # any run of PROJECT.json
    tlapm HubProofs.tla                              # the proofs

## Inventory

| Component | State | Operations | Interacts with | Hard behaviour | Correct when |
|---|---|---|---|---|---|
| hub, WebSocket handlers (`internal/ws`, `routes_ws.go`) | map device → client, wait group, status column, one goroutine per connection | upgrade, register/replace, heartbeat, unregister, offline write, CloseAll, Wait | store, broadcaster, shutdown | reconnection races, writes of two handlers in either order, failing writes, crash, shutdown while devices connect | one session per device, replaced connections end, status follows the map, shutdown waits for clean-up |
| server, process (`server.go`, `cmd/puls-server`) | listener, shutdown deadline, outcome of Shutdown | start, shutdown, exit | hub, HTTP handlers, event streams | order of CloseAll, Wait and closing the listener; streams nobody closes | shutdown returns, what it reports is so, no device is left online |
| status readers (`routes_device.go`) | a status read from the store, before the hub is asked | get, list | store, hub | a device that connects or leaves between the two looks | a reported status was true during the request |
| event stream (`broadcaster.go`, `routes_events.go`) | subscriber channels of 32 events | publish, subscribe, write, keepalive, unsubscribe | WebSocket handlers publish | slow, stalled and vanished clients | every event delivered in order or dropped on a full channel, dead streams end |
| rate limiter (`ratelimit.go`) | bucket per key, time of last sweep | allow, sweep | public endpoints, metrics, messages of a device | lazy refill, eviction | same answers as an ideal bucket, map stays small |
| diagnostics (`routes_diagnostics.go`, `handleDiagResponse`) | diagnostic_results rows | request, deliver, clean up, answer, list | hub, store, agent | disconnect between check and send, cancelled context, late and lost answers, second granularity | accepted requests stay, orphans go or resolve, timeout accurate, a completed request stays so |
| device list (`cursor.go`, `ListDevices`) | devices rows, the client's cursor | register, fetch page | store | ties within a second, insertions during a walk | nothing skipped, nothing twice, later registrations do not feed a walk |
| agent life (`agent.go` Run, `state.go`) | registration in use, state file, backoff | load, register, save, dial, clear, delay | server's register and upgrade handlers | crash between steps, disk failures, rejected tokens | same device after a restart, no hammering, no needless devices, stays until cancelled |
| agent session (`connectAndServe`, `readLoop`) | two channels, contexts, ticker | select, read, diagnose | server | loop and reader ending in either order | no leaked goroutine, heartbeats on time, drops noticed |
| migrations (`postgres.go`, `sqlite.go`, `initStore`) | version table, schema, advisory lock, snapshots | lock, read, apply, record, unlock | database, other instances, the operator | instances that start together, death or timeout inside an index build, a lock waiter and an index build waiting for each other | a recorded version was applied, a ready store is complete, starting ends |
| middleware, auth (`middleware.go`, `auth`, metrics middleware) | the status each response writer remembers | log, count, recover, authenticate, rate limit | every handler | a panic before or after the answer has begun | counted and logged as sent |
| config, exporters and tracing, agent statistics, wire format | none shared, or a library's | pure or straight-line | all | — | not modelled |

## Modules

| Module | Models | Notes |
|---|---|---|
| `Hub` | connection handlers, hub, shutdown, crash | `pc[c]` is the next shared-state step of the handler of connection `c`; `clients`, `wg` and `status` are the map, the wait group and the column |
| `Server` | `Hub` with status readers, event streams, `http.Shutdown` and `run` | extends `Hub`; every step of it is a step of `Hub` or leaves its variables alone. `reading[r]` is a reader's next step; `wasOn` and `wasOff` are history: what it could have seen |
| `Presence` | what the hub promises | abstract; `Hub` refines it |
| `EventStream` | broadcaster, SSE handlers | events are numbered in the order of the lock |
| `RateLimiter`, `TokenBucket` | limiter; ideal bucket | integer units: a token is `Cost` units; `RateLimiter` refines `TokenBucket` |
| `Requests` | a request through the middleware, the mux, requireAuth and the limiter's wrapper | extends `RateLimiter`; a layer is an operator on the writers' fields and a pending panic |
| `Migration` | instances that bring a database up to date | one step per SQL statement or transaction; both drivers, chosen in Init; `older` holds the sessions an index build waits out |
| `Diagnostics` | request to answer, for one device | `Granularity` ticks make a stored second; 1 is Postgres |
| `Pagination` | registration and a walk of the list | ids are numbers for their string order |
| `Agent` | the agent process across restarts | a registration is a number; tokens up to `revoked` are refused; `pc` is `off` after a stop and `failed` after Run returned an error |
| `AgentSession` | `Agent` with the goroutines of the connection it serves | extends `Agent`: `Connects` and `Returns` join its dial and its loss of the connection to the session's start and end; unbuffered channel = one joint step, error channel holds one |
| `MCHub` | `Server` with one device, interchangeable connections, for TLC | |
| `HubProofs`, `ServerProofs`, `RateLimiterProofs`, `EventStreamProofs`, `DiagnosticsProofs`, `PaginationProofs`, `AgentProofs`, `MigrationProofs` | theorems | each extends the module it is about; `RateLimiterProofs` covers `Requests` too, and `AgentProofs` `AgentSession` |

A step of a model is one critical section, SQL statement, channel operation or
wait-group call of the code. A store operation that returns an error is a
disjunct of the action that calls it, or (`Migration`) an action for all
statements. Definitions headed "Slips a change to
the code could make" are mutated forms of the definitions named beside them:
substituting one makes TLC violate the property it is listed with in
`PROJECT.json`, which shows that the property depends on that line of code.

Details left out: message contents, JSON, logging, metrics, heartbeat rows, the
50-row limit of the diagnostics list. In `Hub` a rejected or malformed message
is a return to the read with no effect on the modelled state. In `Requests`, 200
stands for every status a handler may choose. The error paths of `json.Marshal`
in `handleEvents` and of `ws.Encode` in `handleRequestDiagnostics` cannot be
taken for the payloads the program encodes, and are left out. `Pagination`'s
client returns the cursors it was given, so the rejection of a malformed one is
left out too. History variables
(`asked`, `tainted`, `made`, `undeleted`, `shown`, `dropped`, `drained`,
`opened`, `excused`, ...) record what a property needs and guard nothing.

An error that a statement reports does not mean it had no effect: an INSERT, a
DELETE, a registration or a migration whose answer is lost may have taken
effect, and `Diagnostics`, `Agent` and `Migration` have both outcomes. In
`Migration` a process that dies late in a statement is one that dies after it;
an index build can also be cut short, by the timeout or with its session, and
then leaves an invalid index.

## Runs

| Run | Instance | Shows |
|---|---|---|
| `HubSafety` | one device, 2 connections, a reader, an event stream, every write may fail, shutdown, crash, restart | no forgotten connection, status agrees with the map outside the recorded hazards, events are backed, wait group exact, replies were true, Shutdown's report is so, `Presence` is refined |
| `HubLiveness` | one device, 2 connections, an event stream | replaced handlers end; Shutdown returns even if no stream ends; a heartbeat repairs a wrong offline status |
| `EventStream` | 2 streams, channels of 2, 4 events | what a stream wrote, holds and dropped is what was published, in order; whenever the channel has been empty, a burst that fits is kept; stalled streams end |
| `RateLimiter` (module `Requests`) | 2 keys, several sweeps and evictions, panics, every kind of token | window bound, clean sweeps, refinement of `TokenBucket`; requests are counted and logged as they were sent |
| `Diagnostics` | 2 requests, 2-tick seconds | accepted rows stay, a refused request's row is deleted unless the delete failed or the INSERT reported an error, timeout accurate, the shown status only moves forward; every row resolves |
| `Pagination` | 4 devices, 2 to a page, 2-tick seconds | none skipped, none repeated, nothing of a later second than the first page is shown |
| `AgentSession` | up to 3 registrations, 2 revocations, backoff cap 3, 2 diagnostics at once | no hammering, same identity, no needless device; the reader ends, heartbeats flow, a drop or a signal ends the session |
| `Migration` | 3 instances, 3 versions of which the second is concurrent, both drivers | recorded versions were applied in order, ready stores are complete but for interrupted builds, starting ends without the timeout |

Four runs are expected to fail, each on one claim of a comment or test that
the code does not keep:

* `HubClobber` — the offline write of a finished connection lands after the
  online write of a newer one: unregistering and writing are two steps. The
  next heartbeat repairs it (`HubLiveness`).
* `HubShutdown` — the listener is closed only after CloseAll and Wait, so a
  device that connects in between is still online in the store after Shutdown
  returned without an error.
* `AgentStays` — the comment on `Agent.Run` (`agent.go:54-55`) says that it
  stays connected until its context is cancelled, reconnecting with backoff. An
  agent whose token is rejected tries to register again, once; if the server
  refuses (its limiter does when a fleet behind one address comes back at once),
  Run returns the error and the process ends.
* `MigrationRecovery` — the comment on `applyConcurrentMigration` says that an
  operator recovers from an interrupted build by dropping the invalid index and
  restarting. A start before the operator comes takes the invalid index for the
  finished one and records the version; from then on no restart builds it.

Further observations:

* A replaced connection publishes `device.disconnected` after the newer one's
  `device.connected`, so a watcher may see a disconnect last although the
  device is connected. The opposite, a `device.connected` that nothing will
  follow, is excluded by `ConnectedEventIsBacked`.
* `model/device.go:67-68` describes `timed_out` as "never answered, and won't
  now"; a late answer completes the request all the same (the comment in
  `diagnosticStatus` says so). `ShownMovesForward` allows this step; it excludes
  a return to pending, and any change of a request shown as completed.
* An INSERT of a diagnostic request that takes effect but reports an error is
  answered 500 and not cleaned up (`routes_diagnostics.go:47-51`), unlike the
  other error paths. `NoSilentOrphan` exempts it by the reply; `SelfResolves`
  shows that the row is not pending for ever.
* Two instances that start together can leave an invalid index that is recorded
  as built, without any crash: the one waits for the advisory lock, the index
  build of the other waits for its snapshot, and if Postgres' deadlock detector
  ends the build, the waiter finds the index there.
* An open event stream makes `http.Shutdown` wait for the whole deadline and
  Shutdown return an error; `run` then skips the tracing flush.
* `env` in `config.go` takes a variable that is set and empty for its value: an
  empty `DATABASE_URL` hides `PULS_DATABASE_URL`.

### Why the bounds are enough

The hub's races are between the handler that leaves and the one that replaces
it; two connections of a device, with a reader and a stream beside them, reach
every step of both in every order, including a second start of the process.
Longer chains of replacements and several devices, which share only the wait
group and the snapshot, are covered by the proofs: every invariant of
`HubSafety` is proved for any connections, devices, readers and streams. So is
every invariant of the other runs for its constants; what the bounds limit for
good is the liveness properties.
A channel of two and four events lets it fill, overflow and drain, and lets
events be dropped again after it drained. The limiter's
instance lets a bucket empty, refill to its cap, be evicted and come back, with
a second sweep. Three instances let two wait for the lock
while the third builds the index, so that a deadlock is broken more than once;
a version after the concurrent one shows that its failure stops the list. Two diagnostic requests can hit each other's rows; the clock
runs past the timeout of the latest. Four devices make two full pages with ties
on both sides of a page break. Two revocations let the agent re-register
after a re-registration, and a backoff cap of 3 is not a power of two, as 30 is
not. Deadlock is not checked where a finite number of connections, requests or
ticks runs out.

## Fairness

* `Server!ServerFairSpec` (and `Hub!FairSpec`): a handler goroutine that can take a step does (the calls it
  blocks in have deadlines: 5 s for the offline write, 10 s for sends, a
  bounded close handshake); a read on a closed socket returns; the shutdown
  context expires; a read returns within the heartbeat timeout, with a message
  or an error, since `Run` sets that deadline on each read. Nothing makes a
  device connect, send or leave, and no client has to leave its event stream.
* `EventStream!FairSpec`: handlers run, the ticker fires, a blocked write ends
  at its deadline.
* `Diagnostics!ClockSpec`: only the clock.
* `AgentSession!SessionFairSpec`: the goroutines of a connection run, and a
  select case that stays ready is taken in the end (Go chooses at random).
  Diagnostics may never finish, and nothing is assumed of Run's own loop, the
  network or the disk. `Connects` takes the reader of the connection before to
  have ended: it shares nothing with the next one, and the delay lies between;
  that it does end is `ReaderEnds`.
* `Migration!FairSpec`: a statement that is not blocked ends, the advisory lock
  is granted to a waiter in the end although others come and go (strong
  fairness: Postgres queues them), and the deadlock detector acts on a deadlock.
  The 30 second timeout may fire and nothing relies on it.

## Proofs

`HubProofs` proves, for any finite set of connections, any devices and any set
of failing writes, the invariants of `HubSafety` that are about the hub, types
and `CleanupBeforeDrain` (which no run checks by itself), and the refinement of
`Presence`. They rest on one inductive invariant, `Core`
(theorem `CoreInvariant`): types, and the facts that tie a handler's stage to
the shared state — the map's entry for a device is a connection of that device
whose handler has registered and not yet unregistered; a handler that is
replacing another knows which; a handler about to unregister has its socket
closed. None of the others is inductive without it: for instance the guard of
Unregister would say nothing about the device if an entry could belong to
another one. `WgCounts` uses the finiteness of `Conns` and the
library's cardinality theorems; `CleanupBeforeDrain` follows from it, since a
wait group at zero means that nobody in `asked` is still counted. The only
assumption is `HubAssumption`.

`ServerProofs` first shows that every step of `Server` is a step or a stutter of
`Hub` (`ImplementsHub`), which carries the theorems of `HubProofs` over. Then
`RepliesTrue`: `ReaderInv` adds to `ReplyWasTrue` that between its two looks a
reader's history has kept up with the hub and that a stored `online` had its
reason. The query establishes this, and there it needs `StatusAgrees`: without
it the store might say `online` of a device nobody saw. `ReportsTrue`:
`ReportInv` adds that `waited` is set only while draining or stopped; that a
handler which has finished stays finished (`MovesOn`) is shown for each step of
the hub, and that an exact wait group at zero means none of `asked` is left is
`ZeroMeansFinished` of `HubProofs`.

`RateLimiterProofs` proves the invariants of `RateLimiter` and its refinement
of `TokenBucket`, from `LimiterAssumption`. Its essential conjunct is
`Burst <= Rate * TTL`: an evicted bucket would be full by now. It holds for the
three limiters of the code (5, 10 and 20 tokens at 1, 2 and 5 per second, ten
minutes). The window bound needs the strengthening that what was admitted in
the window plus the present level is at most a burst plus the refill.

It also covers `Requests`: every request is one step of the limiter or none
(`RequestIsStep`), so what holds of the limiter holds of the server
(`RequestsBounded`); and `CountedAsSent` holds for any status a handler may
write, by cases on how it ends.

`EventStreamProofs` rests on the pipeline of a stream: what it has written, the
event in hand, and its channel, one after the other. Taking an event off the
channel and writing it move it along without changing the pipeline; only Publish
adds to it, at the end. So "increasing, and exactly the events since the
subscription but the dropped ones" is kept for each stream by itself. It needs
the facts that tie subscription to the handler's stage, that a stream which has
not begun has nothing, and that drops lie in the past. For `BurstFits`, `drained` is the
last event that had been published when the channel was empty. Everything on the
channel is later than it (`SinceDrained`), since what is queued was published
after that moment; so when an event is dropped, the entries of the full channel
are `Cap` different kept events between `drained` and it, because the pipeline
is increasing (`SuffixCounts`, by an injection into the set of them). They stay
in the pipeline when they are taken and written, and when the channel is empty
again no drop is later than `drained`.

`DiagnosticsProofs`: the invariant says of each request that its row, its reply
and the stage of its handler agree, that the stored time is the clock's reading
cut to the store's unit, that it is on its way at most once and unanswered while
it is, and that what the admin was last shown still holds. The last two carry
`ShownMovesForward`, an action property: a completed request stays so because no
second answer can exist, and an expired one stays expired because the clock does
not go back. `TimeoutAccurate` is arithmetic on top, for any granularity.

`PaginationProofs`: between two pages the cursor divides the list; what was shown
is on its near side, what was there at the beginning is shown or beyond it. That
a page and its last row divide what is left (`PageDivides`) is shown for any page
size from the order of `(registered_at, id)`. The last row exists because a
finite set is well-founded under the order, which stands in for an induction
over the set. `NeverFed`: no row of the first page is stored later than the
moment of it (`opened`), and the cursor, being a row that was shown, never is
either (`CursorNotLater`); what lies beyond the cursor is not later than it.

`AgentProofs`: `NoNeedlessDevice` is not inductive. The strengthening (`Owed`)
is that a device which is not excused is in the state file or about to be
written there; with it goes that the agent registers only when it found nothing
to load (`NothingToLoad`). `SessionImplementsAgent` shows that every step of
`AgentSession` is a step or a stutter of `Agent`, which carries these theorems
over to the module its run checks.

`MigrationProofs`: in Postgres whoever is past the advisory lock holds it
(`LockHeld`), the recorded versions have no gap (`Prefix`), and the holder works
on the first one that is missing (`NextInLine`). In SQLite there is no lock:
another process may have gone ahead, and an instance may set `user_version`
back. There the invariant is instead that what an instance passed by is built
(`PassedIsBuilt`). An invalid index is being built or its build was cut short
(`InvalidExplained`). `OneMigrator` states what the lock is for.

Each of these invariants was model-checked on the instance of its component's
run before it was proved. The assumptions are the named `ASSUME`s of the
modules, which say no more than that bounds are numbers, capacities, page sizes
and units are not zero, and the sets that are counted are finite; in
`Diagnostics` also that the clock runs past the last timeout.

Only model-checked: the liveness properties, which are outside the prover's
reach; the properties that `AgentSession` adds to those of `Agent` are all of
that kind. The four expected violations are TLC's.

## Plan

Done: every module above, and a proof of every safety property that a run
checks. What remains is to prove more of what no run states by itself:

1. A refinement of the event stream by an abstract specification (a lossy queue
   for each subscriber), from the pipeline's invariant.
2. Safety facts that the liveness properties lean on: in `AgentSession`, that no
   send on the error channel can block; in `Hub`, that only a handler
   that is about to close it keeps a replaced connection's socket open.

## Not modelled

* Configuration: the environment is read once, before anything runs
  concurrently, and checked in straight-line code.
* Exporters, gauges and tracing: libraries, on which no decision of the program
  depends. Of the tracing flush only whether it is reached could be said.
* The agent's host statistics and flags: reads of the host's files.
* The wire format: type declarations and JSON; messages are members of small
  sets. Token signing and claims are a library's; a token is accepted or not.
* Heartbeat history and the scanning of rows: straight-line queries that no
  modelled decision reads.

A peer that vanishes without closing is modelled for event streams and, through
the heartbeat timeout, for the server's side of a device; on the agent's side
only a connection whose loss a read can notice is. SQLite is modelled for
several processes on one file only as far as `migrate` is concerned.
