# A TLA+ model of the load test server

The server answers gRPC calls that create *sessions* and, in a session, WebRTC
*peer connections*, and a background task collects the statistics of all peer
connections once per second. Everything is kept in two levels of
[DashMap](https://docs.rs/dashmap/4.0.2): `Data.sessions`, and
`Session.peer_connections` in every session. The calls and the collector are
tokio tasks that run in parallel on worker threads and share these maps; what is
hard about the program is what they do to one another there. The specifications
in this directory are written from the Rust sources under `src/src/`.

## 1. Inventory

| component | state | operations | interacts with |
|---|---|---|---|
| gRPC handlers (`handlers.rs`) | none of their own: a call's local variables, above all the `Ref`s it keeps | the 14 rpcs of `proto/webrtc.proto` | sessions, peer connections, pool, libwebrtc (awaits) |
| sessions map (`data.rs`) | `sessions: DashMap<String, Session>` | `add_session`, `get_session`, `call_session!`, iteration, `len`, `Debug` | handlers, collector |
| session (`session.rs`) | `state`, `start_time`, `stop_time`, `peer_connections`, the frame producer, the pool | `new`, `start`, `stop`, `add_peer_connection`, `get_peer_connection`, `get_stats`, `Drop` | log level, producer thread |
| metrics collection (`data.rs`, `session.rs`, `peer_connection.rs`) | `elapsed`, two nested iterators | one pass per second: `export_peer_connection_stats`, `export_stats` | both maps, libwebrtc (awaits), statsd |
| peer connection manager (`peer_connection.rs`) | `state` (bytes sent and received), three receivers of event channels | create/set SDP, add track, add transceiver, take a receiver, `set_send_state`, `set_receive_state` | libwebrtc |
| observer stream (`handlers.rs:346`) | the two receivers it has taken | forwards tracks and ICE candidates | libwebrtc's channels |
| WebRTC pool (`webrtc_pool.rs`) | a count per factory | `create_peer_connection_manager` picks the least used factory | handlers in parallel |
| session statistics (`stats.rs`, `helpers.rs`) | none | counts, tallies, elapsed time | session |
| log level (`log.rs`) | one level of the process | set by `Session::new`, reset by `Session::stop` | libwebrtc |
| statsd export, configuration, server start, errors | – | I/O and conversions | – |

What makes each of them correct, and what is hard to test:

* **Sessions and handlers.** A handler looks up a session, then a peer
  connection, and uses both across an `.await`, while other calls may create a
  session or a peer connection of the same id, start or stop the session. It has
  to answer for the data it looked up, and the calls as a whole should look as if
  each took effect at one moment.
* **Locks.** A shard of a DashMap is behind a reader-writer *spin* lock, and a
  `Ref` (or an iterator) keeps its guard for as long as it lives, also while the
  task is suspended. Nothing orders the shards, ids of two sessions may hash to
  the same one, and a spinning task does not give up its worker thread. `println!`
  adds a lock to these, that of stdout.
* **Collector.** It holds a session's shard and a peer connection's shard while
  it awaits libwebrtc, and it must come back to every session for ever, whatever
  one session or one peer connection does.
* **Statistics.** An answer's counts are taken in several passes over a map that
  other calls insert into.
* **Send and receive state.** "Sending" is decided from the difference of two polls,
  of whatever streams the peer connection has, at times that a late pass or a busy
  worker moves.
* **Observer stream.** It takes events from two bounded channels that libwebrtc
  fills and closes; `select!` abandons a receive whenever the other is ready.
* **Times.** Elapsed times are differences of a wall clock that can be set.
* **statsd.** Gauges are datagrams whose loss nobody notices.
* **Pool.** Parallel calls decide on counts that the others change.

`PROJECT.json` lists every hazard at its line, with the properties that watch it.

## 2. Modules

| module | what it is |
|---|---|
| `ServerData` | ids, calls, answers, sessions and peer connections; shared by the next two |
| `SessionService` | the abstract service: every call takes effect and is answered in one step |
| `LoadTestServer` | the detailed model: handlers, collector, shards, stdout and guards, workers |
| `LoadTestServerProperties` | the invariants, action properties, refinement and liveness properties |
| `MCLoadTestServer` | instances for TLC |
| `StatsExport` | one peer connection in the collector's passes: send and receive state, gauges |
| `MetricsInterval` | when the passes run and what `polling_state_s` means when they begin or end late |
| `EventStream` | the abstract stream: each event of a kind once and in order until the client leaves |
| `Observer` | the detailed stream: channels, `select!`, the task and its budget, a client that leaves |
| `SessionTimes` | start, stop and elapsed time over a clock that is set |
| `WebRTCPool`, `MCWebRTCPool` | the choice of a factory by parallel calls |
| `LoadTestServerProofs` | the inductive invariant `Inv`, type and lock theorems |
| `LockOrderProofs` | the one circle of waiting tasks, and somebody who can go on outside it |
| `ServiceProofs` | what a task uses stays as it is, so counts are consistent and calls take effect at once: `LoadTestServer` implements `SessionService` |
| `StatsExportProofs` | types and gauges, for any streams |
| `ObserverProofs` | `Observer` implements `EventStream`, and which events are missing |
| `SessionTimesProofs` | types of the times, elapsed time and final stats |
| `MetricsIntervalProofs` | polls keep pace, and a steady sender is seen |
| `WebRTCPoolProofs` | parallel calls share out the factories |

`LoadTestServer` composes the handlers, the collector and the data they share. The
other components meet it in one place each, and are modelled on their own to keep
both checkable: `StatsExport` and `MetricsInterval` refine what its `ExportStats`
leaves open (which state, when), `Observer` begins where its `Observer` action has
handed out the receivers, `SessionTimes` adds times to its `StartSession`,
`StopSession` and `GetStats`, `WebRTCPool` is the choice in its
`CreatePeerConnection`. That an action of these modules is one step is justified by
the guards of `LockDiscipline`: the collector has a write guard on the peer
connection during `ExportStats`, and `get_stats` one on the session.

### LoadTestServer and the code

*Tasks.* `Requests` are the tasks that serve calls, one call at a time; a client
may make any call with any ids at any time (`Call`), which is what the server has
to cope with. `Metrics` is the task of `start_metrics_collection`.

*Places.* `at[t]` names where a task is. A handler goes from `begin` (look up the
session) to `peer` (look up the peer connection) to `await` and `resume`;
`get_stats` through `len` and `tally`; `create_session` through `new` and
`insert`; `add_track` starts at `stdout` and `print`, because
`println!("{:?}", self.data)` takes the lock of stdout and, while it keeps that,
guards on both maps, and it passes `past` between `peer` and `await`, where it
prints again with the guards of both lookups. The collector goes from `sleep` to `shards`,
`sessions`, `peer_shards`, `peers`, `await`, `resume` and back, then to `count`.
What a task does between two requests for a shard is one step: nothing else
touches the data it has a guard for, and outside the guards it only changes its
own variables.

*Guards.* `hold` is the set of guards on shards, and on stdout, which is a lock with
writers only. Each request for a shard in the
code has an operator of its own (`SessionRef` for `Data::get_session`,
`SessionRefAgain` for the second lookup of `create_peer_connection`, `SessionRefMut` for `call_session!`, `PeerInsert`, `MetricsPeerRefMut` for
`iter_mut`, and so on). `Granted` is DashMap's lock: readers pass unless there is
a writer, a writer needs the shard to itself, and nobody queues. An iterator takes
the guard of the next shard before it drops the one it has. Guards are dropped
when a handler returns (`Finish`), also when its client has reset the call and the
handler is dropped at its await (`"cancelled"` in `ResumeRequest`), and when the
collector unwinds in a panic (`MetricsSession`).

*Workers.* `running` are the tasks on a worker thread, at most `Workers` of them.
A task leaves its worker only at an await or at its end; waiting for a shard or for
stdout is not a suspension. `Callback` is libwebrtc completing a future.

*Data.* A session is told apart from a later one of the same id by `born`, the
call that created it. A peer connection is whether it is sending and whether its
receivers were taken. `producers` are the sessions whose frame producer thread
runs: `Session::new` starts it before the session is registered, and dropping a
session cancels it. Dropping a replaced session happens in the step of the insert.

*Abstractions.* `get_stats` tallies the receive states in the loop that tallies the
send states; only the latter are kept here, and both are in `StatsExport`. SDP, tracks and transceivers are libwebrtc's; a call into it
can succeed or fail. The pool only succeeds or fails here; its choice is in
`WebRTCPool`. The second read guard of `create_peer_connection` is waited for like any
other, but `hold` is a set: once granted it is one with the first, with which the
code drops it. The first `println!` of `add_track` keeps no guard, so it is waited for
together with the second, and the third one's lock is taken and given back in one
step (`PrintPast`), as nothing is waited for in between. The logger of the process
(`pretty_env_logger`) formats a line before it writes it, to stderr, so no task waits
with its lock.
Shards of the DashMap in which no id of the model falls are not visited, as nobody
holds them. The `info!` lines that print a session while it has a write guard take
shards of its peer connections that nobody can hold then. `elapsed` is kept modulo
`Period`, a multiple of all polling values, because only `elapsed % polling` is
used.

### The other modules and the code

*StatsExport.* `bytes` are libwebrtc's counters, `report` the stats a pass got
(`GetStats`; a failing pass is a stutter), `pending` what its two loops are still to
look at. `ExportStats` is one iteration: `set_receive_state` or `set_send_state` if
the pass polls, then the gauges, which arrive or are lost together.

*MetricsInterval.* `now` counts fractions of the second of the interval, and `Time`
passes anywhere: in a pass, with its spinning and its awaits, and between passes, when
the task waits for the timer and, once its tick is due, for a worker thread. A pass
begins with `IntervalTick`, at or after the instant `due` (the first tick is due at
once and awaited before the loop), visits the session at some instant (`ExportStats`) and ends with `EndPass`,
where `elapsed` goes on or starts again; `late` remembers whether the next tick was
due by then. `NextDue` is tokio's default for missed
ticks. The sender sends at every instant, so its bytes are a function of `now`.

*Observer.* `channel` are the buffered events of tokio's bounded channels. `Emit` is a
callback of libwebrtc: an event that finds its channel full is refused, and remembered
in `refused`; what libwebrtc does then is not this repository's. `Recv` and `RecvNone` are
the two arms of each branch of `select!`, `Suspend` its wait. A channel whose senders
are gone is always ready, with `None`, and the loop of the stream does not end then.
That its task still leaves its worker is due to tokio's cooperative budget, which
every receive uses up. Only between two polls can hyper drop the stream
(`ClientLeaves`).

*SessionTimes.* `Elapsed` is `helpers.rs` with `None` for a failed `duration_since`;
`SessionStats` shows it as 0. `ran` counts the time the session was started
independently of the clock.

## 3. Runs

All bounds are constants of the configuration. With two clients there are three
tasks, enough for each hazard: one that keeps a guard, one that spins for it and
one that intervenes; the deadlock of `prints` takes exactly two calls and the
collector. `MaxCreates` says how often each client may create a session: once each
(`EachCreates`) where a session is to be replaced while another task uses it, or one
of them once (`OneCreates`) where two peer connections make up for it. `Period` is the
largest polling value. Calls that behave alike for the model are represented by one
(`create_offer` for the five other rpcs that await; `add_track` differs by its prints).
In `liveness`, `add_track` stands for them too: it awaits with the same guards, after
asking for more locks than any other call. That `start_session` needs a worker to be
served is the question of `few_workers`.

| run | shows |
|---|---|
| `peer_shards` | two peer connections in two shards, all calls but those of the next run: `LockDiscipline`; the counts of `get_stats` are those of one moment (`StatsSnapshot`, `LinearizableService`); `UsedDataStable` |
| `session_shards` | two sessions in two shards, replaced while prints and collector iterate over them, and receivers taken: `UsedDataStable`, `LinearizableService` |
| `liveness` | with a worker for each task, two peer connections in two shards and the prints of `add_track`: types and guards; the print circle is the only one (`OnlyPrintsDeadlock`), and whoever waits outside it waits for a task that goes on (`SomeoneProceeds`); but for that circle every call is answered once clients pause, also after the collector's panic on `polling_state_s = 0`, which leaves no guard behind, and the stats of both peer connections are collected for ever as long as no session polls every 0 seconds |
| `stats_export` | two video senders and a receiver: statsd has the counters of the last pass that were not lost |
| `observer` | `Observer` implements `EventStream`; no event is missing but those refused; events reach the client and the worker is released, with or without the peer connection |
| `session_times` | elapsed times are the time run unless the clock was set meanwhile; stats of a stopped session are final; nothing wraps around |
| `interval` | passes that begin late or take long never let the polls fall behind; passes that end before the next tick is due see a steady sender as sending |
| `pool` | parallel calls leave the counts of two factories at most as far apart as there are calls |
| `few_workers`, `prints`, `zero_polling`, `two_senders` | disagreements of code and documents, below |

Symmetry of the request tasks is used in `session_shards` only, which has no liveness
properties and clients that are alike. Deadlock checking is off in `few_workers`, `liveness` and
`prints`, where the server can really stop (for want of a worker, or in a print
circle; the liveness properties of `liveness` are those of the behaviours without
one), and where a bound ends the run: the counts of `pool`, the events of
`observer`, the time of `interval`. It is on in `peer_shards`, `session_shards` (one
shard of peer connections, so no print circle) and `zero_polling`.

Bounds of the smaller modules. Two events fit a channel and three happen, so channels
overflow, and a budget of two lets a task be suspended with an event left, and use up
its budget on a closed channel. A clock of five half seconds has times that differ by
less than, exactly and more than a second, and a session that runs over a change of
either direction. Two bytes per stream let counters grow, stand still and be passed
by another's. Fourteen half seconds let a tick wait or a pass last over several ticks,
catch up and be late again; polling every second and every two
seconds covers passes that poll and passes that do not.

`LinearizableService` says that `LoadTestServer` implements `SessionService` under
the identity mapping of the variables they share: every call takes effect at the
step in which its handler answers or changes the map, on the data of that moment.
This is not obvious for `get_stats` (two passes) and for calls that answer after an
await: it holds because of the guards they keep.

### Fairness

`Run` and `Callback` are weakly fair: tokio runs a ready task when a worker is
free, and libwebrtc answers. The steps of a handler and of the collector are
*strongly* fair: a task that spins retries without pause, and a shard that becomes
free again and again is found free at some time. The collector sleeps one second
between passes, so it does not keep a shard busy. What strong fairness cannot
excuse is a shard that is never free: readers pass waiting writers, so overlapping
calls can keep a writer out for as long as clients like. The liveness properties
therefore assume `ClientsQuiet`: from some moment on clients make no new calls. No
class of calls can do without it: a collector that is kept waiting keeps its write guard
on peer connections, and those who only read them wait with it. There is no
fairness on `Call`. The lock of stdout is a mutex that tokio's workers block on; a task
that waits for one keeps its worker just as one that spins.

The liveness properties also assume `NoPrintCircle`, that the deadlock of `prints` does
not happen; `OnlyPrintsDeadlock` and `SomeoneProceeds` say that no other one can.
`StatsCollected` asks that the collector comes to *and leaves* each peer connection
again and again (`Collecting` is the await of that one's stats), so one that is stuck in
a session, spins for ever or awaits the same peer connection over and over
(the mutant `ExportStats_Retried`) fails it.

In `Observer`, waking the task and polling the stream are weakly fair, as tokio runs a
task that is woken. Taking an event is strongly fair for each channel: `select!` starts
from a random branch, so a channel that has an event in poll after poll is chosen at
some time. libwebrtc need not emit anything and the client may leave or stay.

### Disagreements

1. `few_workers` (`handlers.rs:199`): handlers keep guards across an await. If as
   many tasks spin for those shards as there are workers, the awaiting handler can
   never be resumed, and nothing is answered any more, although `README.md:117`
   says that a created session can be started.
2. `zero_polling` (`data.rs:70`): `elapsed % 0` panics in the collector, and no
   stats are collected any more, of any session. Zero is the default that the
   documented call of `README.md:113` sends.
3. `prints` (`handlers.rs:292`): one `add_track` waits for stdout with the guards of
   its session and peer connection; another one has stdout and, printing all data,
   spins for a shard of peer connections (`handlers.rs:289`); the collector has that
   shard and spins for the one the first keeps (`session.rs:143`). With a worker for
   each of them, nothing goes on and the stats of `README.md:150` are not collected.
4. `two_senders` (`peer_connection.rs:281`): the state keeps one number, so with two
   video senders the bytes of one are compared with those of the other, against the
   rule at `peer_connection.rs:279`. With one stream of a kind the rule is the
   assignment itself and needs no check.

What the models also show, without a run of its own:

* `data.rs:43`: a session of the same id is replaced and dropped, whatever its state
  (`InsertSession`), while `data.rs:26` says that past sessions are kept.
* `session.rs:272`: readers pass a task that waits for a write guard, so overlapping
  calls that keep a session's shard across their awaits can keep `start_session`
  waiting for ever, even with a worker for every task: the reason for `ClientsQuiet`.
* `session.rs:137`: `drop(self)` drops a reference. The producer thread and all else a
  session owns stay until a session of the same id replaces it (`StopSession` leaves
  `producers` alone), although `README.md:136` says that resources are cleaned up.
* `peer_connection.rs:76`: nobody receives connection states (`Channels` of `Observer`
  has a kind outside `Kinds`), so no size of that buffer is enough.
* `helpers.rs:12`: a clock set while a session runs makes its elapsed time wrong, or 0
  when it goes back behind the start, which `ElapsedIsRunTime` has to exclude.
* `data.rs:63`: after a pass of a second or more the next passes follow in a burst, two
  polls see the same bytes, and a peer connection that sends all the time is shown as
  not sending, which `SteadySenderSeen` has to exclude.

## 4. Proofs

Every safety property of a passing run is also a theorem, and so are both
refinements. The theorems hold for any sets of clients, sessions and peer connections,
any assignment of ids to shards, any number of workers, and in the smaller modules for
any period, clock, capacity, number of factories and so on. They rest on the named
assumptions of the modules only: the bounds are natural numbers, the peer connection
ids and the calls on a pool are finitely many, `None`, the name of the sessions map and
the collector are distinct from the ids and tasks, and `Period` of `LoadTestServer` is a
multiple of each non-zero polling value. TLC evaluates the assumptions, and has found
each inductive invariant to hold on the instances of the runs before it was proved.

* **`TypeCorrect`, `LocksDisciplined`** (`LoadTestServerProofs`). The inductive
  invariant is `Inv == TypeOK /\ LockDiscipline`. `LockDiscipline` gives for every
  place the exact guards a task holds there, the data it relies on, what iterators
  have left, and `Exclusion`. It is what makes types inductive: that the
  collector's write into `peer_connections[s][p]` hits a record follows from its
  guards. A step concerns one task; that the *others* keep their part is
  `RequestFrame` and `MetricsFrame`, from `DataKept`: sessions stay registered,
  and peer connections of a session somebody has a guard for do. Only
  `InsertSession` has to earn `DataKept`, by its write guard.
* **`LocksAcyclic`** (`LockOrderProofs`): `OnlyPrintsDeadlock`. A suspended handler waits for
  nobody; `get_stats` with its write guard on the session waits for nobody, because
  the collector would need a guard on that session to stand in its way; an `add_track`
  that prints all data waits for these or for the collector, whose write guard is the only
  one a reader can meet besides. The collector waits for readers of peer connections, and
  the shard it asks for next is never the one it has: all of these are on their way to
  an answer or at an await, but the `add_track` at its second print, which waits for
  the one that has stdout. So a set of tasks that wait for one another contains
  the collector, an `add_track` at its second print and one that prints all data, and
  they wait for one another: `PrintCircle`. Any other handler that holds a guard
  waits for one of these.
* **`NoneStuck`** (`LockOrderProofs`): `SomeoneProceeds`. Among tasks that all spin, and no
  print circle, one waits for nobody of them, by `LocksAcyclic`, so it waits for a task
  outside; that this one executes or is at an await is `GuardsOnWorker`, an invariant of
  its own: a task off its worker keeps guards only there. Each step is that of a task
  which gains guards on its worker, or gives the worker up at an await or with no guard
  left. With the guards of `LockDiscipline` this is as much of "no deadlock" as can be
  said without fairness. It leaves three ways to block: the print circle (`prints`), a lack of
  workers (`few_workers`), and calls without end that keep overlapping guards.
* **`DataStable`** (`ServiceProofs`): `UsedDataStable`. Whatever a task uses is
  under a guard of its own (`UsedSessionGuarded`, `UsedPeerGuarded`), and each step
  that changes data needs a guard that conflicts with it.
* **`StatsConsistent`** (`ServiceProofs`): `StatsSnapshot`. `StatsSnapshot` only speaks of
  answers; the invariant needs what a handler has counted *so far*. `CountsOK` says
  that this is the number of peer connections in the shards its loop has left behind,
  and in the second pass also that the first one's result is still the number of all
  of them. A step of the handler adds one shard (`PassedNext`); a step of anybody else
  leaves the counts true because of `DataStable` (`ServesFrame`).
* **`Linearizable`** (`ServiceProofs`): `LinearizableService`, one lemma per action. A step
  that answers or writes a map is the step of `SessionService` for that call, every other
  step is hidden from clients. Besides `Inv` and `CountsOK` (for `StatsReply`) this
  takes two facts: `RequestDataOK`, so that a call resumed after its await is answered for a
  peer connection that is still registered, and that `ExportStats` and the insert of a
  peer connection meet one of a registered session; and `OnlyRegistered`, so that
  an `observer` call refused for want of a session is one whose peer connection does
  not exist.
* **`GaugesFollow`** (`StatsExportProofs`): `GaugesCurrent`. The gauge of a stream is that of the
  report once it is not pending, and a stream that is no track yet has no bytes anywhere.
* **`StreamKeepsPromise`** (`ObserverProofs`): every step of `Observer` is a step of
  `EventStream` or invisible to it, where `waiting` is the buffers of the two channels
  that are read. The invariant needed is that a task polls the stream only while it
  is open. **`NoneMissing`**: what a client got followed by what waits grows only at its
  end, by a number above all others (`AppendNext`), and a receive does not change it
  (`MoveHead`).
* **`TimesTyped`, `ElapsedRight`, `StatsFinal`** (`SessionTimesProofs`): no difference is
  taken where it could wrap around, as `Elapsed` refuses those; while the clock is left alone
  the distance of the times a session has noted is the time it ran (`RunOK`), and an
  answer given after the stop is the one still to be given (`AnswerOK`).
* **`PaceKept`, `SteadySeen`** (`MetricsIntervalProofs`): `PolledInTime` relates three
  counts: `elapsed`, which counts passes, lies between two multiples of `polling`,
  those of the last and of the next poll (`NextMultiple`), and the tick that is due is at
  most `Ticks` periods after the session was added. The one exception, a session added
  to a shard the first pass had left already, is made up for by its being there
  before the next tick (`FirstPassMissed`); without it the invariant is not inductive.
  While no pass was late, the bytes of the last poll are those sent before the tick that
  is due next (`SteadyOK`), however long the pass before had waited for a worker, and
  the next poll comes after that tick, when the sender has sent more. In the burst after
  a late pass this breaks, which is why `late` is part of the property.
* **`SharedOut`** (`WebRTCPoolProofs`): `Balanced` is far from inductive, as a call that
  has chosen an item on old counts will still raise it. `FewAhead` counts those calls: if `g`
  is at `m`, the calls that have passed over `g` for a factory that is at `k > m` or more
  are at most the number of calls less `k - m`, or none. A `FetchAdd` that raises the
  difference is one of those calls and stops being one. That a loaded count can only
  be too low (`LoadedOK`) keeps a new call from passing over `g` wrongly.

Only model-checked: the liveness properties `CallsAnswered`, `StatsCollectedUnlessZero`,
`EventsReachClient` and `WorkerReleased`. They rest on fairness, whose
formulas contain `ENABLED`, which the proof system does not support.

## 5. Not modelled

* What libwebrtc does with SDP, tracks and transceivers, and the frame producer's
  thread (`file_video_source`): only that a call succeeds or fails, and whether the
  producer runs.
* Configuration, binding the socket, deployment files: read once or pure I/O.
* The wording of errors and answers, log lines, metric names and tags.
* Counters of a stream other than its bytes: written by the same code, read by none.
* What becomes of a panic in `file_video_source` (`peer_connection.rs:203`): for the
  client it is a failed call, as in `NewSession`.
* Hazards without a property: whether the count of a factory should go down
  (`webrtc_pool.rs:86`), whose log level wins (`session.rs:84`) and whether a producer
  that is dropped without `cancel` goes on (`session.rs:87`) is said nowhere; that `stop`
  leaves the producer running (`session.rs:137`) is the bare absence of an assignment.

## 6. Plan

All safety properties of the runs are proved. Left for proofs: that in `SessionService`
itself a peer connection has one observer at most and a session's state only goes
forward until the session is replaced, which `Linearizable` then carries over to
`LoadTestServer`; that `ExportStats` of `LoadTestServer` writes only what `StatsExport`
may decide.
