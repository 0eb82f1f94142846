# TLA+ verification of the market-systems workstation

The workstation captures exchange market data without losing continuity,
records it with enough evidence to be replayed bit for bit, and runs research
and execution studies on the recordings. Its core promise is about *evidence*:
a book, a recording or a result is either exactly what the exchange did, or it
says that it is not. These modules state that promise for each part and check
or prove it.

## 1. Inventory

| Component | State | Operations | Talks to | What is hard | What makes it correct |
|---|---|---|---|---|---|
| L2 book (`market_data/l2_order_book.py`) | two level maps, last update id | clear, install_snapshot, apply, validate | synchronizer, replay, simulator | validation raises after the change | content equals the exchange's at its id |
| Depth synchronizer (same file) | state, buffer, book | reset, ingest, install_snapshot | L2 book, capture | lagging snapshots, gaps while bridging, limits | exact book, no update lost, live only when drained |
| L2 capture (`market_data/l2_capture.py`) | client thread, bounded queue, per symbol: synchronizer, pending snapshot, writer | WebSocket callbacks, `synchronize`, `on_depth`, `on_trade`, main loop, shutdown | exchange, REST, `L2Writer` | two threads, REST in flight, reconnects, overflow, interrupts, bounded join | recording rebuilds the live book; completeness is never claimed wrongly; it ends |
| L2 recording (`recording/l2.py`) | two streams, counters, sidecar | write, write_checkpoint, finalize, abort, read | capture, replay, research | crash or failure inside finalize, mixed files | what reads as complete is one whole recording |
| L2 replay (`cli/verify_l2_replay.py`) | a book | replay | recording | stop markers, checkpoints at the right index | accepts exactly the faithful recordings |
| Native L2 book and synchronizer (`native/.../L2OrderBook.hpp`, `L2Synchronizer.hpp`) | as above, two book layouts | as above | bindings, benchmarks | parity with Python | same results as Python |
| SPSC ring (`native/.../SpscRingBuffer.hpp`) | slots, head, tail | push, consume_batch, reset | engine, recorder | lock-free, index wrap-around | a race-free bounded FIFO |
| Top-of-book recorder (`native/.../TopOfBookRecorder.hpp`) | queue, counters, markers, two streams | start, record, mark, stop, writer loop | engine, feed | three threads, drops, failing streams | losses are marked; completeness means on disk |
| Ingestion engine (`native/.../MarketIngestionEngine.hpp`) | life-cycle state, worker thread, counters | start_live, start_replay, stop, consume_batch | feed, replay, recorder, Python | stop racing completion, single consumer | one producer, one consumer, counters of one session |
| Book-ticker feed (`native/.../BinanceBookTickerFeed.hpp`) | connection, last id | run, request_stop | engine, recorder | cancellation racing registration | ids increase; stop ends the thread |
| Top-of-book replay (`native/.../TopOfBookReplay.hpp`) | file position | run | engine, ring | back-pressure against stop | lossless or reported |
| Top-of-book reader (`recording/top_of_book.py`) | none | read_metadata, validate, contiguous_slices, feature_reset_indices | research, replay, UI | which companions must exist, where history ends | interrupted never reads as complete; no segment spans a loss |
| Features (`market_data/microstructure.py`, `research/l2_features.py`) | rolling histories | build a recording, update one record, reset | readers, research, live monitor | two builders of one row, resets | no history or label spans a gap; live rows are the trained ones |
| Execution simulator (`execution/simulator.py`) | orders, book, queue positions | submit, cancel, run | recording, strategies | latency, events of one instant | quantities conserved, no fill without liquidity |
| Research (`research/core.py`, `research/l2_pipeline.py`) | artifact sets on disk | split, fit, evaluate, publish, find earlier reports | features, UI, CLI | leakage over splits, failures between renames | no look-ahead; holdouts are remembered; a report has its files |
| Sensitivity (`execution/sensitivity.py`) | none | load orders, verify provenance, run grid | simulator, artifacts | files replaced between two reads | evidence of one training only |
| Workstation (`ui/app.py`) | session and training threads, event queue, buttons | start, stop, train, poll, close | engine, research | a thread's last event and its end are two moments | one training; no session abandoned; a closing window closes |
| Other UI and CLI (`ui/*`, `cli/*`) | widgets | load, draw, drain | all | draining loops | nothing is left behind |

Interactions. The WebSocket thread calls back into a bounded queue; the main
thread takes from it and calls synchronizer, REST and writer in turn. The native
feed thread pushes every record into two rings, one drained by Python and one by
the recorder's writer thread; the engine starts and joins both threads. Files
are the only state shared between capture and everything that reads it later:
the sidecar of a recording and the report of a training are what makes the
other files count. The workstation runs engine sessions and trainings on threads
that talk to Tk's main thread through one queue.

## 2. Plan

Order: evidence first, then the parts that consume it. Modelled and checked:

1. `L2OrderBook`, `DepthSynchronizer`, `ExchangeMirror` (also proved).
2. `L2Recording`, `L2Capture`, and `L2Features` on what a capture publishes
   (`CapturedFeatures`); `RecordingFiles` for the files themselves.
3. `BoundedFifo`, `SpscRingBuffer`.
4. `TopOfBookRecorder`, and on its files `TopOfBookReader` and
   `TopOfBookFeatures` (`RecordedEvidence`).
5. `IngestionEngine` with feed and replay as producers and Python consumers.
6. `ExecutionSimulator`.
7. `HoldoutSplit`, a pure algorithm, and `ResearchPipeline` around it.
8. `Workstation`.

Every invariant and every action property of these modules is proved (section 5);
liveness is checked only.

Parameters are CONSTANTS with named assumptions in the declaring module, each
operation is one action, and no module uses a RECURSIVE operator: loops over a
sequence are recursive functions on its positions (`AppliedEvents`, `ReplayAt`,
`RecordAll`), which the provers can unfold one step at a time.

## 3. Modules

**L2OrderBook.** The exchange numbers every change of its book. A local book is
the *set of ids whose effect it holds* plus the id it claims. The book that is
right at id n holds exactly `1..n`. `Unsound` is the set of ids at which
`validate()` would reject the exchange's book. `Exact(b)` is the reference.

**DepthSynchronizer.** The object is a record; each method is an operator from
the object to the object, its result and the applied events; an exception is the
result `"raised"` with the object as the raising line leaves it. The loops of
`install_snapshot()` are written as what they select: `Retained` is the buffer
after the stale prefix is popped, `Consumed` the number of pending events before
the loop stops, `Leftover` what returns to the buffer.

**DepthSynchronizerSpec** lets any caller call any method with any update range
(this is loss, duplication and reordering) and any snapshot id. `InstallCall` is
enabled only when the object is not live: `SymbolCapture.synchronize()` returns
at once without buffered events, and a live object has none (`LiveMeansDrained`).
Nothing is called after an exception, because `capture()` leaves its loop.
It implements **ExchangeMirror**: while the book is shown live it is a prefix of
the exchange's history and only grows until it is given up.

**L2Recording.** A recording is its sequence of events; `Replay` is the loop of
`verify_l2_replay.replay()`; a state hash is the book it fingerprints.

**L2Capture.** `thread` and its actions are `CombinedStreamClient.run()` with its
callbacks (`Opens`, `Closes`, `Publishes`, `Malformed`, `Trades`, each ending in
`Emit`, the non-blocking put). The main thread is `pc`: `running` in the loop,
`fetching` while `synchronize()` waits for REST, `joining`, `finalizing`, `done`.
A handler is one step except at the REST request, the only place it waits:
there the client thread and the exchange go on, and an interrupt or an HTTP
error may come instead of the answer. `fetch_snapshot()` may answer with any
state the exchange has been in, because replicas lag. The recording of each
symbol is what `Replay` reads, so live book and file are compared directly.
`InterruptsInside` adds Ctrl-C between `ingest()` and `_record_applied()`.

**L2Features** is the loop of `build_feature_set()`: which events the history and
the label of a row hold. **CapturedFeatures** applies it to every recording
`L2Capture` can publish, so `RowsAreContinuous` speaks of rows research really gets.

**RecordingFiles.** The writer is its `step` in `L2Writer`'s methods, and every one
of them may fail, be interrupted or be the last, `write_checkpoint()` also between
its list of checkpoints (`listed`) and the counters. What was flushed is any cut of
what was written (`Cut`), the last record torn. A second
writer that fails on the same path takes the first one's files with it
(`RivalFails`). `Verdict` is `read_metadata()`: every test it makes, in the terms
of identities, counts, indices and digests. `Accident` cuts or loses a file, or
puts one of an earlier recording in its place.

**BoundedFifo** is the promise of a single-producer single-consumer queue;
**SpscRingBuffer** is the class at the grain of one atomic access or one slot
copy, with indices modulo `IndexRange`. A slot being copied holds `Torn`.

**TopOfBookRecorder.** Feed thread (`feed`: inside `record()`), writer thread
(`writer`: inside `writer_loop()`) and controlling thread (`control`: the engine's
and the recorder's `stop()`). Its queue is used through `BoundedFifo`'s own
actions, which the ring implements. A record is its arrival number. There are two
streams, the records (`file`) and their update ids (`idFile`). `writer_loop()` tests
both after the writes of a batch and `stop()` each after its last flush; either may
fail by itself, at a record or inside one (`torn`), while the other takes everything.
**TopOfBookReader** is what `recording/top_of_book.py` accepts and where it cuts;
**TopOfBookFeatures** the rows the batch builder makes of a segment and those
`OnlineFeatureBuilder` makes of the same records one by one; **RecordedEvidence**
applies both to the files of the recorder at every moment.

**IngestionEngine.** Three kinds of threads: the worker (`worker`: its place in
`BinaryReplay::run()` or `BinanceFeed::run()` and in the end of `run_replay()` or
`run_live()`), the owner, whose `script` is the loop every Python client runs, and
other threads that may make any call at any time. A call is `op`, its place `at`;
it takes `lifecycle_mutex_` (`lifecycle`), `consumer_lifecycle_mutex_` alone
(`excluder`) or shared (`readers`) and the consumer flag as the code does. The
interpreter lock is a lock of its own: `start_*()` and `last_error()` hold it to
their end, `stop()` and `consume_batch()` release it and take it back before they
return. Where the code tests a flag and then acts (`running_` before a push, the
state before `completed`), test and act are two steps. A consumer copies and then
releases, as `SpscRingBuffer` does. A file is its sequence of record qualities;
one that cannot be opened behaves as one whose first record is invalid. The state
`starting` is skipped: `start_*()` holds the lock from there to the next one.
The live worker follows the loop of `BinanceFeed::run()` (`check`) and, call by call,
`run_session()`: `resolve_with_timeout()` (`resolve`), `connect()` (`dial`), the
handshakes, `read()` and `close()`. `socket` is what `request_stop()` finds: it shuts the socket that is open
then, and no later one; `missed` remembers that it found none.
`got` and `asked` are history.

**ExecutionSimulator.** The program is sequential, so what has to be right is
every order of controls and events. `pc` is the place in `run()` and one
iteration of an inner loop is one step: expiry, the activation of the next order
(`RejectNext`, `TakeNext`, `RestNext`), one level of the walk of an aggressive
order (`TakeLevel`), one cancellation, one resting order moved by a trade or by a
depth decrease (`Advance`). The invariants thus hold inside the loops too. The
recording is any sequence of boundaries, snapshots, updates (fresh, stale or
beyond a gap) and trades the capture can write; its timestamps go back after a
snapshot, because a snapshot is stamped when its download returns and what was
heard meanwhile is recorded after it. The sum over the own orders ahead in a queue is the number of their units.
`submitted`, `sent`, `session` and
`placedIn` are history: they change nothing and let the properties look back.

**HoldoutSplit** has no state. The data is the number of feature rows of each
session. `Split` is `make_chronological_split()`: whole sessions by the best
score, or rows with a purge behind both boundaries; `Folds` the walk-forward folds;
`Evaluations` what any model is fitted, tuned and scored on; `Trades` the loop of
`strategy_trades()` for any set of signals, `Delayed` the latency stress.

**ResearchPipeline** is `train_and_evaluate()` and `run_experiment()`, told apart by
`program`: evaluation is one step, because nothing outside can see inside it, and
publication is one step per file operation (`BacksUp`, `Commits`, and the steps of
the rollback). A file is the number of the training that wrote it, so a mixed set
is visible as two numbers; `unremoved` is history, the files whose removal failed in
a rollback. The study of `execution/sensitivity.py` reads the
predictions in one step and verifies them in another, while trainings go on.

**Workstation.** The main thread runs one handler at a time; inside the poll each
event is a step. A thread reports (its last event is in the queue) and dies in two
steps, and `is_alive()` is true between them. `stale` and `late` are history.

## 4. Runs

| Run | Bounds | What it shows |
|---|---|---|
| `synchronizer` | ids 1..5, buffer of 3, one unsound id | the book is exact, nothing buffered is lost, refinement of `ExchangeMirror` |
| `capture` | 1 symbol, ids 1..5, the last unsound, queue 2, checkpoint every 2, 2 snapshot attempts, 2 connections, 1 trade, history and horizon 1 | recording and live book agree through every interleaving, checkpoints hold, the loop ends its work, and no row spans a gap |
| `capture_two_symbols` | 2 symbols, ids 1..3, interrupts at every step, fair | completeness across recordings that are finalized one after the other; the capture ends |
| `capture_verifies` | finding | a complete recording fails `verify_l2_replay` |
| `recording_files` | 3 events and the stop marker, an earlier recording with the same counts, 2 accidents | complete is one recording, published is accepted |
| `ring_buffer` | 2 slots, indices modulo 4, batches up to 3, 3 values | no race, wrap-around safe, refinement of `BoundedFifo` |
| `recorder` | queue 2, batch 2, 5 arrivals, 2 recordings, either stream failing anywhere, history and horizon 1, fair | no segment spans a loss, the reader agrees with the recorder, online rows are offline rows, `stop()` returns |
| `engine` | 2 threads, queue 2, batch 2, 2 sessions, 5 files, 2 messages, 1 reconnect, 1 call by the second thread, fair | copies stay valid, replay is lossless, the end is reported as it was, and every call returns, or is held by a silent peer that a stop came too early for |
| `simulator` | 2 of 5 orders (resting, expiring, market, crossing, sell), 1 cancellation, 4 events, instants 1..3, a book of 4 prices | deadlines, cancellations, displayed depth, sessions, position limit and kill switch are respected at every step, and every order settles once |
| `research` | every market of up to 4 sessions of 1..4 rows and six longer ones, horizons 1 and 2, warm-up 1, partitions of 2; on one market 3 trainings under 2 names, 2 failures | no look-ahead, no overlapping trades, remembered holdouts, rollback, and which files can be beside a report after any failure |
| `research_partial_set` | finding | an interrupted overwriting leaves a report without its files |
| `workstation` | 3 sessions, 2 trainings, fair | serialized training, no abandoned session, the window closes |

Why the bounds are enough. Five ids allow a snapshot behind, inside and ahead of
two or three buffered ranges with a gap between them, and a full buffer. In the
capture a queue of two overflows while a snapshot is awaited, and two connections
put a boundary, or its loss, between any two updates; a gap needs three updates
and its repair a fourth. Three updates behind a snapshot are a feature row with a history
and a label, and of five ids the fifth can then be the unsound one; malformed messages
are in `capture_two_symbols`. A ring of two slots is full, empty and wrapped within
four pushes. Five arrivals fill a queue of two and a batch of two with one to
drop. In the engine three records pass a queue of two, so a replay waits for room;
a second session shows what the first left behind, and one foreign call is enough
to overlap any two calls. Two recordings show what leaks from one to the next. Four
events are a snapshot, what fills or refreshes, a boundary or a second snapshot, and
what follows it; two orders meet in one queue, at one level of the book or at the
position limit; three instants place each control before, at or after an event.
A recording of three events has a first, an inner and a last record to tear, and
an earlier one with equal counts cannot be told by them. Four sessions are the
fewest with a fold before a holdout, and their sizes 1..4 lie on both sides of the
minimum; the longer markets reach the split by rows in one, two and three
sessions. Three trainings are one to publish, one to overwrite it and fail, and
one to look for what is left; two failures let a rollback fail, and show an old report
beside a new file until the rollback ends; that they stay together takes a third, which
the proof covers. Three sessions of
the workstation are one that ended, one that is taken for it and a third beside.

Deadlock checking is off where the system may stop: the exchange has no more ids,
the capture has returned, the bounds on sessions or trainings are reached.

Fairness. `CaptureEnds`: weak fairness of the steps of the main thread that
need nobody else (the REST request ends, because it has a timeout; shutdown goes
on, because `join` has one), strong fairness of the deadline test, which the loop
reaches before every message. Nothing is assumed of the exchange or of the
client thread. `StopReturns`: weak fairness of the writer, of the feed inside
`record()`, of its end once it is asked to stop (`CallsReturn` says when it does),
and of the stopping thread: the operating system schedules runnable threads.
`CallsReturn`: weak fairness of each thread inside a call and of the worker, except
where only the peer can end what it waits for (`AwaitsPeer`): the handshakes, `read()`
and `close()` are synchronous Beast calls, to which `expires_after()` and the
WebSocket timeouts do not apply. Nothing is assumed of the peer, and nothing of the
owner, which may stop draining while a replay waits for room. What ends by itself is
the resolver (a timer, and a poll of `running_`), `connect()` (the kernel gives up on
an endpoint) and every call whose socket `request_stop()` has shut. `CloseFinishes`: weak fairness of the poll, which Tk runs after its
timer, of the end of a session that was asked to stop, which `CallsReturn` of the
engine promises except for a stop that was missed, and of a thread that has nothing left to do. Nothing is assumed
of the user or of trainings.

## 5. Proofs

Every theorem below holds for all values of the constants that the named
assumptions of the modules allow. Each one rests on an inductive invariant,
`IInv`, and every `IInv` has one lemma per action or group of actions.

**DepthSynchronizerProofs** proves everything the run `synchronizer` checks, and
that the buffer stays in arrival order (`BufferOrdered`). No single property is
inductive: `Exact` of the book after a bridge needs the pending events to be
ordered (`Increasing`); order survives a bridge only because what is left over is
a suffix; and `LiveMeansDrained` is what makes `ingest()` on a live object free of
the buffer. `CallFacts` states for one call what it establishes and what it keeps,
each method has a lemma that it does so, and the theorems combine them by cases on
`Next`. The lemmas about the methods are in **DepthSynchronizerFacts**, because the
capture needs them too. `BookAfterIsExact` is the heart: consuming pending events up
to the first break leaves exactly `1..last`, because each consumed range starts at
or before the id after the previous one.

**L2CaptureProofs** proves every invariant of `capture` and `CompleteMeansNothingLost`. `RestInv` is about the
threads, the queue and the end; `CaptureInv` about one symbol, by the phase of its
file. `Kept` says what always holds of a recording (what is written is well
formed, checkpoints agree with a replay, the book is the exchange's), `Faithful`
that replaying the file gives the live book, or that of the retained snapshot.
`Rebuilt`, part of `Kept`, says it of every beginning of the file: a replay holds
the exchange's book there, and the next depth event carries it on.
`Settled` and `Waits` are the two shapes a synchronizer has between two messages:
nothing buffered, or exactly the update that made it ask for a snapshot. Without
them `install_snapshot()` could apply several events to the book while the loop
records them one by one, and a checkpoint could fall between. One lemma per handler
(`RecordAppliedFacts`, `InstalledFacts`, `OnDepthFacts`, `OnConnectionFacts`) shows
that it goes from one of these shapes to another.
The last part is about `build_feature_set()` on such a file (`RowsStayContinuous`).
`BuilderSound` says that all the builder remembers after event n, and all it has
kept for labels, lies in one stretch that reaches to n; `BuildIsSound` takes it
through the loop, by the least position where it would fail, and `FinishFacts`
gives the rows. That `Rebuilt` holds is why no event of the file makes the loop raise.

**RecordingFilesProofs** proves the invariants of `recording_files`. `StreamInv` and
`PayloadInv` say what the counters know of the stream at each step of the writer,
`DataInv` and `SidecarInv` what each file on disk can be: any cut of one of two
recordings, and a sidecar only of a stream that was flushed and closed.
`CountsTell` is the argument for completeness: a beginning of the stream that has
the counts of everything counted is everything counted, so a file with the right
counts is not cut.

**IngestionEngineProofs** proves the invariants of `engine` for any number of threads.
`LocksInv` says which lock is held at which place of which call, `HolderInv` what
whoever holds the life-cycle lock may rely on, `SessionInv` what state, worker and
flags say about each other between two steps of the worker, and `StreamInv` that
delivered records, queue and the file positions behind them line up. The stop
that overtakes the end of a session is the case for which `SessionInv` is needed.
`StopInv` says that a call is in `join` only behind its `request_stop()`, so that the
worker is not at an open socket unless that request found none.
`NobodyDeadlocks` is the part of `CallsReturn` that needs no fairness: `Waits` says
for each place in a call what it waits for, and the theorem that there is always a
call that waits for nothing, or a worker whose `running_` is cleared and who waits for
nothing either unless the stop was `missed`. `start()` waits
with the interpreter lock in hand, so this rests on whoever it waits for having
released that lock (`HolderMoves`). That every call then returns is left to the run
`engine`.

**ExecutionSimulatorProofs** proves the invariants and both action properties of
`simulator`. `OrderInv` says in which set an order is by its status, that a resting
order was placed in the session that is current, and that nothing rests once the
kill switch has tripped. `TakerInv` says that what the walking order still wants is
what is not filled and fits the position limit, so that no fill is dropped.
`FillInv` is the delicate one: recorded time may go back after a snapshot, so "no
fill at or after the deadline" does not follow from the order of events. It holds
because of `ControlInv`: a control is processed once and for good, and wherever a
fill can happen every deadline of a resting order and every cancellation that is
still ahead is not earlier than the current event.

**RecorderProofs** proves the invariants of `recorder`, for every capacity of queue
and batch, every history and horizon of a feature row and every largest time step.
None is inductive, because the file alone does not tell what the threads still hold.
`Stream` is file, batch and queue put together: while no write has failed it is all
that `record()` has accepted. `Apart` says that two neighbours in it are neighbouring
arrivals unless a drop marker stands between them, `GoesOn` the same of its end and
the next arrival, so that the marker may follow the drop and the writer may be ahead
of both; `Counted` and `Ranged` tie the counters and the id range to its length,
which the reader's verdict rests on. After an error `Stream` is no longer whole and
only `Apart(file)` stays: what has been written is a beginning of a stream that was
sound. `IdsInv` is why the recorder may trust one error count for two streams: as long as
none is counted both hold the same, whole. `Described` says that the sidecar is what counters and markers are once
`stop()` has published it. `SegmentFacts` gives the two ends of a segment, and
`SegmentsAreWhole` shows that a loss inside would be a cut. For
`ReplayMatchesTraining`, `HistoriesAre` computes what `OnlineFeatureBuilder`
remembers at each record, the last records since the last cut (`Recent`), by the
least position where it would be something else.

The last part is about the recorder's queue, `SpscRingBuffer` with its own variables
and its own specification `RingSpec`; what is proved are `NoDataRace`, the types, and that the ring
implements `BoundedFifo`. `QueueSound` ties the slots between head and tail to whole
values, `ProducerSound` and `ConsumerSound` say what a thread still knows from its
last load of the other's index: it may be old, but it errs on the safe side. What
makes this work through wrap-around is that the distance of two indices modulo
`IndexRange` is their true distance as long as it is at most the capacity
(`DistanceFacts`), and that distinct distances below the capacity are distinct slots
because the capacity divides the index range (`SlotsDiffer`).

**ResearchProofs** proves the invariants of `research` and `RollbackRestores`. The
first third is about `HoldoutSplit` as an algorithm, for every sequence of session
sizes, every horizon and every minimum of rows: `SplitFacts` and `FoldsFacts` say
where training, validation and holdout of a split or of a fold lie,
`LabelComesBefore` that a purge of the longest horizon keeps a label in front of what
it must not see, and `TradesFacts` that the loop of `strategy_trades()` leaves the
holding period behind before it takes the next signal. The invariant of the pipeline
follows a publication file by file: `BackingUpOK`, `CommittingOK` and `RollingBackOK`
say which files under a name are old, hidden or new after how many operations, and
what the undo list still has to do. `WholeSets` is what these leave behind, a report only beside
files of its own training; `Remembered` says what became of each published report,
which is what makes a holdout evaluated a second time a known one; `Studied` that
predictions a study has read were not replaced unless by a complete set or a
rollback. `RollbackIsExact` needs `RollingBackOK`, since what a rollback restores was
moved away many steps before. `OwnFiles` is for the sets these leave out, those of a
rollback with a failed step or of an overwriting that was broken off: the files beside a
report are its own, missing, or `unremoved`. It holds because the report is the last to
be published and, in a rollback, is moved back only when every removal has been done or
has failed (`RemovesFirst`).

Its last part is about the desktop shell (`Workstation`, specification `ShellSpec`),
which starts these trainings. `TrainingSound`: the button is off exactly while the window
knows a training, and a training's event is the only one and finds none running.
`SessionSound`: a session that began with nothing pending is the one the window
knows, alone and without an end event, until it reports.

Induction over data cannot be cited from the library, so it is done by hand: a set of
naturals that is not empty has a least element (`LeastExists`, from the
well-foundedness of `<`), hence a property that fails fails first somewhere, and
`RecursionExists` gives the function a recursive definition names.

Only model-checked: the liveness properties `CaptureEnds`, `StopReturns`,
`CallsReturn` and `CloseFinishes`, since the provers treat neither fairness nor
ENABLED. The type invariants of recorder, ring, engine and workstation are proved and
listed by no run. The two runs that expect a violation are counterexamples and need no
proof.

The assumptions are the named ones on the constants: sizes are positive numbers,
sets are finite where the code builds them from lists. Some are worth a word.
`RingAssumption` says that the capacity divides the number of index values, which
the class's `static_assert` of a power of two implies. `SnapshotAssumption` of the simulator says that a
recorded snapshot has a sound book, because `install_snapshot()` raises on any
other. `OrdersAssumption` puts the limit of an order among the prices, or 0 for a
market order. `EarlierAssumption` and `AbsenceAssumption` of the files keep an earlier
recording and a missing file apart from the present one by their creation time, and
`AbsenceAssumption` of the reader says that a missing file is no file.
`PipelineAssumption` says that a recording is a row count for each of its sessions and
that what is selected for trading are sessions of it.

## 6. Findings

* `capture_verifies`: `capture()` writes a `USER_STOP` boundary before its final
  checkpoint, and the verification tool clears its book at every boundary.
* `research_partial_set`: "The JSON report is committed last, so report discovery
  never exposes a partial set" (`core.py:1766`). While a set is overwritten the old
  report stays until last, beside files already moved away, and Ctrl-C or the end of
  the process there makes it last: only an `Exception` is rolled back.

What else the code does that its words do not say, met while modelling. The
properties state what holds in spite of it.

*Capture.* The final state of a capture stopped after a reconnect, while a
snapshot waits for its bridge, is that snapshot's, which is in no recorded event
(`l2_capture.py:525`). Ctrl-C between applying an update and recording it leaves a
complete recording that lacks it. Two captures in one second choose one path, and
the second unlinks the first one's files when it fails to open them
(`l2.py:356-363`): `CompleteIsOneRecording` holds, the recording is gone.

*Recording files.* The comment at `l2.py:144` says the sidecar is synced; nothing
calls `fsync`, and a power loss may leave an empty name, which a reader refuses.
`abort()` says it removes its artifacts and closes them only. Ctrl-C between the
write of a record and its counters publishes a sidecar the reader refuses; hence
the conditions of `PublishedIsAccepted`.

*Recorder and engine.* `writer_loop()` tests the queue and `active_` in two steps,
so the last record can stay behind; the recording is then incomplete and a reader
may refuse it (`ReaderAgrees`). When one stream fails the other may hold more, and a
reader refuses the pair. The loops of `verify_top_of_book_replay.py:76`,
`alpha_monitor`, `analytics` and the UI ask `is_running()` after an empty batch; the worker
may push its last records and end in between, and they stay in the queue, although a
replay is announced as "maximum lossless" (`alpha_monitor.py:117`). What is queued is
complete (`ReplayIsLossless`), what the loop took is not.

`request_stop()` is to "cancel active network operations so lifecycle shutdown does
not wait for I/O timeouts" (`BinanceBookTickerFeed.hpp:64`). A stop between the test
of `running_` in the resolver (`:336`) and the connection (`:384`) finds no socket;
the connection is then made, and if the peer is silent nothing ends the synchronous
handshake. `stop()` waits for that worker with `lifecycle_mutex_` in hand, and
`start_*()` or `last_error()` then wait for the mutex with the interpreter lock, so all
of Python waits. `CallsReturn` says that nothing else holds a call.

The live loops reset their history when the drop counter changes, at the batch before the gap, because older records are still
queued (`app.py:182`, `alpha_monitor.py:142`); in a replay the resets are exact
(`OnlineMatchesOffline`).

*Simulator.* `_record_fill()` drops a fill the position limit forbids and marks the
order rejected, and its callers overwrite that status with partially filled
(`simulator.py:558`, `608`). `queue_ahead` is frozen at arrival, so an earlier order
that met a longer queue waits while a later one of the same price fills. Recorded
time goes back after a snapshot, so an order can be filled by a trade stamped
before its arrival, while deadlines still hold (`FillsAreTimely`).

*Research.* `_test_period_fingerprint()` says that earlier sessions cannot disguise
the reuse of a holdout; they can, by moving the boundary of the split. The L2
fingerprint holds the targets, so another horizon evaluates the same period again.
A training that overwrites a report with another holdout removes the memory of the
first; one that dies while overwriting leaves the old report as a `.backup` nobody
looks for; one that fails after its evaluation leaves no trace. `HoldoutRemembered`
names exactly these exceptions. If steps of the rollback fail too, the old report can
stay beside a new model whose removal failed, or beside nothing; `ReportsAreUsable` says
that this is all that can stand there, also after a crash. The sensitivity study reads
its orders before it hashes their file, so it may accept those of a training that
was rolled back in between.

*Workstation.* Only the live-capture button is disabled while a session runs, so a
session can be started between another's death and the poll that handles its end;
the handler then forgets the new one, which no button stops and which the window
does not ask when it closes (`stale` in `SessionsAreOwned`). An exception in a
handler of the poll, such as a staged model that vanishes between `glob()` and
`stat()` (`app.py:806`) or a log that cannot be written, ends the poll for good: the
closing window then never closes (`poll = "lost"` in `CloseFinishes`).
`start_training()` does not look at `_closing`.

## 7. Abstractions and what is left out

* Prices, quantities, level order and state hashes: the set of ids a book holds.
  A recorded depth update is its id range; order of ids is all the code tests.
* Time: delays, deadlines and timestamps are nondeterminism. The capture
  loop's five-second report and the latency figures are not modelled.
* Simulator: fees are zero, their default; quantities and prices are small
  integers and queue fractions multiples of `1/Unit`; the overflow errors of
  timestamps and 64-bit sums, the value of a markout (only when it is taken
  matters) and `summary()` are left out. A market order that runs out of depth
  keeps the status partially filled, as in the code.
* Engine: pacing is any delay; relaxed counters are read at once; parsing and
  back-off times are left out. `request_stop()` and the worker use one socket object
  from two threads without a lock of it; its operations are taken as atomic. The
  recorder of a live session is `TopOfBookRecorder`.
* Memory order: interleavings of sequentially consistent accesses. The code's
  acquire/release pairs order the payload before the tail and the copies before
  the head, which is the order of the steps here.
* Files: what reaches the disk of a record is nothing, all or a fragment. Renames
  are atomic, and no two recordings have one creation time.
* Features: a row is its window of records and its label; the numbers in it, and
  rows dropped because one of them is not finite, are left out.
* Research: trainings run one at a time, as the workstation starts them; two from
  the command line can mix their sets and pass each other's check of the holdout.
  A segment is one session with a fixed warm-up, which is the shortest there is.
  A name of the L2 program is its horizon. A backup that cannot be unlinked after
  a full publication is ignored. What a fit does with the rows it is given, and the
  signals it makes, are any.
* Workstation: the poll's period and a modal box are no time; a session that was
  not asked to stop may run for ever.
* `add_marker()` swallows an allocation failure; the model assumes none.
* I/O: file names, JSON, CRC. Failure of a write or of a flush is modelled in the
  recorder; `flush_and_close()` does not test the `close()` that follows a good
  flush, and it is taken to succeed; of finalization, step by step, in `RecordingFiles`, as a whole in the
  capture.
* Not modelled: the native L2 book and synchronizer, which only benchmarks and
  parity tests run and which repeat the modelled Python ones; numerical research
  code and its diagnostics, charts, argument parsing, byte layouts. The list with
  reasons is in `PROJECT.json`, as are the hazards no property covers.
