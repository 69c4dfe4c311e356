# TLA+ models of the concurrency core of JavaFX

This directory is a verification project for OpenJFX 8. The JavaFX toolkit is large;
its own core logic that is hard to get right is where threads, callbacks, timers and
messages meet: background work (`javafx.concurrent`), the pulse and the renderer
(Quantum), nested event loops and deferred Runnables (Glass) with the idle check of the
platform on top, and the media player with its native buffers. These are modelled here.

Run a model from this directory with `tlc -config X.cfg M`, check the proofs with
`tlapm M.tla` for `SequenceFacts` and for each of the modules whose name ends in `Proofs`.
`PROJECT.json` lists every run, the source lines of every
definition, the hazards, the mutants and the theorems.

## 1. Inventory

Paths are relative to `src/modules/graphics/src/main/java` unless they name another
module.

| Component | State | Operations | Interacts through | What is hard | What makes it correct |
|---|---|---|---|---|---|
| `javafx.concurrent.Task` | `FutureTask` state, `started`, one `AtomicReference` per update channel, the FX properties | `run`/`call`, `cancel`, `updateProgress/Message/Title/Value`, `setState` | `Platform.runLater` Runnables; listeners and handlers call back | pool thread, helpers and FX thread race; a late cancel; re-entrant callbacks; nested event loops | the life cycle of a `Worker`; coalescing loses intermediate updates only; the Future and the Worker agree |
| `javafx.concurrent.Worker` | `state` | the documented transitions | - | - | it is the abstract specification |
| `javafx.concurrent.Service` | `task`, nine properties bound to it, `startedOnce` | `start`, `cancel`, `restart`, `reset` | bindings, state listener, executor | handlers run inside an assignment; an abandoned task goes on | shows one task; an abandoned task is cancelled and invisible; what is started ends |
| `javafx.concurrent.ScheduledService` | `delayTask`, `freshStart`, `stop`, `lastRunTime`, failure count, cumulative period | overridden `executeTask`, `succeeded`, `failed`, `reset`, `cancel` | `java.util.Timer`, then `runLater` | stale timers, cancel against a pending outcome, boundary of the failure count | minimum period; cancel stops; nobody waits for ever |
| Quantum pulse, `PaintCollector` (`com/sun/javafx/tk/quantum`) | `pulseRunning`, `nextPulseRequested`, `animationRunning`, dirty scenes, the latch | `postPulse`, `pulse`, `addDirtyScene`, `renderAll`, `done` | render thread, latch, vsync hint | lost pulses, a latch counted by the wrong frame, FX waiting for the renderer | a dirty scene is painted in the end; no deadlock; scene state is not changed while it is rendered |
| Quantum renderer, `SceneState` | render queue, painters, snapshot of the view state | `submitRenderJob`, `checkRendererIdle`, `ViewPainter.run` | lock `ViewPainter.renderLock` | window closed while a frame is under way | a frame uses one consistent snapshot |
| `PlatformImpl`, `LauncherImpl` (`com/sun/javafx/application`) | `initialized`, `toolkitExit`, pending runnables, finish listeners, idle flags | `startup`, `runLater`, `runAndWait`, `exit`, `checkIdle`, launch phases | toolkit, latches | exit during startup, the double idle handshake, runAndWait against exit | every accepted Runnable runs or the caller is told; implicit exit only when idle |
| Glass `EventLoop`, `InvokeLaterDispatcher` (`com/sun/glass/ui`) | stack of loops and their states, dispatcher queue, `nestedEventLoopEntered`, `leavingNestedEventLoop` | `enter`, `leave`, `invokeLater`, `invokeAndWait` | native event loop | loops left out of order, dispatcher blocked while a nested loop is left | loops are left last in, first out; every Runnable is executed once, in order |
| Animation timers (`com/sun/scenario/animation`) | receiver arrays, `receiversLocked`, pause flags | `addPulseReceiver`, `removePulseReceiver`, `timePulseImpl` | called from the pulse, calls animations | receivers change while they are called | no receiver is skipped or called after removal |
| `ExpressionHelper`, `ListListenerHelper` (`src/modules/base`) | listener arrays, `locked` | `addListener`, `removeListener`, `fireValueChangedEvent` | properties | changes while firing, nested changes | a registered listener sees the last value |
| Prism resource pools (`com/sun/prism/impl`) | managed and used sizes, reference lists | `add`, `lock`, `unlock`, `dispose` | `Disposer`, renderer | accounting across weak references | the pool never exceeds its maximum with unlocked resources |
| Media buffers (`src/modules/media/src/main/native/gstreamer/plugins`: `progressbuffer.c`, `hlsprogressbuffer.c`, `filecache.c`, `javasource.c`) | ring or file cache, segment, `srcresult`, pending event, flags of end and flush | `chain`, `loop`, sink and source events, seeks, activation | GStreamer pads and tasks, messages to the bus | waits with signals lost between unlock and wait, flushes against two tasks, end of stream against a seek | data comes out in order and at its position; every seek, stream and disposal ends |
| Media player (`src/modules/media/src/main/native/jfxmedia/platform/gstreamer`, `MediaPlayer.java`) | player state and pending state, stall and seek flags, rate | `Play`, `Pause`, `Stop`, `Finish`, `Seek`, `SetRate`, `BusCallback`, `Dispose` | GStreamer's states, the bus, events to Java | messages about states that were left meanwhile; stalls; disposal under callbacks | player and pipeline agree in the end; a stall is ended; the callback data is freed once |
| Scene graph, CSS, controls, FXML, packager, Swing and SWT bridges, web | - | - | - | sequential, or third-party native code | not modelled, section 8 |

## 2. Modules

| Module | Models | Remarks |
|---|---|---|
| `WorkerLife` | what `Worker` promises of `state` | abstract specification; `Reusable` distinguishes Service from Task, `LateCancel` admits a cancel that shows after SUCCEEDED or FAILED |
| `FxProgress` | `updateProgress(double, double)`, `_updateProgress` | pure operators; a double is an integer, NaN or an infinity |
| `FxTask` | `Task` | one task, its pool thread, helpers and the FX thread; implements `WorkerLife` |
| `FxTaskProofs` | - | theorems about `FxTask`: types, the update channels, the progress, the life cycle, the Future, the properties |
| `SequenceFacts` | - | lemmas on membership, uniqueness and order in sequences, of single values and of the members of a set, used by the proofs |
| `MCFxTask` | - | progress arguments for TLC |
| `FxService` | `Service` | several tasks in turn; implements `WorkerLife` |
| `FxServiceProofs` | - | theorems about `FxService` and `FxScheduledService` |
| `FxDuration` | `normalize`, `setCumulativePeriod`, the linear backoff | pure operators |
| `FxScheduledService` | `ScheduledService` | extends `FxService` as the class does; implements `WorkerLife` |
| `FxPulse` | `QuantumToolkit` pulses, `PaintCollector`, the render thread, `PresentingPainter`, the pulse of `Scene` and `Window` | FX, render and timer thread |
| `FxPulseProofs` | - | theorems about `FxPulse` |
| `GlassLoops` | `EventLoop`, `InvokeLaterDispatcher`, `GtkApplication`, the GTK loop | the queue that `FxTask` takes for granted, in detail |
| `FxPlatform` | `PlatformImpl`: `runLater`, pending Runnables, `checkIdle` | extends `GlassLoops`: the composition |
| `FxPlatformProofs` | - | theorems about `FxPlatform`, and so about `GlassLoops` |
| `FileCache` | `filecache.c` | pure operators on a cache and its two positions |
| `HLSProgressBuffer` | `hlsprogressbuffer.c` with `javasource.c` in HLS mode | four threads; uses `FileCache` |
| `HLSProgressBufferProofs` | - | theorem about `HLSProgressBuffer` |
| `ProgressBuffer` | `progressbuffer.c` with `javasource.c` in its default mode | four threads; uses `FileCache` |
| `ProgressBufferProofs` | - | theorems about `ProgressBuffer` |
| `GstStates` | state changes of a GStreamer bin and the messages about them | operators of `MediaPipeline` |
| `PlayerStatus` | the table of transitions in the documentation of `MediaPlayer.Status` | abstract specification |
| `MediaPipeline` | `CGstAudioPlaybackPipeline` playing HLS | extends `GstStates`; implements `PlayerStatus` |
| `PlayerDispose` | disposal of `CGstAVPlaybackPipeline` against its callbacks | three threads, two locks |
| `PlayerProofs` | - | theorems about `MediaPipeline` and `PlayerDispose` |

### How the code becomes a model

*The FX thread.* `Platform.runLater` is a first-in first-out queue of Runnables
(`queue`). A Runnable is the sequence of the statements it executes; `todo` is what is
left of the Runnables, methods and listeners the FX thread is in, innermost first.
One statement is one step, and a statement is cut where application code can run: after
`state.set(value)` listeners run and only then `setRunning` (Task.java:693-695), after
which `fireEvent` calls the handlers. A callback is therefore a place between two
statements at which the application may call into the task or Service again, or enter
a nested event loop (`NestedLoops`), which puts the statements of the next Runnable in
front of the rest.

*Background threads.* A background thread's step and the `runLater` that follows it are
two steps in `FxTask` (`pend` holds the Runnable in between), so that another thread's
Runnable can overtake it. `FutureTask` (external) is its state NEW, NORMAL, EXCEPTIONAL
or CANCELLED: `set` and `setException` come after `TaskCallable.call` has returned, and
`cancel` succeeds exactly in NEW.

*Coalescing.* `slot[c]` is the `AtomicReference` of channel `c`: `Publish` is the
`getAndSet` of the writer, `ApplyEffect` that of the Runnable. `last` is a history
variable used by the properties only.

*Service.* The properties are bound to a task or have their own value (`stateBound`,
`ownState`; `restBound` for the other eight, which the code always binds and unbinds
together). The listener that fires the events is called from inside the assignment
that changes the state, so `hook` statements stand before the rest of that method.
An exception (`Abort`) drops what is left up to the end of the call or Runnable:
`ExpressionHelper` of this version lets it pass; application code is taken to catch
what its own calls throw. In `FxService` a hand-over is one step with what precedes it,
since the races of `FxTask` are examined there.

*ScheduledService.* `timers` are the TimerTasks waiting in `DELAY_TIMER`; firing hands a
Runnable to the FX thread, and cancelling has no effect afterwards. `now` is `clock()`.
A failed Java assertion is recorded in `broken` and execution goes on, as with
assertions disabled.

*Pulse.* `queue` holds what `Application.invokeLater` was given: the pulse Runnable (at most
one, guarded by `pulseRunning`) and repaints that a painter asked for. `fx` is where the FX
thread is in `pulse()`; it is cut between the pulse listeners of the scenes, because a
listener may show a window or ask for another pulse, and at `renderAll`, where it waits for
the latch. `render` is the render thread between the start of a job, the paint under the
render lock and `done()`, whose three parts (hint, latch, flags) other threads can see one
by one. A scene's changes are `dirtyNodes` until the pulse has copied them to the render tree,
`unseen` until a paint has presented them. A live repaint may begin inside a pulse.

*Event loops.* `fx` is the stack of what the FX thread is in: native loops and the Runnables and
handlers between them. GTK takes a batch of what is in its queue and runs it to its end
before it looks whether the loop was told to quit; the nested loop drops the rest of the outer
batch (external). A deferred Runnable is in `deque`, in the dispatcher's hand, in `native` or in
`fx`. `invokeAndWait` goes directly to the native queue. `misled` records that the dispatcher
took a loop entered by somebody else for its Runnable's.

*Platform.* `checkIdle` is called wherever the code calls it: after a window change, after
the last nested loop, and in the finally clause of a Runnable. The model stops at the call of
the finish listeners.

*Buffers.* A thread is a program counter (`spc` source, `lpc` loop, `kpc` seek, `dpc`
dispose); a step ends where the element's lock is released, where a field is read without it
and where another element is called. GStreamer is modelled by what the elements use: a pad's
stream lock, which its task holds until it is paused; flushing pads; start and pause of
tasks. Data is counted in blocks, and a block carries its position, and in the HLS model the
seek it belongs to, so that a property can tell where it comes from. A seek of the HLS source ends in one
of the three ways of `HLSConnectionHolder.seek`: it opens a segment (`SeekSegment`), it is one to the exact
duration and leaves the playlist where it is (`SeekDuration`), or it fails and leaves the pending event and the open
segment too (`SeekFails`). `raced`, `torn`, `stranded` and `wild` are history variables for what section 4 says of these.

*Player.* `pipe` is the state of the pipeline, with its next, pending and target state, whether its sinks wait
for data and whether a thread of GStreamer continues the change; it moves by
itself once all sinks are ready and posts a message for each state on the way. Messages wait
in `bus` and are handled one by one, in several steps where the handler releases a lock or
calls GStreamer. The user's thread makes one call at a time; a seek is possible in STOPPED too, because `play()` seeks to a
start time that was changed (NativeMediaPlayer.java:996-998): it is the call seek followed by the call play. `Finish` is called by
a third thread, the timer of the media pulse (`pulse`), at any point of the other two; Java's `markerLock` keeps it
out of the method `seek` only, and the model, which lets it run against every call, has more interleavings than the code. The buffer is reduced to the
number of segments in it and to the messages it posts. `races` is a history variable: the set of the
kinds of races (section 4) that have happened, each recorded at the step in which a call is overtaken. The properties except
the races that break them, and no others.

*Disposal.* The reference count of glib is not atomic: a decrement is a load, a store, and one more read for the test
(gmain.c:1333-1334), for which a compiler may also keep the value that was stored; `CountsSeen` has both outcomes. The
handlers of the bus may set the pipeline PLAYING or PAUSED (`BusSetState`), and so start it again. Both locks are modelled by their owners.
`restarted`, `overlapped` and `misused` are history variables: a stopped pipeline was started again, two threads were in the decrement at once,
freed content was used.

## 3. Runs

| Run | Checks | Bounds | States |
|---|---|---|---|
| `task_safety` | `TypeOK`, `Coalesced`, `NoUpdateLost`, `FutureAgrees`, `PropertiesAgree`, `LifeCycle` | pool thread and one helper, two channels, three updates, cancel from every thread and from handlers | 327,799 |
| `task_liveness` | `ProgressInRange`; `OutcomeReached` under fairness | two updates from pool and FX thread with six kinds of progress arguments and null values, cancel also from listeners | 78,140 |
| `service_safety` | `ShowsOneTask`, `NoAbandonedTask`, `PropertiesAgree`, `LifeCycle` | three tasks, four calls, off-FX first start | 293,240 |
| `service_liveness` | `LifeConcludes` (life cycle, and what is started ends) under fairness | two tasks, three calls, also from handlers in any nesting | 64,746 |
| `scheduled_safety` | `TimerInv`, `FailureBudget`, `MinimumPeriod`, `LifeCycle` | three iterations, clock up to 6, delay 1, period 2, two failures, off-FX start | 162,318 |
| `scheduled_restart` | `NotStranded`, `RunsOnSchedule` | three iterations, three calls of start, restart and cancel, cancel from handlers | 515,084 |
| `pulse` | `LatchInv` (the latch never exceeds the reports still to come), `WorkIsDue`; `ChangeShown` and `FxReturns` under fairness | two scenes, three events or calls, one fault, vsync hint on | 340,252 |
| `platform` | `OneQueue`, `LoopDiscipline`, `IdleIsExact`; `RunnablesStart` and `LeavingEnds` under fairness | two Runnables, two nested loops, one event, one `invokeAndWait`, two window changes | 94,183 |
| `hls` | `StreamInv`; `StreamEnds` and `CallsReturn` under fairness | a ring of two, three segments of two blocks, two seeks (to a segment, to the exact duration, failing), disposal; nothing is explored behind a write at index -1 (`Defined`) | 426,487 |
| `progress_buffer` | `StreamInv`, `SeekReaches`; `StreamEnds` and `CallsReturn` under fairness | three blocks, three seeks (from the cache or the source, which may fail), refusal downstream, disposal | 355,834 |
| `player` | `PlayerInv`, `StallHasWakeup`; `StatusTable` (a step of `PlayerStatus` each) | two segments, one slot, two calls out of seven (`Finish` from the timer), one fault; nothing is explored behind a call that came too late (`OnTime`) | 4,691,160 |
| `player_dispose` | `ContentInv`; `DisposeReturns` under fairness | two messages, two callbacks | 5,053 |

A property is often a conjunction of named parts, which stand with their comments next to it:
`PropertiesAgree` is `RunningAgrees` and `OutcomeVisible` (of a Service `TypeOK`, `RunningAgrees` and
`SucceededHasValue`), `OutcomeReached` is `CancelTakesEffect` and `Concludes`, `TimerInv` is `STypeOK`,
`NotStranded` and `AssertionsHold`, `RunsOnSchedule` is `MinimumPeriod` and `CancelStops`, `StreamInv` is
`TypeOK`, `StreamInOrder`, `EosIsLast` and either `NeverPastStop` or, for HLS, `AnnouncedFirst` and `WriteInRing`, `CallsReturn` is `SeekReturns` and
`DisposeReturns`, `PlayerInv` is `TypeOK` and `Agrees`, `ContentInv` is `ContentTypeOK` and `ContentSafe`,
`LatchInv` is `TypeOK` and `LatchCovered`, `WorkIsDue` is `WorkIsNoticed`, `PulseComes` and `UnseenIsDue`,
`LoopDiscipline` is `TypeOK`, `StackAgrees`, `ReturnsInOrder` and `LeaverIsLast`, `IdleIsExact` is `PendingCounts`,
`IdleIsNoticed` and `IdleIsReal`. `ProgressUpdateNotNull` is proved and not checked by a run: it follows from
the invariant behind `Coalesced`.

Why the bounds are enough. Coalescing needs two writers, one Runnable under way and one
more update after it was taken: three updates. The races of cancel need one task and one
call. Showing a stale task needs an abandoned task, its successor and one more restart:
three tasks. A stale timer needs two series and a further iteration of the second: three
tasks, and a clock that outlives delay, period and one backoff. The proofs of section 6 remove
the bounds for the safety of a Task, a Service, the pulse, loops and platform, both buffers, the player (but for `StallHasWakeup`) and the disposal. A lost pulse needs a change, one during the pulse that answers
it and one during the paint: three; a second scene makes the latch count. Loops left out of
order need two; order of Runnables needs two of them, and the dummy of the idle check is a
third. A ring is reused when it holds fewer segments than the playlist; a seek that fails in the middle of what
an earlier seek has started, or one to the duration after the end that an earlier seek has reached, are two seeks. An instant seek and
one that is passed on, in either order, are two seeks; a third one can fail after the segment of an
earlier one was refused (section 4). A player's message outdated by a
request, and a second request meeting the first, are two calls. That was too few once: the first race of
section 4 takes four calls, and it was the proof of `PlayerInv` that found it. Larger instances
were explored without a violation: `pulse` with four operations (safety, 2,415,186 states),
`progress_buffer` with four blocks (safety, 1,517,246 states) and with `Truncates = TRUE` (512,119 states),
`platform` with two events (398,333 states) and with three Runnables and loops, two events and two window
changes (safety, 6,127,109 states), `player` with four calls out of play, finish and pause, or play, finish and rate
zero, and one segment.

Deadlock is checked in the runs of `javafx.concurrent`: such a model stops only in a quiescent
state (`Done`, `Idle`, `SIdle`), where everything handed over has run; `SIdle` also admits
the end of the model at `MaxTasks`, where the code would start one more iteration. The other
systems may stop: a player that is disposed of, an application without further events, a
platform that has exited. There the liveness properties say what may not be left waiting
(`player` has none: `StallHasWakeup` and `Agrees` say it of every quiet state).

Every property of a run has a mutant in `PROJECT.json`: a plausible bug, written
as a broken variant next to the definition it replaces, under which TLC finds the
property violated.

## 4. Deviations

The code differs from its documentation, comments or tests in the ways listed here. Each
was found by TLC, with the change of a cfg or a formula that is named; where only the source
was read, the entry says so.

`javafx.concurrent`:

* `[][(state \in Ending) => (state' = state)]_vars` of `FxTask` fails: the Runnable
  that sets SUCCEEDED may run before `FutureTask.set` (Task.java:1430); `cancel()` then returns true
  and SUCCEEDED becomes CANCELLED (against Worker.java:66-71 and the test
  `cancellingA_SUCCEEDED_TaskShouldNotChangeTo_CANCELLED`).
* `state = "FAILED" => exception = "byCall"` fails: after a cancel, `TaskCallable.call` calls
  `getValue()` off the FX thread (Task.java:1446); the exception makes the task show FAILED
  (against Worker.java:113-115).
* `SucceededHasValue` of `FxService` with `HandlerCalls = {"start"}`: `start()` from an `onReady`
  handler is half undone by the rest of `reset()` (Service.java:641-658); the Service succeeds without a value.
* `NoAbandonedTask` with `HandlerCalls = {"restart"}`: `restart()` from an `onCancelled` handler
  inside `restart()` leaves a task working that nobody holds (Service.java:605).
* `AssertionsHold` in FxScheduledRestart.cfg: `restart()` during the initial
  delay reaches `assert delayTask == null` (ScheduledService.java:356).
* `CancelStops` with `RestartOnFailure = TRUE`, `Period = 1` and `MaxTime = 6` in
  FxScheduledRestart.cfg: `failed()` ignores `stop`
  (ScheduledService.java:424); a cancel that meets a failure on its way does not stop the iterations.
* `RunningAgrees` fails in `FxTask` with `CallbackSites = {"listener"}` and in `FxService` with
  `HandlerCalls = {"cancel"}`: cancel from a state listener (Task) or from `onScheduled` or
  `onRunning` (Service) leaves `running` true in CANCELLED.
* `FutureAgrees` fails with `NestedLoops = TRUE`: a nested event loop in the SCHEDULED handler
  lets SUCCEEDED run before RUNNING, and the task stays RUNNING.
* `NoUpdateLost` fails when `Texts` contains null: after `updateMessage(null)` the slot looks
  empty, and the second of two Runnables applies null.
* `ProgressInRange` fails with the arguments 0, 0: the progress is NaN.
* `NotStranded` fails with a negative `Delay` (given by a definition): `Timer.schedule` throws out of `start()` and the
  Service stays SCHEDULED.
* `MinimumPeriod` in FxScheduledSafety.cfg with all four `Calls`: `start()` on the FX thread before the Runnable of an off-FX
  `start()` has run: that Runnable reads the field (Service.java:694) and gives the new task a second timer, which clears
  the `delayTask` of a later iteration.
* `LifeCycle` in FxScheduledRestart.cfg: `cancel()` from the `onSucceeded` handler and again from the `onReady` handler of
  the same iteration; `cancelFromReadyState` then goes from CANCELLED to SCHEDULED.
* `restart()` of a SUCCEEDED Service passes through CANCELLED (Service.java:619), which
  `WorkerLife` admits through `LateCancel`.
* `currentFailureCount` is not reset by a success (ScheduledService.java:423), although the
  backoff strategies speak of consecutive failures.

Pulse (`FxPulse`; `threw` excepts these from the properties):

* An exception in one scene's pulse listener ends the pulse before the other scenes were
  visited, and a scene that has already asked for its pulse does not ask again (Scene.java:531).
* An exception in `paintImpl` leaves a scene unpainted until its next change.
* By reading: `entireSceneNeedsRepaint` while the painter runs is lost; `UploadingPainter`
  (lines 85-87) returns without asking for a repaint.

Event loops and platform (`FxPlatform`):

* `LeaverIsLast` without `~misled`: a loop entered by an event handler sets `nestedEventLoopEntered`; the
  dispatcher takes it for its Runnable's and submits a second one
  (InvokeLaterDispatcher.java:125), which then runs in the loop that the first has left, against the
  comment of the class ("must be submitted to the native system one by one").
* `RunnablesStart` without `Blocked`: `leave()` and then another `enter()` in the same handler keep
  `leavingNestedEventLoop` true, and no Runnable is submitted while that loop runs (lines 110-118).
* In the same case the value passed from `leave` to `enter` is overwritten (GtkApplication.java:225)
  and `assert ret == this` (EventLoop.java:108) fails; `ReturnsInOrder` admits the missing value.
* `IdleIsReal` without `nested`: a handler closes the last window and runs a nested loop; when that ends,
  the listeners are told while the handler is still in process, although `checkIdle`
  means to "allow for it to show another window".
* By reading: `tkExit` on the FX thread leaves callers of `runAndWait` waiting
  (PlatformImpl.java:342); `Toolkit.exit` in a nested loop quits only the innermost loop.

Media:

* `kpc # "none" ~> kpc = "none"` of `HLSProgressBuffer` (without `raced`): the lock is released to post FULL
  and the wait that follows does not look at `srcresult` again (hlsprogressbuffer.c:500-503); the signal of a flush
  in between is lost and the seek hangs (against gstevent.c:428, "Elements should unlock any
  blocking functions").
* `WriteInRing` of `HLSProgressBuffer` without its exceptions: `chain` tests `is_flushing` before it takes the lock (hlsprogressbuffer.c:305, 312) and
  uses `cache[cache_write_index]` without a test (line 313). A flush in between has set the index to -1, and the field in front of the array, `del_cond`, is
  used as a `Cache`. What comes of it is undefined, and nothing is claimed afterwards (`wild`).
* The other parts of `StreamInv` without `torn`: a seek that fails (the wait for the playlist is interrupted, or the time is behind the
  end, HLSConnectionHolder.java:110, 850) leaves the old pending event (javasource.c:484). If the source was in the middle of a segment its
  data go on without an announcement: `chain` writes them at index -1, this time without a race, or, if a flush raced with an announcement, they come
  downstream from the middle of a segment.
* `StreamEnds` of `HLSProgressBuffer` without `stranded`: `MediaPlayer.seek(Duration.INDEFINITE)` is documented to seek to the stop
  time, that is to the duration if no other was set; for the exact duration `HLSConnectionHolder.seek` returns at once
  and leaves `mediaFileIndex` where it is (HLSConnectionHolder.java:841-842). After the end of the stream nothing is left to come,
  FLUSH_STOP finds `is_eos` set and does not start the task (hlsprogressbuffer.c:541), and the source's second EOS is swallowed: the
  player that was sent to the end never reaches it. No race is needed. In the middle of the stream the same seek goes on with the segment behind the
  open one, labelled with the duration as its time; `StreamInOrder` therefore speaks of where the seek has left the playlist (`base`), which is what the
  buffer can know, and not of the time that was asked for.
* `ProgressBuffer`: the source's EOS is not passed on when the end was moved down to what has been read
  already (progressbuffer.c:592-598, 859; `Truncates = TRUE`); a second seek may lose to the first one's
  pending segment (lines 714, 654); the first NEWSEGMENT can be dropped by the reset in
  `activatepush`; EOS can be overtaken by a seek (`raced`); a failed source seek to before the cache
  labels the data with a wrong position (`misplaced`); line 889 overwrites a flush's `srcresult`.
* `NeverPastStop` of `ProgressBuffer` without `misplaced` and with `Truncates = TRUE`: the segment of a seek is
  refused because an EOS was overtaken by that seek, which leaves the source without a pending event
  (javasource.c:594); a third seek that fails restarts the source (javasource.c:510-517) at a position that the
  cache does not have. Blocks are appended out of step, and one of them meets the branch "This must
  never happen" (progressbuffer.c:568). The attempt to prove `StreamInv` showed it; two seeks do not reach it.
* With `Truncates = TRUE` a segment of the source that comes after EOS went downstream replaces the segment
  that EOS belonged to, so that EOS is behind the last block of a segment that is no more known
  (the second alternative of `EosIsLast`).
* `MediaPipeline`: `SetRate` stores the new rate before it asks whether the old one was
  zero (GstAudioPlaybackPipeline.cpp:757, 776), so that a player at rate zero does not play on. At rate zero
  `gst_event_new_seek` refuses the rate (gstevent.c:1011), so that `seek` and `stop` do not move the stream (`SeekPipeline`). An error of the demultiplexer
  puts the player in Error but sends an event that leaves the status as it is (GstAudioPlaybackPipeline.cpp:1160-1166), not HALTED.
* `Agrees` of `MediaPipeline` without `"play"`, with `MaxOps = 4`: play, pause, stop, and a play before the seek of the stop has
  data. In the state Paused a pending stop is honoured with any change from PAUSED (GstAudioPlaybackPipeline.cpp:1622), also with the one to
  PLAYING: the player says Stopped, and its pipeline plays. The attempt to prove `PlayerInv` showed it.
* `Agrees` without `"seek"`: a pause while a seek has the pipeline PAUSED is told by its request only; an older message may have
  taken the request (play, pause, play, seek and pause, with `MaxOps = 5`), and `finish()` makes none (play, finish, play, finish, with `MaxOps = 4`). The player says Playing, and its pipeline is PAUSED.
* `StatusTable` without `"stop"`, with `MaxOps = 4` (play, pause, play, stop): a stop while a play is under way is honoured with the change to PLAYING,
  and the stop's own seek plays on; at the end of the stream the player is Finished although its status is STOPPED, and a later stall takes the status from
  STOPPED to STALLED.
* `StallHasWakeup` without `"stall"`: a flag left over from a stall request turns the pause of `finish()` into a stall
  without end; without `m_fRate # 0` and with `MaxOps = 4` and the calls play, rate0 and rate1: at rate zero the play that would end the
  stall only sets `m_bResumePlayOnNonzeroRate`.
* All three without `"late"`: `Play` or a pause between an error's tear-down of the pipeline and the state Error.
* `DisposeReturns` of `PlayerDispose` without `Jammed`: the ERROR handler tears the pipeline down under `m_DisposeLock` while the streaming
  thread waits for that lock in `on_pad_added` or `no_more_pads`; or, of three threads, a handler that holds `m_DisposeLock` waits
  for the state lock to set the pipeline PLAYING or PAUSED, `Dispose` has that lock and waits for the streaming thread, and that one for `m_DisposeLock`.
* `ContentInv` without `overlapped`: `Dispose` and the main loop drop their references to the callback at once. The count of glib is changed without a
  lock and read again for the test (gmain.c:1333-1334), so both threads may find zero, and the content is freed twice or used after it
  was freed; or neither does, and it is not freed at all.
* `ContentInv` without `restarted`: `Dispose` stops the pipeline before it takes `m_DisposeLock` (GstAudioPlaybackPipeline.cpp:355, 360; "so all callbacks from
  pipeline are finished"). A handler of the bus in between may resume or stall (lines 440, 547) and so sets the pipeline PLAYING or PAUSED
  again. The player is deleted while it streams: GStreamer refuses to dispose of an element that is not NULL (gstelement.c:3059), and the
  callbacks of its streaming thread use freed content.

The exceptions in the properties are history variables or named predicates, so that each
can be removed to see the behaviour, and each is as narrow as the deviation it stands for.

## 5. Fairness

`FxTask!Fairness`: the event loop keeps executing statements and taking Runnables
(`WF(Fx)`), the pool thread and every thread in the middle of a hand-over are scheduled.
That `call()` returns is not assumed: the application decides. `FxService!Fairness`
assumes in addition that the executor runs its tasks and that `call()` ends, without
which a Service has nothing to conclude. `FxPulse`: the FX thread goes on with queued work and with a pulse, the
timer ticks, the render thread goes on. `FxPlatform`: the FX thread goes on with what it is
in, handlers included (without which nothing behind them runs), the dispatcher and a thread inside
`runLater` are scheduled. The buffers: each task goes on while it is started, and a seek or
disposal that has begun is carried through. `PlayerDispose`: each of the three threads goes on
with what it is in. Weak fairness is enough throughout. No fairness is assumed of application calls, events, cancels, updates, faults
or messages from outside.

## 6. What is proved

Each theorem holds for every value of the constants that meets the named assumptions; the
hypothesis in the third column is an explicit `ASSUME` of the theorem, and section 4 has the
behaviour that makes it necessary. Where a run checks the same property, TLC has shown it on
a small instance first, and each inductive invariant was checked by TLC before it was proved.

| Theorem | States | Hypothesis |
|---|---|---|
| `FxTaskProofs!TypeCorrect` | `Spec => []TypeOK` | - |
| `FxTaskProofs!UpdatesAreCoalesced` | `Spec => []Coalesced` | - |
| `FxTaskProofs!ProgressIsNeverNull` | `Spec => []ProgressUpdateNotNull` | - |
| `FxTaskProofs!LastUpdateIsShown` | `Spec => []NoUpdateLost` | `BackgroundWriters` |
| `FxTaskProofs!ProgressStaysInRange` | `Spec => []ProgressInRange` | `NonZeroTotals` |
| `FxTaskProofs!TaskImplementsWorker` | `Spec => LifeCycle` | `NoNesting` |
| `FxTaskProofs!FutureAndWorkerAgree` | `Spec => []FutureAgrees` | `NoNesting` |
| `FxTaskProofs!PropertiesFollowState` | `Spec => []PropertiesAgree` | `NoNesting`, `HandlersOnly`, `ValueIsResult` |
| `FxServiceProofs!ServiceShowsOneTask` | `Spec => []ShowsOneTask` | `NoHandlerCalls` |
| `FxServiceProofs!NoTaskIsAbandoned` | `Spec => []NoAbandonedTask` | `NoHandlerCalls` |
| `FxServiceProofs!ServicePropertiesAgree` | `Spec => []PropertiesAgree` | `NoHandlerCalls` |
| `FxServiceProofs!ServiceImplementsWorker` | `Spec => LifeCycle` | `NoHandlerCalls` |
| `FxServiceProofs!FailuresAreBudgeted` | `SSpec => []FailureBudget` | `CancelOnly`, `OneStarter` |
| `FxServiceProofs!NoneIsStranded` | `SSpec => []NotStranded` | `CancelOnly`, `OneStarter`, `Schedulable` |
| `FxServiceProofs!TimerIsSound` | `SSpec => []TimerInv` | `Quietly`, `OneStarter`, `Schedulable` |
| `FxPulseProofs!LatchIsCovered` | `Spec => []LatchInv` | - |
| `FxPulseProofs!NoWorkIsForgotten` | `Spec => []WorkIsDue` | - |
| `ProgressBufferProofs!StreamIsWellFormed` | `Spec => []StreamInv` | - |
| `ProgressBufferProofs!SeeksReach` | `Spec => []SeekReaches` | - |
| `HLSProgressBufferProofs!HlsStreamIsWellFormed` | `Spec => []StreamInv` | - |
| `FxPlatformProofs!RunnablesAreOneQueue` | `Spec => []OneQueue` | - |
| `FxPlatformProofs!LoopsAreDisciplined` | `Spec => []LoopDiscipline` | - |
| `FxPlatformProofs!IdleIsFoundExactly` | `Spec => []IdleIsExact` | - |
| `PlayerProofs!PlayerAgreesWithPipeline` | `Spec => []PlayerInv` | - |
| `PlayerProofs!StatusFollowsTable` | `Spec => StatusTable` | - |
| `PlayerProofs!ContentIsSafe` | `DisposeSpec => []ContentInv` | - |

The hypotheses. `BackgroundWriters`: the FX thread does not call the update methods, the value
channel is left to the result, and null is not published. `NonZeroTotals`: a total of zero is not
passed to `updateProgress` (the quotient would be NaN). `NoNesting`: no callback of the task enters
a nested event loop. `HandlersOnly`: cancel may be called from event handlers, not from a
listener of the state property. `ValueIsResult`: `updateValue` is not used. `NoHandlerCalls`: no
event handler of the Service calls `start`, `cancel`, `restart` or `reset` of it; between events they
are called in any order. The life cycle of a Service also holds with such calls in the run
`service_liveness`, but its proof uses the invariant that they break. Of a ScheduledService: `CancelOnly`, its
handlers call nothing but `cancel`; `Quietly`, they call nothing, and nobody calls `restart` (which reaches a failing
assertion); `Schedulable`, `java.util.Timer` accepts the delay and all periods up to the failure limit. `OneStarter`: the application
starts it from the FX thread, as often as it likes, or once from another thread; after an off-FX start the FX thread calls
`cancel` and `reset`, and the restarts are those of the hooks. This one is a limit of the proof: with later calls of
`start` and `restart` as well, TLC finds `NotStranded` and `FailureBudget` in the instance of
`scheduled_safety` to hold (9.3 million states). Both runs of the ScheduledService meet the hypotheses of the theorems whose properties they check.

### The arguments

*Channels of a Task.* `Coalesced` speaks of the set of carriers of a channel, which the provers
cannot count step by step. `OneCarrier(c)` says the same through positions: if the slot is
empty the channel's Runnable is absent from the queue, from what the FX thread has
left and from every thread's hands; if the slot is full it occurs exactly once in exactly
one of the three. Lemmas on `Append`, `Tail` and `\o` carry "absent" and "once" through each
step; a step that publishes finds the slot empty and adds the only carrier, or finds it
full and adds none; a step that applies removes the only carrier and empties the slot.
`HandsFree` is needed because a thread that already held a Runnable would lose it by
publishing another one: the pool thread holds none in the states in which it hands over.
`Shown(c)` adds that a full slot holds the last update and that with an empty slot the
property shows it.

*Life of a Task.* The state follows the Runnables, so the invariant follows them from the pool
thread's hand (`HandInv`) through the queue (`QueueInv`: each once, the start before the outcome) to
what the FX thread has left (`TodoInv`); `StateInv` says which state the Runnables still to come
expect, unless it is CANCELLED, which `setState` never leaves. `FutureInv` relates `FutureTask` to
this: a cancel that it accepted shows or is on its way, and so is an outcome. `RunningInv` says
that a `setRunning` is at most the next statement and is about the current state; this is what
a listener that calls cancel breaks.

*Service.* What the FX thread is in is one of a few programs (`TodoInv`): a method of the
Service or a Runnable, cut after one of its statements, possibly behind handlers. For each of
these the proof says which task it is about (`About`), which reduces a step to the change of one
task. `OrderInv` and `StateInv` are the invariant of a Task's life, for every task at once; `TaskInv`
adds future, value and `running`; `BindInv` says that the state is bound to the task in the field, and
the other properties too, except between the two halves of `reset()`. `LetGoInv` needs all of them:
`restart()` lets go of a task that is cancelled or has ended, `reset()` and `start()` of one
whose state is not SCHEDULED or RUNNING, and such a task is not at work or is cancelled. The Runnable of
an off-FX start reads the field when it runs: `OffFxInv` says that it comes before every other Runnable.

*Scheduled service.* The hooks call methods of the Service inside the assignment that ends a task, and a handler may
call `cancel` inside those, so programs nest, and the list of programs that serves for a Service would not end. The invariant
describes `todo` by its order instead: `Fits` says which statement may be behind which (`Front`), that only a `cancel` interrupts another
method, and that each ends in its return. What the parts say is about the set of statements still to come (`Todo`); a step takes one statement
away and puts at most six in front, and the lemmas `NothingFollows`, `OneFollows`, `TwoFollow`, `HookCalls` and `NothingIsLeft` give
the order and the set after it (the last is why an exception is simple: outside `cancel` it ends all there is). `WorkInv` and `RunnableOrder` are the life of
the tasks as in a Service. `StrandInv` is why none is stranded: from its announcement on, a task that is not cancelled has `execute` still to come,
a timer, a Runnable of the timer or `executeNow`, until the executor gets it; it needs `ExecInv` (`executeTask` finds the task that was announced)
and `StageInv` (a `cancel` that takes away the timer has cancelled the task before). `FailInv` follows the failures: once they are used up
the task rests, unless `reset` is about to forget them; it needs that the hooks' `reset` is followed by `assertNotFresh` and the application's by `resetSchedule`.
`OwnInv` deals with `cancelFromReadyState`, which shows SCHEDULED without a task for a moment, `OffInv` with the off-FX start. `AssertInv` says whose timer `delayTask` is;
a task that was cancelled before the off-FX Runnable ran gets a timer all the same, and `Dead` says that nothing comes of it.

*Pulse.* The latch is bounded by the paint jobs in the queue and on the render thread, that is by
the cardinality of a set of positions; each step changes that set by one element or not at all
(`FiniteSetTheorems`), and `JobInv` keeps live repaints apart, which do not count. `WorkIsDue` needs where a
scene's work is at every moment: `DirtyInv` for the two lists of `renderAll`, `PaintingInv` for the flag
that keeps a scene from being submitted twice, `PulseInv` for `pulseRunning`, `RequestInv` and `DueInv`.

*Progress buffer.* The stream is what the cache held when the task read it, so the invariant
follows a block from the source to downstream. `StepInv`: whenever the source may push blocks that are stored, its
position is the one behind the last block of the cache. Hence `CacheInv`: the cache holds the
stream from its offset on, although the file is rewound and overwritten in place, and old blocks lie behind its
write position (`SegmentInv` says the same of the segment). `FlowInv`: what downstream has got, and the
buffer in the task's hand, reach up to where the task reads, and a segment still to be announced begins there. `EosInv`: an
EOS is under way only when all of the segment has been read, and the task then rests. `SeekInv` says
what is known at each point of a seek (the task rests, downstream has been emptied), `TargetInv` that what is announced
is what was sought, `FirstInv` that nothing else happens before the first block. Each is conditional on `~misplaced`
where the data are concerned; all are needed for one another, and there is one lemma per action.

*HLS buffer.* The ring is used from the read index: `Good(K)` says that the K occupied slots hold K consecutive
segments of the playlist, each from its first block, that the writer continues the last of them, and
that the end of the stream is behind the last one only (`Shape`, `WriteAt`, `Holds`, `Linked`, `Ends`). A flush may meet the
chain function at any point, so `RingInv` knows one more form of the ring, `Stuck`: a flush came between the
announcement of a segment and its data. What the parts say of the data ends with `torn` or `wild`. That index -1 is met only during a flush or after a
failed seek (`WriteInRing`) is a second invariant (`BoundsInv`) on top of the first: a block that the buffer accepts otherwise has a cache (`BlockHasCache`). A block that was refused because of a flush never gets into the ring, and the source rests from then on
until it is sent elsewhere (`Dead`). `SourceInv` and `PadInv` say which
segment the source is at and what its next call brings, `SeekInv` what a seek has stopped at each of its steps; `OutInv` relates what
downstream has got to the block the loop reads next, `AnnounceInv` says that a segment still to be announced comes first, and
`EosInv` that EOS follows the last block. Four lemmas (`RingFrame`, `RingWrite`, `RingPrepare`, `RingRead`) say
what the steps do to a ring; every action cites one of them.

*Loops and platform.* Runnables are numbered in the order of the calls, and `QueueInv` says by number what lies in
the native queue, in the dispatcher's hand (`HandInv`) and in the deque, which avoids any statement about filtered
sequences. `FrameInv`: the frames of the FX thread alternate between loops and what runs in them. `StackInv`: the stack of `EventLoop` is the nested native loops,
with numbers that decrease outwards, and the states of the others are IDLE. `LoopInv`: the value passed from `leave` to `enter` belongs to the innermost loop
and is taken once. `BatchInv`: behind a Runnable that leaves its loop the batch holds only Runnables of `invokeAndWait`,
unless `misled`. `CountInv` counts the accepted and unfinished Runnables as a finite set, which each
step leaves alone, extends or reduces by one (`DueSame`, `DueAdd`, `DueDrop`). `IdleInv`: as long as no window is open and the listeners were
not told, somebody is going to look again: a Runnable that has not ended, a loop that has not returned, or
the handler that runs now.

*Player.* `Agrees` is about quiet states only, and a quiet state is reached through messages about states that the pipeline
left long ago, so the invariant says what the messages still to be handled (`Line`: the one in the bus thread's hand, then the bus) will make
of the player. Until a call comes too late the pipeline is in one of twelve states (`Shapes`; `PipeInv`), and a lemma for each operator of
`GstStates` gives the shape and the messages after it. Only completed changes move the player: those to PLAYING
(`Plays`), to PAUSED (`Pauses`), and among these the ones that leave PLAYING (`Leaves`). While the pipeline is PAUSED, or will be when its sinks
have data, every `Plays` on the line is followed by one of `Leaves`, and a player that says Playing has one of them to come or has
a request (`SettleInv`); while it plays, every `Pauses` is followed by one of `Plays`, and a player that says otherwise has a change to
handle or is about to pause (`PlaysInv`). `StopInv` says that a pending stop of a player that does not play keeps
the pipeline from playing; it is the part that failed for four calls and led to the race of section 4. `EarlyInv` is about the time before
the first change is handled, which may also find the player in Error. `PulseInv`: the timer that calls `Finish` has been started by
READY. `StatusInv` ties the status to the state (`Shows`, which says nothing of Error, since an error of the demultiplexer leaves the status alone) and says that a change to PLAYING is handled before the end of the stream is, without which
a player could be Finished that never played. There is one lemma per action; the steps of the buffer and of most callbacks take nothing from the line that
matters (`Keeps`, `CoreKept`).

*Disposal.* Finitely many positions, any number of messages. The steps of two decrements
may overlap, so the count alone says nothing: `AttachedInv`, `DroppingInv`, `TestingInv` and `DroppedInv` say for each
phase of `Dispose` what the count is and where the bus thread may be, as long as the decrements have not overlapped; `LoadedInv` says what a thread
has loaded. `LockInv` holds without an exception, `PhaseInv` says where the streaming thread is unless the pipeline was restarted. `FreeInv` says who may free the content, and that a second free is a use of freed content, and `MisuseInv` that
freed content is used only behind one of the two exceptions of section 4.

The constants' assumptions used: of `FxTask`, the pool thread is no helper, the channels are
the four of the class, the bound is a natural number, a ProgressUpdate is not null and an
exception is not null (`CauseNotNull`); of `FxService`, its bounds are natural numbers and there is a
task; of `FxScheduledService`, `ScheduleAssumption` and that the special durations are no numbers
(`SpecialAssumption`), with `MaxMillis` a natural number; of `FxPulse`, the scenes are a finite set, and neither null nor the pulse Runnable is one of them; of
`ProgressBuffer`, `BufferAssumption` (sizes and bounds are natural numbers, the stream is not empty); of
`HLSProgressBuffer`, `RingAssumption` (ring, playlist and segments are not empty); of `GlassLoops` and `FxPlatform`, that their bounds are natural numbers; of
`MediaPipeline`, `PlayerAssumption` (the stream and the ring are not empty, the bounds are natural numbers, the calls are among the seven). TLC evaluates them in every run.

### Only model-checked

* Liveness (`OutcomeReached`, `LifeConcludes`, `ChangeShown`, `FxReturns`, `RunnablesStart`, `LeavingEnds`,
  `StreamEnds`, `CallsReturn`, `DisposeReturns`): out of the prover's reach.
* `FxScheduledService`: the action properties `MinimumPeriod` and `RunsOnSchedule` and the refinement `LifeCycle`. They need
  when the timers of earlier series are due, about which the invariant says nothing; and `MinimumPeriod` fails where an off-FX start is
  followed by a `start` of the FX thread, `LifeCycle` where a handler calls `cancel` (section 4), so that each has hypotheses of its own.
* `StallHasWakeup` of `MediaPipeline`: it relates the flags `m_bHLSPBFull` and `m_bLastProgressValueEOS` to the messages of the
  buffer that are still on the bus, about which the invariant of the player says nothing.

## 7. Plan

Done: `javafx.concurrent` with the safety of Task, Service and ScheduledService proved; the pulse, event loops and platform, and the media
buffers, all with their safety proved; the player and its disposal, with their safety proved but for `StallHasWakeup`. Next, in this order:

1. Proofs: `StallHasWakeup` of `MediaPipeline`, then `MinimumPeriod` of `FxScheduledService`.
2. Platform exit: `tkExit`, `runAndWait`, the launcher's latches, on top of `FxPlatform`.
3. `AbstractMasterTimer` and `ExpressionHelper`: receivers and listeners that change while they are called.

The number of runs is kept at one or two per system; what a further run would show is
described in section 4 with the change that reproduces it.

## 8. Not modelled

* `javafx.concurrent`: the exponential and logarithmic backoff strategies (real-valued functions; they enter only
  as a cumulative period, for which the linear one stands); changes of the ScheduledService
  properties while it runs; thread interruption by `cancel(true)` (`call()` may return or
  throw at any time anyway); event dispatch chains; security contexts.
* Pulse: `UploadingPainter`, embedded scenes, the branch without a window manager, `quantum.multithreaded=false`,
  the toolkit's exit, minimised windows, `setAnimationRunnable` off the FX thread. A paint always finds a presentable; without one
  `PresentingPainter` (line 84) paints nothing, and the change waits for the next pulse.
* Platform: start-up, exit, `runAndWait`, the launcher, changes of implicit exit and of listeners, SWT
  embedding (no dispatcher), exceptions in handlers; `checkIdle` tests and notifies in one step, and a `runLater` of another
  thread between the two (PlatformImpl.java:425, 444) is taken to come behind them; the Windows, Mac and embedded Glass
  back ends.
* Media: pull mode and the paths without a cache; `OTHER_ERROR_CODE`; empty segments; live
  playlists (javasource.c:471 and 481 take the pad's lock after the seek and not before it; `liveSemaphore`), network errors of a segment and the switch of the bit rate; in the player
  ASYNC_DONE and the last seek time, a failing `set_state`, connection loss and codec errors, the stall logic of
  progressive download, `CheckQueueSize`, a repeated EOS; volume, equalizer, spectrum, tracks and markers.
* Animation timers, listener helpers, resource pools: section 7, or dependent on the garbage collector.
* Scene graph, CSS, controls, FXML, packager, Swing and SWT bridges: sequential, or dependent on
  foreign toolkits.
* Web, and most of the native lines of this repository: about two million lines of C and C++ are
  vendored WebKit, glib, libffi, GStreamer with its plug-ins, and headers of OpenGL and Direct3D. They are third-party code
  that this project takes as given, and models only where the code of JavaFX depends on their
  behaviour (GLib's main loop and sources, GStreamer's states, pads and bus). The native code written for JavaFX is mostly glue
  to the platform's windows, fonts and graphics; the part with threads and state of its own is the media player. The
  share of all lines that the map covers is therefore very small and cannot become large.
