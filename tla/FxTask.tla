------------------------------- MODULE FxTask -------------------------------
(***************************************************************************)
(* javafx.concurrent.Task: one task, executed by one pool thread (Worker), *)
(* held by other background threads (Helpers) and observed on the JavaFX   *)
(* application thread.                                                     *)
(*                                                                         *)
(* The observable properties (state, running, exception, and one property  *)
(* per update channel) belong to the FX thread. A background thread never  *)
(* writes them: it hands a Runnable to Platform.runLater, and the FX thread*)
(* takes the Runnables in the order of the hand-over. A Runnable is the    *)
(* sequence of the statements it executes; the FX thread's variable todo is*)
(* what is left of the Runnables it is in, innermost first. Application    *)
(* code runs on the FX thread between events and, in the middle of a       *)
(* statement sequence, inside property listeners and event handlers: site  *)
(* says where, and code at a site may call back into the task.             *)
(***************************************************************************)
EXTENDS FxProgress, Sequences

CONSTANTS
  Worker,        \* the pool thread that calls FutureTask.run
  Helpers,       \* other background threads that hold the task
  Null,          \* Java null
  Texts,         \* what updateMessage, updateTitle and updateValue are given
  ProgressArgs,  \* the argument pairs updateProgress is given
  Result,        \* what call() returns
  Updatable,     \* the update channels the application uses
  MaxUpdates,    \* bound on the number of update calls
  FxUpdates,     \* the FX thread calls the update methods too
  BgCancel,      \* a background thread calls cancel()
  CallbackSites, \* where FX application code calls cancel(): "listener", "handler"
  NestedLoops    \* FX application code enters nested event loops

Bg == {Worker} \cup Helpers

Channel == {"progress", "message", "title", "value"}

Args(c) == IF c = "progress" THEN ProgressArgs ELSE Texts

\* What an update call publishes, and what the FX thread makes of it.
Encode(c, a) == IF c = "progress" THEN Clamp(a) ELSE a
Decode(c, p) == IF c = "progress" THEN Applied(p) ELSE p

ASSUME ThreadAssumption == Worker \notin Helpers
ASSUME ChannelAssumption == Updatable \subseteq Channel
ASSUME BoundAssumption == MaxUpdates \in Nat
ASSUME SwitchAssumption ==
  /\ FxUpdates \in BOOLEAN /\ BgCancel \in BOOLEAN /\ NestedLoops \in BOOLEAN
  /\ CallbackSites \subseteq {"listener", "handler"}
\* A ProgressUpdate object is never null.
ASSUME ProgressNotNull == \A a \in ProgressArgs : Clamp(a) # Null
\* Neither is what call() throws.
ASSUME CauseNotNull == Null \notin {"byCall", "byCheckThread"}

VARIABLES
  fut,        \* the FutureTask's state
  wpc,        \* where the pool thread is in FutureTask.run and TaskCallable.call
  started,    \* Task.started
  thrown,     \* what TaskCallable.call caught
  pend,       \* per background thread: the Runnable it is about to hand over
  queue,      \* the FX thread's queue of Runnables
  todo,       \* the statements the FX thread still has to execute
  site,       \* where FX application code is running
  state, running, exception,   \* the properties of those names
  prop,       \* per channel: the property (or properties) it feeds
  slot,       \* per channel: the AtomicReference
  last,       \* history: per channel, <<the last update issued>>, or <<>>
  updates     \* the number of update calls so far

fxVars == <<todo, site, state, running, exception>>
updVars == <<prop, slot, last, updates>>
wkVars == <<fut, wpc, started, thrown>>
vars == <<wkVars, pend, queue, fxVars, updVars>>

(***************************************************************************)
(* The statements of the Runnables, and the Runnables.                     *)
(***************************************************************************)
SetState(v)     == [do |-> "setState", arg |-> v]
SetRunning(v)   == [do |-> "setRunning", arg |-> v]
Fire            == [do |-> "fire", arg |-> Null]
SetException(x) == [do |-> "setException", arg |-> x]
SetValue(v)     == [do |-> "setValue", arg |-> v]
Apply(c)        == [do |-> "apply", arg |-> c]

StartRunnable     == <<SetState("SCHEDULED"), SetState("RUNNING")>>

\* Broken variant: SUCCEEDED shows before the value does.
SucceedStateFirst == <<SetState("SUCCEEDED"), SetValue(Result)>>

SucceedRunnable   == <<SetValue(Result), SetState("SUCCEEDED")>>

FailRunnable(x)   == <<SetException(x), SetState("FAILED")>>
CancelledRunnable == <<SetState("CANCELLED")>>
UpdateRunnable(c) == <<Apply(c)>>

None == <<>>      \* nothing to hand over

Ending == {"SUCCEEDED", "FAILED", "CANCELLED"}
States == {"READY", "SCHEDULED", "RUNNING"} \cup Ending

Init ==
  /\ fut = "NEW" /\ wpc = "idle" /\ started = FALSE /\ thrown = Null
  /\ pend = [t \in Bg |-> None] /\ queue = <<>> /\ todo = <<>> /\ site = "none"
  /\ state = "READY" /\ running = FALSE /\ exception = Null
  /\ prop = [c \in Channel |-> CASE c = "progress" -> NoProgress
                               [] c = "value" -> Null
                               [] OTHER -> ""]
  /\ slot = [c \in Channel |-> Null]
  /\ last = [c \in Channel |-> <<>>]
  /\ updates = 0

-----------------------------------------------------------------------------
(***************************************************************************)
(* The FX thread.                                                          *)
(***************************************************************************)
\* Application code has control: between two Runnables, or in a callback.
AtCallback == site \in CallbackSites
FxFree == todo = <<>> \/ AtCallback

\* The event loop takes the next Runnable. From inside a callback this is a
\* nested event loop: the outer Runnable continues when the inner one is done.
FxTake ==
  /\ queue # <<>>
  /\ todo = <<>> \/ (NestedLoops /\ AtCallback)
  /\ todo' = Head(queue) \o todo
  /\ queue' = Tail(queue)
  /\ site' = "none"
  /\ UNCHANGED <<wkVars, pend, state, running, exception, updVars>>

\* Broken variant: CANCELLED is overwritten.
SetStateUnguarded(v) ==
  /\ state' = v
  /\ todo' = <<SetRunning(v), Fire>> \o Tail(todo)
  /\ site' = IF v # state THEN "listener" ELSE "none"

\* setState: nothing once CANCELLED; otherwise state.set(value), whose
\* listeners run if the value changed, then setRunning and the events.
SetStateEffect(v) ==
  IF state # "CANCELLED"
  THEN /\ state' = v
       /\ todo' = <<SetRunning(v), Fire>> \o Tail(todo)
       /\ site' = IF v # state THEN "listener" ELSE "none"
  ELSE /\ UNCHANGED state
       /\ todo' = Tail(todo)
       /\ site' = "none"

FxSetState ==
  /\ todo # <<>> /\ Head(todo).do = "setState"
  /\ SetStateEffect(Head(todo).arg)
  /\ UNCHANGED <<wkVars, pend, queue, running, exception, updVars>>

RunningAs(v) == v \in {"SCHEDULED", "RUNNING"}

FxSetRunning ==
  /\ todo # <<>> /\ Head(todo).do = "setRunning"
  /\ running' = RunningAs(Head(todo).arg)
  /\ site' = IF running' # running THEN "listener" ELSE "none"
  /\ todo' = Tail(todo)
  /\ UNCHANGED <<wkVars, pend, queue, state, exception, updVars>>

\* fireEvent and the protected hook of the state the task is in by now.
FxFire ==
  /\ todo # <<>> /\ Head(todo).do = "fire"
  /\ site' = "handler"
  /\ todo' = Tail(todo)
  /\ UNCHANGED <<wkVars, pend, queue, state, running, exception, updVars>>

FxSetException ==
  /\ todo # <<>> /\ Head(todo).do = "setException"
  /\ exception' = Head(todo).arg
  /\ site' = "listener"
  /\ todo' = Tail(todo)
  /\ UNCHANGED <<wkVars, pend, queue, state, running, updVars>>

\* updateValue(result) on the FX thread, in the Runnable of a normal return.
FxSetValue ==
  /\ todo # <<>> /\ Head(todo).do = "setValue"
  /\ prop' = [prop EXCEPT !["value"] = Head(todo).arg]
  /\ last' = [last EXCEPT !["value"] = <<Head(todo).arg>>]
  /\ site' = IF prop' # prop THEN "listener" ELSE "none"
  /\ todo' = Tail(todo)
  /\ UNCHANGED <<wkVars, pend, queue, state, running, exception, slot, updates>>

\* Broken variant: the slot is read but not emptied.
ApplyKeepsSlot(c) ==
  /\ prop' = [prop EXCEPT ![c] = Decode(c, slot[c])]
  /\ slot' = slot

\* The Runnable of a coalesced update: take what is in the slot and apply it.
\* Applying a null ProgressUpdate would end in a NullPointerException.
ApplyEffect(c) ==
  /\ prop' = IF c = "progress" /\ slot[c] = Null THEN prop
             ELSE [prop EXCEPT ![c] = Decode(c, slot[c])]
  /\ slot' = [slot EXCEPT ![c] = Null]

FxApply ==
  /\ todo # <<>> /\ Head(todo).do = "apply"
  /\ ApplyEffect(Head(todo).arg)
  /\ site' = IF prop' # prop THEN "listener" ELSE "none"
  /\ todo' = Tail(todo)
  /\ UNCHANGED <<wkVars, pend, queue, state, running, exception, last, updates>>

\* cancel() on the FX thread: FutureTask.cancel, and setState at once.
FxCancel ==
  /\ FxFree /\ fut = "NEW"
  /\ fut' = "CANCELLED"
  /\ todo' = CancelledRunnable \o todo
  /\ site' = "none"
  /\ UNCHANGED <<wpc, started, thrown, pend, queue, state, running, exception, updVars>>

\* An update method called on the FX thread sets the property directly.
FxUpdate(c, a) ==
  /\ FxUpdates /\ FxFree /\ updates < MaxUpdates
  /\ prop' = [prop EXCEPT ![c] = Decode(c, Encode(c, a))]
  /\ last' = [last EXCEPT ![c] = <<Encode(c, a)>>]
  /\ updates' = updates + 1
  /\ UNCHANGED <<wkVars, pend, queue, fxVars, slot>>

Fx == \/ FxTake \/ FxSetState \/ FxSetRunning \/ FxFire
      \/ FxSetException \/ FxSetValue \/ FxApply

-----------------------------------------------------------------------------
(***************************************************************************)
(* The background threads. What a thread does and the runLater that follows*)
(* are two steps.                                                          *)
(***************************************************************************)
\* In application code: the pool thread inside call(), a helper at any time.
BgFree(t) == pend[t] = None /\ (t = Worker => wpc = "call")

HandOver(t, r) == pend' = [pend EXCEPT ![t] = r]

\* Platform.runLater: the Runnable joins the FX thread's queue.
Post(t) ==
  /\ pend[t] # None
  /\ queue' = Append(queue, pend[t])
  /\ pend' = [pend EXCEPT ![t] = None]
  /\ UNCHANGED <<wkVars, fxVars, updVars>>

\* Broken variant: an update that finds the slot taken is dropped.
PublishDropsLater(t, c, p) ==
  IF slot[c] = Null
  THEN slot' = [slot EXCEPT ![c] = p] /\ HandOver(t, UpdateRunnable(c))
  ELSE UNCHANGED <<slot, pend>>

\* getAndSet: a Runnable is only handed over when the slot was empty.
Publish(t, c, p) ==
  /\ slot' = [slot EXCEPT ![c] = p]
  /\ IF slot[c] = Null THEN HandOver(t, UpdateRunnable(c)) ELSE UNCHANGED pend

\* updateProgress, updateMessage, updateTitle, updateValue off the FX thread.
BgUpdate(t, c, a) ==
  /\ BgFree(t) /\ updates < MaxUpdates
  /\ Publish(t, c, Encode(c, a))
  /\ last' = [last EXCEPT ![c] = <<Encode(c, a)>>]
  /\ updates' = updates + 1
  /\ UNCHANGED <<wkVars, queue, fxVars, prop>>

\* Broken variant: off the FX thread nothing is handed over.
BgCancelSilently(t) ==
  /\ BgCancel /\ BgFree(t) /\ fut = "NEW"
  /\ fut' = "CANCELLED"
  /\ UNCHANGED <<pend, wpc, started, thrown, queue, fxVars, updVars>>

\* cancel() off the FX thread: FutureTask.cancel now, setState in a Runnable.
BgCancelTask(t) ==
  /\ BgCancel /\ BgFree(t) /\ fut = "NEW"
  /\ fut' = "CANCELLED"
  /\ HandOver(t, CancelledRunnable)
  /\ UNCHANGED <<wpc, started, thrown, queue, fxVars, updVars>>

\* FutureTask.run: nothing if the task is not NEW; otherwise TaskCallable.call
\* sets started and hands over the Runnable that schedules and runs the task.
WorkerRun ==
  /\ wpc = "idle"
  /\ IF fut = "NEW"
     THEN wpc' = "call" /\ started' = TRUE /\ HandOver(Worker, StartRunnable)
     ELSE wpc' = "end" /\ UNCHANGED <<started, pend>>
  /\ UNCHANGED <<fut, thrown, queue, fxVars, updVars>>

\* The application's call() returns a result, or throws.
CallReturns ==
  /\ wpc = "call" /\ pend[Worker] = None
  /\ wpc' = "returned"
  /\ UNCHANGED <<fut, started, thrown, pend, queue, fxVars, updVars>>

\* Broken variant: the cause is not kept.
CallThrowsUncaught ==
  /\ wpc = "call" /\ pend[Worker] = None
  /\ wpc' = "threw"
  /\ UNCHANGED <<fut, started, thrown, pend, queue, fxVars, updVars>>

CallThrows ==
  /\ wpc = "call" /\ pend[Worker] = None
  /\ wpc' = "threw" /\ thrown' = "byCall"
  /\ UNCHANGED <<fut, started, pend, queue, fxVars, updVars>>

\* After a normal return: the result is handed over unless the task has been
\* cancelled; if it has, getValue() is called, whose checkThread throws because
\* this is not the FX thread and started is set.
WorkerReturned ==
  /\ wpc = "returned"
  /\ IF fut # "CANCELLED"
     THEN wpc' = "set" /\ HandOver(Worker, SucceedRunnable) /\ UNCHANGED thrown
     ELSE wpc' = "threw" /\ thrown' = "byCheckThread" /\ UNCHANGED pend
  /\ UNCHANGED <<fut, started, queue, fxVars, updVars>>

WorkerThrew ==
  /\ wpc = "threw"
  /\ wpc' = "setException"
  /\ HandOver(Worker, FailRunnable(thrown))
  /\ UNCHANGED <<fut, started, thrown, queue, fxVars, updVars>>

\* FutureTask.set and setException: they lose against a cancel().
FutureDone ==
  /\ wpc \in {"set", "setException"} /\ pend[Worker] = None
  /\ fut' = IF fut = "NEW" THEN (IF wpc = "set" THEN "NORMAL" ELSE "EXCEPTIONAL") ELSE fut
  /\ wpc' = "end"
  /\ UNCHANGED <<started, thrown, pend, queue, fxVars, updVars>>

WorkerStep == WorkerRun \/ WorkerReturned \/ WorkerThrew \/ FutureDone

-----------------------------------------------------------------------------
\* Nothing is left to happen: the pool thread is done and every Runnable ran.
Quiescent ==
  /\ wpc = "end" /\ queue = <<>> /\ todo = <<>>
  /\ \A t \in Bg : pend[t] = None

Done == Quiescent /\ fut # "NEW" /\ UNCHANGED vars

Next ==
  \/ Fx \/ FxCancel
  \/ \E c \in Updatable : \E a \in Args(c) : FxUpdate(c, a)
  \/ WorkerStep \/ CallReturns \/ CallThrows
  \/ \E t \in Bg : \/ Post(t) \/ BgCancelTask(t)
                   \/ \E c \in Updatable : \E a \in Args(c) : BgUpdate(t, c, a)
  \/ Done

\* The event loop keeps running and every background thread is scheduled; that
\* the application's call() ends is not assumed.
Fairness == WF_vars(Fx) /\ WF_vars(WorkerStep) /\ \A t \in Bg : WF_vars(Post(t))

Spec == Init /\ [][Next]_vars
FairSpec == Spec /\ Fairness

-----------------------------------------------------------------------------
(***************************************************************************)
(* Properties.                                                             *)
(***************************************************************************)
Causes == {"byCall", "byCheckThread"}

Runnable ==
  {StartRunnable, SucceedRunnable, CancelledRunnable}
    \cup {FailRunnable(x) : x \in Causes} \cup {UpdateRunnable(c) : c \in Channel}

Statement ==
  {SetState(v) : v \in States} \cup {SetRunning(v) : v \in States}
    \cup {SetException(x) : x \in Causes} \cup {Apply(c) : c \in Channel}
    \cup {Fire, SetValue(Result)}

\* The type invariant.
TypeOK ==
  /\ fut \in {"NEW", "NORMAL", "EXCEPTIONAL", "CANCELLED"}
  /\ wpc \in {"idle", "call", "returned", "threw", "set", "setException", "end"}
  /\ started \in BOOLEAN
  /\ thrown \in Causes \cup {Null}
  /\ pend \in [Bg -> Runnable \cup {None}]
  /\ queue \in Seq(Runnable)
  /\ todo \in Seq(Statement)
  /\ site \in {"none", "listener", "handler"}
  /\ state \in States
  /\ running \in BOOLEAN
  /\ exception \in Causes \cup {Null}
  /\ DOMAIN prop = Channel /\ DOMAIN slot = Channel /\ DOMAIN last = Channel
  /\ updates \in 0 .. MaxUpdates

\* The Runnable of a progress update never finds the slot empty: _updateProgress
\* is never reached with a null ProgressUpdate (Task.java:1101), however the
\* background threads' getAndSet and the FX thread's getAndSet interleave.
ProgressUpdateNotNull ==
  todo # <<>> /\ Head(todo) = Apply("progress") => slot["progress"] # Null

\* The Runnables that will read channel c's slot, wherever they are.
Carried(c) ==
  {<<"queue", i>> : i \in {j \in DOMAIN queue : queue[j] = UpdateRunnable(c)}}
    \cup {<<"pend", t>> : t \in {u \in Bg : pend[u] = UpdateRunnable(c)}}
    \cup {<<"todo", i>> : i \in {j \in DOMAIN todo : todo[j] = Apply(c)}}

\* Every update published on the channel is an object.
NeverNull(c) == c = "progress" \/ Null \notin Texts

\* "AtomicReference is used so as to coalesce updates such that we don't flood
\* the event queue": whatever the number of updates, a channel that is never
\* given null has at most one Runnable under way, and none when its slot is empty.
Coalesced ==
  \A c \in Channel : NeverNull(c) =>
    IF slot[c] = Null THEN Carried(c) = {} ELSE \E r \in Carried(c) : Carried(c) = {r}

\* Coalescing drops intermediate updates only: once no Runnable of the channel
\* is under way, the property shows the last update any thread issued.
NoUpdateLost ==
  \A c \in Channel :
    Carried(c) = {} /\ last[c] # <<>> => prop[c] = Decode(c, last[c][1])

\* The Future and the Worker of the same task tell the same story: once
\* everything handed over has run, isCancelled() holds exactly of a task in
\* state CANCELLED, and get() returns (throws) exactly for SUCCEEDED (FAILED).
FutureAgrees ==
  Quiescent => state = (CASE fut = "NORMAL" -> "SUCCEEDED"
                          [] fut = "EXCEPTIONAL" -> "FAILED"
                          [] fut = "CANCELLED" -> "CANCELLED"
                          [] OTHER -> "READY")

\* "The running property is set to true when the state is either SCHEDULED or
\* RUNNING": whenever the FX thread is between two events the two agree.
RunningAgrees == todo = <<>> => running = (state \in {"SCHEDULED", "RUNNING"})

\* The value is there when SUCCEEDED is observed, the cause when FAILED is
\* (the order inside the two Runnables of TaskCallable.call).
OutcomeVisible ==
  /\ state = "SUCCEEDED" => prop["value"] = Result
  /\ state = "FAILED" => exception # Null

\* The FX properties of a task agree with its state, as far as Worker promises.
PropertiesAgree == RunningAgrees /\ OutcomeVisible

\* What the FX thread sees of the task is the life cycle of a Worker, except
\* that a late cancel() may follow SUCCEEDED or FAILED: SCHEDULED is visited
\* before RUNNING "in all cases so that developer code can be consistent",
\* nothing is skipped, nothing is repeated and CANCELLED is never left.
Life == INSTANCE WorkerLife WITH Reusable <- FALSE, LateCancel <- TRUE
LifeCycle == Life!Spec

\* A cancel() that returned true is final: the state becomes CANCELLED and
\* stays, whatever the pool thread had already handed over.
CancelTakesEffect == fut = "CANCELLED" ~> [](state = "CANCELLED")

\* A task that was executed, or cancelled, concludes once its call() has ended.
Concludes == wpc = "end" ~> state \in Ending

\* A task comes to its end, and to the end that cancel() has announced.
OutcomeReached == CancelTakesEffect /\ Concludes

\* The progress property is -1 or a number between 0 and 1.
ProgressInRange ==
  LET p == prop["progress"].progress
  IN  p \notin {NaN, Inf} /\ (p[1] = Indeterminate \/ (0 <= p[1] /\ p[1] <= p[2]))
=============================================================================
