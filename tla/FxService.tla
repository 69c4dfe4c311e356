------------------------------ MODULE FxService ------------------------------
(***************************************************************************)
(* javafx.concurrent.Service: a reusable Worker that creates one Task per  *)
(* start, binds its properties to the properties of that task and hands the*)
(* task to an executor.                                                    *)
(*                                                                         *)
(* The tasks are modelled as in FxTask, without the update channels and    *)
(* with each hand-over to the FX thread in one step with what precedes it. *)
(* The FX thread executes statements: todo holds what is left of the       *)
(* Runnables and of the Service methods it is in, innermost first, and a   *)
(* method that throws drops what is left, up to the "return" of the call or*)
(* the Runnable (application code is taken to catch what it calls). The    *)
(* Service fires its events from a listener of its own state property, that*)
(* is from inside the assignment that changed the state: application code  *)
(* in a handler runs before the statement's successors.                    *)
(***************************************************************************)
EXTENDS Integers, Sequences, FiniteSets

CONSTANTS
  MaxTasks,      \* bound on the tasks that are created
  MaxCalls,      \* bound on the calls of the application
  Calls,         \* what the FX thread's application code calls between events
  HandlerCalls,  \* what it calls from an event handler of the Service
  OffFxStart     \* the first start() comes from another thread

Methods == {"start", "cancel", "restart", "reset"}

ASSUME BoundAssumption == MaxTasks \in Nat \ {0} /\ MaxCalls \in Nat
ASSUME CallAssumption ==
  Calls \subseteq Methods /\ HandlerCalls \subseteq Methods /\ OffFxStart \in BOOLEAN

VARIABLES
  \* the tasks
  fut, wpc,            \* FutureTask state and where its pool thread is
  tstate, trunning,    \* Task.state, Task.running
  tvalue,              \* Task.value: whether the result is set
  created,             \* the number of tasks created
  \* the Service
  task,                \* Service.task; 0 for null
  stateBound, ownState,    \* the task Service.state is bound to (or 0), and its own value
  restBound,               \* the task the other properties are bound to (or 0)
  ownRunning, ownValue,    \* their own values; a value is the task it came from, or 0
  startedOnce,
  \* the FX thread
  queue, todo, calls

taskVars == <<fut, wpc, tstate, trunning, tvalue, created>>
bindVars == <<stateBound, ownState, restBound, ownRunning, ownValue>>
svVars == <<task, bindVars, startedOnce>>
vars == <<taskVars, svVars, queue, todo, calls>>

Tasks == 1 .. MaxTasks
Null == 0
Ending == {"SUCCEEDED", "FAILED", "CANCELLED"}
States == {"READY", "SCHEDULED", "RUNNING"} \cup Ending

\* What the Service's properties show.
state == IF stateBound = Null THEN ownState ELSE tstate[stateBound]
running == IF restBound = Null THEN ownRunning ELSE trunning[restBound]
value == IF restBound = Null THEN ownValue
         ELSE IF tvalue[restBound] THEN restBound ELSE Null

\* Statements: of a task k, and of the Service.
St(do, k, v) == [do |-> do, k |-> k, v |-> v]
SetState(k, v) == St("setState", k, v)
Do(do) == St(do, Null, "READY")
Return == Do("return")

StartRunnable(k) == <<SetState(k, "SCHEDULED"), SetState(k, "RUNNING"), Return>>

\* Broken variant: SUCCEEDED shows before the value does.
SucceedStateFirst(k) == <<SetState(k, "SUCCEEDED"), St("setValue", k, "READY"), Return>>

SucceedRunnable(k) == <<St("setValue", k, "READY"), SetState(k, "SUCCEEDED"), Return>>
FailRunnable(k) == <<SetState(k, "FAILED"), Return>>
OffFxRunnable == <<Do("schedule"), Do("execute"), Return>>

Init ==
  /\ fut = [k \in Tasks |-> "NEW"] /\ wpc = [k \in Tasks |-> "new"]
  /\ tstate = [k \in Tasks |-> "READY"] /\ trunning = [k \in Tasks |-> FALSE]
  /\ tvalue = [k \in Tasks |-> FALSE] /\ created = 0
  /\ task = Null /\ stateBound = Null /\ ownState = "READY"
  /\ restBound = Null /\ ownRunning = FALSE /\ ownValue = Null
  /\ startedOnce = FALSE
  /\ queue = <<>> /\ todo = <<>> /\ calls = 0

-----------------------------------------------------------------------------
(***************************************************************************)
(* The FX thread: the statements.                                          *)
(***************************************************************************)
At(do) == todo # <<>> /\ Head(todo).do = do

\* The statement is done; what it pushes runs before what follows it.
Then(pushed) == todo' = pushed \o Tail(todo)

\* The method throws: what is left of it is skipped.
Abort ==
  LET ends == {i \in DOMAIN todo : todo[i] = Return}
      end  == CHOOSE i \in ends : \A j \in ends : i <= j
  IN  todo' = SubSeq(todo, end + 1, Len(todo))

\* The listener of the Service's own state property: when a statement changes
\* what the property shows to v, fireEvent runs the application's handlers and
\* then the protected method of the new state (the hook) is called.
HookOn(v) == IF v # state THEN <<St("hook", Null, v)>> ELSE <<>>
InHandler == At("hook")

\* Broken variant: a cancelled task still reports its outcome.
TaskSetStateUnguarded ==
  /\ At("setState")
  /\ tstate' = [tstate EXCEPT ![Head(todo).k] = Head(todo).v]
  /\ Then((IF stateBound = Head(todo).k THEN HookOn(Head(todo).v) ELSE <<>>)
            \o <<St("setRunning", Head(todo).k, Head(todo).v)>>)
  /\ UNCHANGED <<fut, wpc, trunning, tvalue, created, svVars, queue, calls>>

\* Task.setState, up to the listeners of the task's state.
TaskSetState ==
  /\ At("setState")
  /\ LET k == Head(todo).k
         v == Head(todo).v
     IN  IF tstate[k] # "CANCELLED"
         THEN /\ tstate' = [tstate EXCEPT ![k] = v]
              /\ IF stateBound = k
                 THEN Then(HookOn(v) \o <<St("setRunning", k, v)>>)
                 ELSE Then(<<St("setRunning", k, v)>>)
         ELSE UNCHANGED tstate /\ Then(<<>>)
  /\ UNCHANGED <<fut, wpc, trunning, tvalue, created, svVars, queue, calls>>

TaskSetRunning ==
  /\ At("setRunning")
  /\ trunning' = [trunning EXCEPT ![Head(todo).k] = Head(todo).v \in {"SCHEDULED", "RUNNING"}]
  /\ Then(<<>>)
  /\ UNCHANGED <<fut, wpc, tstate, tvalue, created, svVars, queue, calls>>

TaskSetValue ==
  /\ At("setValue")
  /\ tvalue' = [tvalue EXCEPT ![Head(todo).k] = TRUE]
  /\ Then(<<>>)
  /\ UNCHANGED <<fut, wpc, tstate, trunning, created, svVars, queue, calls>>

\* Task.cancel on the FX thread.
TaskCancel ==
  /\ At("cancelTask")
  /\ LET k == Head(todo).k
     IN  IF fut[k] = "NEW"
         THEN fut' = [fut EXCEPT ![k] = "CANCELLED"] /\ Then(<<SetState(k, "CANCELLED")>>)
         ELSE UNCHANGED fut /\ Then(<<>>)
  /\ UNCHANGED <<wpc, tstate, trunning, tvalue, created, svVars, queue, calls>>

\* Broken variant: the executor never gets the task.
ExecuteNothing ==
  /\ At("execute")
  /\ Then(<<>>)
  /\ UNCHANGED <<taskVars, svVars, queue, calls>>

\* executeTask(task): the executor gets the task the field holds by now. A task
\* that was submitted before is not run again; null fails in the pool thread.
Execute ==
  /\ At("execute")
  /\ wpc' = IF task # Null /\ wpc[task] = "new" THEN [wpc EXCEPT ![task] = "queued"] ELSE wpc
  /\ Then(<<>>)
  /\ UNCHANGED <<fut, tstate, trunning, tvalue, created, svVars, queue, calls>>

\* task.setState(SCHEDULED) of the Runnable of an off-FX start: it reads the
\* field when it runs; null is a NullPointerException.
Schedule ==
  /\ At("schedule")
  /\ IF task # Null THEN Then(<<SetState(task, "SCHEDULED")>>) ELSE Abort
  /\ UNCHANGED <<taskVars, svVars, queue, calls>>

\* state.set(v) of an unbound state: cancel() without a task, and
\* cancelFromReadyState.
SetOwnState ==
  /\ At("setOwn")
  /\ ownState' = Head(todo).v
  /\ Then(HookOn(Head(todo).v))
  /\ UNCHANGED <<taskVars, task, stateBound, restBound, ownRunning, ownValue, startedOnce, queue, calls>>

\* restart(), after task.cancel(): task = null, state.unbind, state.set(CANCELLED).
Abandon ==
  /\ At("abandon")
  /\ task' = Null /\ stateBound' = Null /\ ownState' = "CANCELLED"
  /\ Then(HookOn("CANCELLED"))
  /\ UNCHANGED <<taskVars, restBound, ownRunning, ownValue, startedOnce, queue, calls>>

\* reset(), up to the listeners of state.set(READY) ...
ResetState ==
  /\ At("reset")
  /\ IF state \in {"SCHEDULED", "RUNNING"}
     THEN Abort /\ UNCHANGED <<task, stateBound, ownState>>
     ELSE /\ task' = Null /\ stateBound' = Null /\ ownState' = "READY"
          /\ Then(HookOn("READY"))
  /\ UNCHANGED <<taskVars, restBound, ownRunning, ownValue, startedOnce, queue, calls>>

\* Broken variant: the other properties stay bound.
ResetKeepsRest ==
  /\ At("resetRest")
  /\ Then(<<>>)
  /\ UNCHANGED <<taskVars, svVars, queue, calls>>

\* ... and the remaining properties.
ResetRest ==
  /\ At("resetRest")
  /\ restBound' = Null /\ ownRunning' = FALSE /\ ownValue' = Null
  /\ Then(<<>>)
  /\ UNCHANGED <<taskVars, task, stateBound, ownState, startedOnce, queue, calls>>

\* createTask and the bindings.
CreateAndBind ==
  /\ created < MaxTasks
  /\ created' = created + 1
  /\ task' = created' /\ stateBound' = created' /\ restBound' = created'
  /\ startedOnce' = TRUE
  /\ UNCHANGED <<fut, wpc, tstate, trunning, tvalue, ownState, ownRunning, ownValue>>

\* start() on the FX thread.
Start ==
  /\ At("start")
  /\ IF state # "READY"
     THEN Abort /\ UNCHANGED <<taskVars, svVars>>
     ELSE CreateAndBind /\ Then(<<SetState(created', "SCHEDULED"), Do("execute")>>)
  /\ UNCHANGED <<queue, calls>>

MethodReturn ==
  /\ At("return")
  /\ Then(<<>>)
  /\ UNCHANGED <<taskVars, svVars, queue, calls>>

FxTake ==
  /\ todo = <<>> /\ queue # <<>>
  /\ todo' = Head(queue) /\ queue' = Tail(queue)
  /\ UNCHANGED <<taskVars, svVars, calls>>

\* ready(), scheduled(), running(), succeeded(), cancelled() and failed() of a
\* Service do nothing.
Hook ==
  /\ At("hook")
  /\ Then(<<>>)
  /\ UNCHANGED <<taskVars, svVars, queue, calls>>

\* What a subclass of Service does not override.
FxCommon ==
  \/ TaskSetState \/ TaskSetRunning \/ TaskSetValue \/ TaskCancel
  \/ Schedule \/ SetOwnState \/ Abandon \/ ResetState \/ ResetRest
  \/ Start \/ MethodReturn \/ FxTake

Fx == FxCommon \/ Execute \/ Hook

(***************************************************************************)
(* The FX thread: the methods of the Service, as the application calls     *)
(* them. Before the Service has been started once, start() may come from   *)
(* another thread.                                                         *)
(***************************************************************************)
\* Broken variant: the task is let go without being cancelled.
LetGo == IF task # Null THEN <<Do("abandon")>> ELSE <<>>

\* restart(), the part before reset().
CancelAndLetGo ==
  IF task # Null THEN <<St("cancelTask", task, "READY"), Do("abandon")>> ELSE <<>>

Body(m) ==
  CASE m = "start"  -> <<Do("start")>>
    [] m = "reset"  -> <<Do("reset"), Do("resetRest")>>
    [] m = "cancel" ->
         IF task # Null THEN <<St("cancelTask", task, "READY")>>
         ELSE IF state \in {"CANCELLED", "SUCCEEDED"} THEN <<>> ELSE <<St("setOwn", Null, "CANCELLED")>>
    [] m = "restart" -> CancelAndLetGo \o <<Do("reset"), Do("resetRest"), Do("start")>>

\* The tasks that the calls under way may still create.
StartsUnderWay == Cardinality({i \in DOMAIN todo : todo[i].do = "start"})

Call(m) ==
  /\ \/ todo = <<>> /\ m \in Calls
     \/ InHandler /\ m \in HandlerCalls
  /\ calls < MaxCalls /\ calls' = calls + 1
  /\ m \in {"start", "restart"} => created + StartsUnderWay < MaxTasks
  /\ todo' = Body(m) \o <<Return>> \o todo
  /\ UNCHANGED <<taskVars, svVars, queue>>

\* Until then one thread at a time uses the Service: the FX thread is not in one
\* of its methods.
StartOffFx ==
  /\ OffFxStart /\ ~ startedOnce /\ todo = <<>>
  /\ state = "READY"
  /\ CreateAndBind
  /\ queue' = Append(queue, OffFxRunnable)
  /\ UNCHANGED <<todo, calls>>

-----------------------------------------------------------------------------
(***************************************************************************)
(* The pool thread of task k.                                              *)
(***************************************************************************)
TaskRun(k) ==
  /\ wpc[k] = "queued"
  /\ IF fut[k] = "NEW"
     THEN wpc' = [wpc EXCEPT ![k] = "call"] /\ queue' = Append(queue, StartRunnable(k))
     ELSE wpc' = [wpc EXCEPT ![k] = "end"] /\ UNCHANGED queue
  /\ UNCHANGED <<fut, tstate, trunning, tvalue, created, svVars, todo, calls>>

\* call() returns or throws; a return after a cancel ends in checkThread.
CallEnds(k) ==
  /\ wpc[k] = "call"
  /\ \/ /\ fut[k] # "CANCELLED"
        /\ wpc' = [wpc EXCEPT ![k] = "set"]
        /\ queue' = Append(queue, SucceedRunnable(k))
     \/ /\ wpc' = [wpc EXCEPT ![k] = "setException"]
        /\ queue' = Append(queue, FailRunnable(k))
  /\ UNCHANGED <<fut, tstate, trunning, tvalue, created, svVars, todo, calls>>

FutureDone(k) ==
  /\ wpc[k] \in {"set", "setException"}
  /\ fut' = [fut EXCEPT ![k] = IF @ # "NEW" THEN @
                               ELSE IF wpc[k] = "set" THEN "NORMAL" ELSE "EXCEPTIONAL"]
  /\ wpc' = [wpc EXCEPT ![k] = "end"]
  /\ UNCHANGED <<tstate, trunning, tvalue, created, svVars, queue, todo, calls>>

Pool(k) == TaskRun(k) \/ CallEnds(k) \/ FutureDone(k)

\* Every task that was handed to the executor has ended and every event was
\* handled; the application may leave the Service as it is.
Quiescent ==
  /\ queue = <<>> /\ todo = <<>>
  /\ \A k \in Tasks : wpc[k] \in {"new", "end"}

Idle == Quiescent /\ UNCHANGED vars

Next == \/ Fx \/ (\E m \in Methods : Call(m)) \/ StartOffFx
        \/ (\E k \in Tasks : Pool(k)) \/ Idle

\* The event loop keeps running, the executor runs what it is given, and call()
\* ends (a Service of which it does not has nothing to conclude).
Fairness == WF_vars(Fx) /\ \A k \in Tasks : WF_vars(Pool(k))

Spec == Init /\ [][Next]_vars
FairSpec == Spec /\ Fairness

-----------------------------------------------------------------------------
(***************************************************************************)
(* Properties.                                                             *)
(***************************************************************************)
\* The type invariant.
TypeOK ==
  /\ fut \in [Tasks -> {"NEW", "NORMAL", "EXCEPTIONAL", "CANCELLED"}]
  /\ wpc \in [Tasks -> {"new", "queued", "call", "set", "setException", "end"}]
  /\ tstate \in [Tasks -> States] /\ trunning \in [Tasks -> BOOLEAN]
  /\ tvalue \in [Tasks -> BOOLEAN] /\ created \in 0 .. MaxTasks
  /\ task \in 0 .. created /\ stateBound \in 0 .. created /\ restBound \in 0 .. created
  /\ ownState \in States /\ ownRunning \in BOOLEAN /\ ownValue \in 0 .. created
  /\ calls \in 0 .. MaxCalls

\* Between two events the Service shows one task: the one in the field, and all
\* its properties are bound to it, or it shows none ("the Service will be none
\* the wiser" about a task that restart abandoned).
ShowsOneTask ==
  todo = <<>> => stateBound = task /\ restBound = task /\ (task = Null => value = Null)

\* A task that the Service has let go of is never left working: if its call() is
\* still to run or running, it has been cancelled.
NoAbandonedTask ==
  todo = <<>> => \A k \in Tasks : k # task /\ wpc[k] \in {"queued", "call"} => fut[k] = "CANCELLED"

\* Between two events running says whether the state is SCHEDULED or RUNNING.
RunningAgrees == todo = <<>> => running = (state \in {"SCHEDULED", "RUNNING"})

\* SUCCEEDED: "there is a valid result ready to be read from the value property".
SucceededHasValue == state = "SUCCEEDED" => value # Null

\* The properties of a Service have their types and agree with its state.
PropertiesAgree == TypeOK /\ RunningAgrees /\ SucceededHasValue

\* The Service goes through the life cycle of a reusable Worker, except that
\* CANCELLED may follow SUCCEEDED and FAILED; no step of an abandoned task shows.
Life == INSTANCE WorkerLife WITH Reusable <- TRUE, LateCancel <- TRUE
LifeCycle == Life!Spec

\* What is started ends: a Service that is SCHEDULED reaches an ending state.
StartedConcludes == state = "SCHEDULED" ~> state \in Ending

\* Also when handlers call start, cancel, restart and reset in any nesting, the
\* Service goes through the life cycle and what is started ends.
LifeConcludes == LifeCycle /\ StartedConcludes
=============================================================================
