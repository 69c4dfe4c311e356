-------------------------- MODULE FxScheduledService --------------------------
(***************************************************************************)
(* javafx.concurrent.ScheduledService: a Service that starts itself again  *)
(* after every success and, within limits, after a failure. It overrides   *)
(* executeTask (which waits on a Timer), reset, cancel and the hooks       *)
(* succeeded and failed; everything else is FxService.                     *)
(*                                                                         *)
(* Time is the integer clock now. A TimerTask is a record of the set timers*)
(* until it fires or is cancelled; firing hands a Runnable to the FX       *)
(* thread, after which cancelling the TimerTask has no effect any more.    *)
(* Java assertions are recorded in broken, and execution goes on: they are *)
(* disabled by default.                                                    *)
(***************************************************************************)
EXTENDS FxService, FxDuration

CONSTANTS
  Delay, Period, MaximumCumulativePeriod,   \* the properties of those names
  RestartOnFailure, MaximumFailureCount,
  MaxTime                                   \* bound on the clock

ASSUME ScheduleAssumption ==
  RestartOnFailure \in BOOLEAN /\ MaximumFailureCount \in Nat /\ MaxTime \in Nat

VARIABLES
  delayTask,     \* the TimerTask in the field; 0 for null
  timers,        \* the TimerTasks that are waiting: [id, k, due]
  timerIds,      \* the number of TimerTasks created
  freshStart, stop, currentFailureCount, cumulativePeriod, lastValue, lastRunTime,
  now,           \* clock()
  broken,        \* history: the assertions that failed
  ranAt          \* history: when the last run of this series began, or -1

runVars == <<freshStart, lastRunTime, ranAt>>
timerVars == <<delayTask, timers, timerIds>>
schVars == <<runVars, currentFailureCount, timerVars, stop, cumulativePeriod, lastValue, broken>>
allVars == <<vars, schVars, now>>

SInit ==
  /\ Init
  /\ delayTask = Null /\ timers = {} /\ timerIds = 0
  /\ freshStart = TRUE /\ stop = FALSE /\ currentFailureCount = 0
  /\ cumulativePeriod = 0 /\ lastValue = Null /\ lastRunTime = 0
  /\ now = 0 /\ broken = {} /\ ranAt = -1

\* assert b;
Assert(name, b) == broken' = IF b THEN broken ELSE broken \cup {name}

SetCumulativePeriod(d) == cumulativePeriod' = Cumulative(d, MaximumCumulativePeriod)

\* Broken variant: the TimerTask is created and never scheduled.
ArmNothing(d) ==
  /\ timerIds' = timerIds + 1 /\ delayTask' = timerIds'
  /\ Then(<<>>) /\ UNCHANGED timers

-----------------------------------------------------------------------------
(***************************************************************************)
(* executeTask and the timer.                                              *)
(***************************************************************************)
\* schedule(delayTask = createTimerTask(task), d): a negative delay, and one that
\* overflows the execution time, is an IllegalArgumentException of java.util.Timer.
Arm(d) ==
  /\ timerIds' = timerIds + 1 /\ delayTask' = timerIds'
  /\ IF d < 0 \/ d = MaxMillis THEN Abort /\ UNCHANGED timers
     ELSE Then(<<>>) /\ timers' = timers \cup {[id |-> timerIds', k |-> task, due |-> now + d]}

ExecuteNow(k) == St("executeNow", k, "READY")

ExecuteFresh ==
  /\ freshStart
  /\ Assert("fresh: delayTask", delayTask = Null)
  /\ SetCumulativePeriod(Period)
  /\ IF Millis(Delay) = 0 THEN Then(<<ExecuteNow(task)>>) /\ UNCHANGED timerVars
                          ELSE Arm(Millis(Delay))

\* Broken variant: the next run never waits.
ExecuteAgainAtOnce ==
  /\ ~ freshStart
  /\ Then(<<ExecuteNow(task)>>)
  /\ UNCHANGED <<timerVars, broken, cumulativePeriod>>

ExecuteAgain ==
  LET cumulative == Millis(cumulativePeriod)
      runPeriod  == now - lastRunTime
  IN  /\ ~ freshStart
      /\ IF runPeriod < cumulative
         THEN Assert("again: delayTask", delayTask = Null) /\ Arm(Minus(cumulative, runPeriod))
         ELSE Then(<<ExecuteNow(task)>>) /\ UNCHANGED <<timerVars, broken>>
      /\ UNCHANGED cumulativePeriod

SExecute ==
  /\ At("execute")
  /\ IF task = Null
     THEN /\ Assert("execute: task", FALSE) /\ Abort
          /\ UNCHANGED <<timerVars, cumulativePeriod>>
     ELSE ExecuteFresh \/ ExecuteAgain
  /\ UNCHANGED <<taskVars, svVars, queue, calls, runVars, currentFailureCount, stop, lastValue, now>>

\* executeTaskNow, and Service.executeTask.
SExecuteNow ==
  /\ At("executeNow")
  /\ LET k == Head(todo).k
     IN  /\ lastRunTime' = now /\ freshStart' = FALSE
         /\ ranAt' = IF fut[k] = "NEW" THEN now ELSE ranAt
         /\ wpc' = IF wpc[k] = "new" THEN [wpc EXCEPT ![k] = "queued"] ELSE wpc
  /\ Then(<<>>)
  /\ UNCHANGED <<fut, tstate, trunning, tvalue, created, svVars, queue, calls, currentFailureCount,
                 timerVars, stop, cumulativePeriod, lastValue, broken, now>>

\* The Timer's thread: the TimerTask is off duty and hands over its Runnable.
TimerFires(t) ==
  /\ t.due <= now
  /\ timers' = timers \ {t}
  /\ queue' = Append(queue, <<ExecuteNow(t.k), Do("clearDelay"), Return>>)
  /\ UNCHANGED <<taskVars, svVars, todo, calls, runVars, currentFailureCount, delayTask, timerIds, stop,
                 cumulativePeriod, lastValue, broken, now>>

\* delayTask = null, at the end of that Runnable.
ClearDelay ==
  /\ At("clearDelay")
  /\ delayTask' = Null
  /\ Then(<<>>)
  /\ UNCHANGED <<taskVars, svVars, queue, calls, runVars, currentFailureCount, timers, timerIds, stop,
                 cumulativePeriod, lastValue, broken, now>>

-----------------------------------------------------------------------------
(***************************************************************************)
(* The hooks. They run inside the assignment that made the task SUCCEEDED  *)
(* or FAILED, after the application's handlers; what they throw reaches the*)
(* caller of that assignment.                                              *)
(***************************************************************************)
SuperReset == <<Do("reset"), Do("resetRest")>>
CancelFromReadyState == <<St("setOwn", Null, "SCHEDULED"), St("setOwn", Null, "CANCELLED")>>

\* Broken variant: succeeded() does not look at stop.
SucceededIgnoresStop ==
  /\ At("hook") /\ Head(todo).v = "SUCCEEDED"
  /\ lastValue' = value
  /\ SetCumulativePeriod(Period)
 
  /\ Then(SuperReset \o <<Do("assertNotFresh"), Do("start")>>)
  /\ UNCHANGED <<taskVars, svVars, queue, calls, runVars, currentFailureCount, timerVars, stop,
                 broken, now>>

Succeeded ==
  /\ At("hook") /\ Head(todo).v = "SUCCEEDED"
  /\ lastValue' = value
  /\ SetCumulativePeriod(Period)
 
  /\ Then(SuperReset \o <<Do("assertNotFresh")>>
            \o (IF stop THEN CancelFromReadyState ELSE <<Do("start")>>))
  /\ UNCHANGED <<taskVars, svVars, queue, calls, runVars, currentFailureCount, timerVars, stop,
                 broken, now>>

\* Broken variant: one failure too many.
RestartsOneMore == RestartOnFailure /\ MaximumFailureCount >= currentFailureCount + 1

Restarts == RestartOnFailure /\ MaximumFailureCount > currentFailureCount + 1

Failed ==
  /\ At("hook") /\ Head(todo).v = "FAILED"
  /\ Assert("failed: delayTask", delayTask = Null)
  /\ currentFailureCount' = currentFailureCount + 1
  /\ IF Restarts
     THEN /\ SetCumulativePeriod(LinearBackoff(Period, currentFailureCount'))
          /\ Then(SuperReset \o <<Do("assertNotFresh"), Do("start")>>)
     ELSE UNCHANGED cumulativePeriod /\ Then(<<>>)
  /\ UNCHANGED <<taskVars, svVars, queue, calls, runVars, timerVars, stop, lastValue, now>>

OtherHook ==
  /\ Hook /\ Head(todo).v \notin {"SUCCEEDED", "FAILED"}
  /\ UNCHANGED <<schVars, now>>

\* assert freshStart == false;
AssertNotFresh ==
  /\ At("assertNotFresh")
  /\ Assert("hook: freshStart", ~ freshStart)
  /\ Then(<<>>)
  /\ UNCHANGED <<taskVars, svVars, queue, calls, runVars, currentFailureCount, timerVars, stop,
                 cumulativePeriod, lastValue, now>>

-----------------------------------------------------------------------------
(***************************************************************************)
(* reset and cancel, after the method of Service.                          *)
(***************************************************************************)
ResetSchedule ==
  /\ At("resetSchedule")
  /\ stop' = FALSE /\ SetCumulativePeriod(Period) /\ lastValue' = Null
  /\ currentFailureCount' = 0 /\ lastRunTime' = 0 /\ freshStart' = TRUE
  /\ ranAt' = -1
  /\ Then(<<>>)
  /\ UNCHANGED <<taskVars, svVars, queue, calls, timerVars, broken, now>>

CancelSchedule ==
  /\ At("cancelSchedule")
  /\ stop' = TRUE
  /\ timers' = {t \in timers : t.id # delayTask}
  /\ delayTask' = Null
  /\ Then(<<>>)
  /\ UNCHANGED <<taskVars, svVars, queue, calls, runVars, currentFailureCount, timerIds, cumulativePeriod,
                 lastValue, broken, now>>

SBody(m) ==
  CASE m = "start"   -> Body("start")
    [] m = "cancel"  -> Body("cancel") \o <<Do("cancelSchedule")>>
    [] m = "reset"   -> SuperReset \o <<Do("resetSchedule")>>
    [] m = "restart" -> CancelAndLetGo \o SuperReset \o <<Do("resetSchedule"), Do("start")>>

SCall(m) ==
  /\ \/ todo = <<>> /\ m \in Calls
     \/ InHandler /\ m \in HandlerCalls
  /\ calls < MaxCalls /\ calls' = calls + 1
  /\ m \in {"start", "restart"} => created + StartsUnderWay < MaxTasks
  /\ todo' = SBody(m) \o <<Return>> \o todo
  /\ UNCHANGED <<taskVars, svVars, queue, schVars, now>>

-----------------------------------------------------------------------------
Tick ==
  /\ now < MaxTime
  /\ now' = now + 1
  /\ UNCHANGED <<vars, schVars>>

SFx == \/ FxCommon /\ UNCHANGED <<schVars, now>>
       \/ SExecute \/ SExecuteNow \/ ClearDelay \/ Succeeded \/ Failed \/ OtherHook
       \/ AssertNotFresh \/ ResetSchedule \/ CancelSchedule

\* The model ends where the next iteration would exceed MaxTasks.
AtBound == At("start") /\ created = MaxTasks

SIdle ==
  /\ Quiescent \/ AtBound
  /\ now = MaxTime
  /\ UNCHANGED allVars

SNext == \/ SFx \/ (\E m \in Methods : SCall(m))
         \/ (StartOffFx /\ UNCHANGED <<schVars, now>>)
         \/ (\E k \in Tasks : Pool(k) /\ UNCHANGED <<schVars, now>>)
         \/ (\E t \in timers : TimerFires(t))
         \/ Tick \/ SIdle

SSpec == SInit /\ [][SNext]_allVars

-----------------------------------------------------------------------------
(***************************************************************************)
(* Properties.                                                             *)
(***************************************************************************)
\* The type invariant.
STypeOK ==
  /\ TypeOK
  /\ timerIds \in Nat /\ delayTask \in 0 .. timerIds
  /\ \A t \in timers : t.id \in 1 .. timerIds /\ t.k \in 1 .. created
  /\ \A t, u \in timers : t.id = u.id => t = u
  /\ {freshStart, stop} \subseteq BOOLEAN
  /\ currentFailureCount \in Nat
  /\ lastValue \in 0 .. created /\ lastRunTime \in 0 .. now /\ now \in 0 .. MaxTime
  /\ ranAt \in -1 .. now

\* "The period defines the minimum amount of time from the start of one run and
\* the start of the next": a run of the same series begins no earlier, however
\* late or stale the timers are.
MinimumPeriod ==
  [][\A k \in Tasks :
       wpc[k] = "new" /\ wpc'[k] = "queued" /\ fut[k] = "NEW" /\ ranAt >= 0
         => now - ranAt >= Millis(Cumulative(Period, MaximumCumulativePeriod))]_allVars

\* cancel(): "no additional iterations will occur". While stop is set, no task
\* enters its call().
CancelStops ==
  [][stop /\ stop' => \A k \in Tasks : wpc'[k] = "call" => wpc[k] = "call"]_allVars

\* A Service that waits in SCHEDULED will be woken: its task is with the
\* executor, or a timer or a Runnable for it is under way.
NotStranded ==
  todo = <<>> /\ queue = <<>> /\ state = "SCHEDULED" =>
    wpc[task] # "new" \/ \E t \in timers : t.k = task

\* Automatic restarts stop at maximumFailureCount, and not before: a ScheduledService
\* that failed and is on its way again has failures left, and one that rests in
\* FAILED has none or may not restart.
FailureBudget ==
  todo = <<>> /\ currentFailureCount > 0 =>
    /\ state \in {"SCHEDULED", "RUNNING"} => currentFailureCount < MaximumFailureCount
    /\ state = "FAILED" => ~ RestartOnFailure \/ currentFailureCount >= MaximumFailureCount

\* The assertions of executeTask, succeeded and failed hold.
AssertionsHold == broken = {}

\* The timer of a ScheduledService: there is one when it waits, the fields about it
\* have their types, and what the code asserts of them holds.
TimerInv == STypeOK /\ NotStranded /\ AssertionsHold

\* Whatever timers of earlier series still fire, no run comes too early and none
\* after cancel().
RunsOnSchedule == MinimumPeriod /\ CancelStops
=============================================================================
