------------------------------ MODULE FxPlatform ------------------------------
(***************************************************************************)
(* PlatformImpl on top of the event loops of Glass (module GlassLoops):    *)
(* runLater, the count of pending Runnables, and the idle check by which   *)
(* the toolkit exits after the last window was closed. The model ends when *)
(* the listeners are told that the platform is idle.                       *)
(***************************************************************************)
EXTENDS GlassLoops

CONSTANT MaxWindowOps   \* bound on showing and closing windows

ASSUME WindowAssumption == MaxWindowOps \in Nat

VARIABLES
  pendingRunnables, numWindows, lastWindowClosed, reallyIdle,
  caller,              \* a background thread in runLater
  deferred, windowOps, \* bounds: Runnables and window operations so far
  notified             \* notifyFinishListeners was called

platformVars == <<pendingRunnables, numWindows, lastWindowClosed, reallyIdle, caller,
                  deferred, windowOps, notified>>
vars == <<glassVars, platformVars>>

\* The application has shown its first window.
Init ==
  /\ GlassInit
  /\ pendingRunnables = 0 /\ numWindows = 1 /\ lastWindowClosed = FALSE
  /\ reallyIdle = FALSE /\ caller = "idle" /\ deferred = 0 /\ windowOps = 0
  /\ notified = FALSE

\* runLater on a background thread: counted first, deferred then
RunLater ==
  /\ caller = "idle" /\ deferred < MaxRunnables
  /\ pendingRunnables' = pendingRunnables + 1 /\ caller' = "defers" /\ deferred' = deferred + 1
  /\ UNCHANGED <<glassVars, numWindows, lastWindowClosed, reallyIdle, windowOps, notified>>

Defer ==
  /\ caller = "defers"
  /\ invokeLater("app") /\ caller' = "idle"
  /\ UNCHANGED <<dispVars, flags, native, batch, fx, loopVars, waitVars, events, started,
                 misled, pendingRunnables, numWindows, lastWindowClosed, reallyIdle,
                 deferred, windowOps, notified>>

\* runLater in a handler or Runnable
RunLaterOnFx ==
  /\ InApp /\ deferred < MaxRunnables
  /\ pendingRunnables' = pendingRunnables + 1 /\ deferred' = deferred + 1
  /\ invokeLater("app")
  /\ UNCHANGED <<dispVars, flags, native, batch, fx, loopVars, waitVars, events, started,
                 misled, numWindows, lastWindowClosed, reallyIdle, caller, windowOps, notified>>

\* Broken: the first check that finds nothing to do is believed.
checkIdleOnce(pending, windows) ==
  LET closed == windows = 0
      quiet == closed /\ pending = 0 /\ NestedLoops = {}
  IN  /\ lastWindowClosed' = (closed /\ ~quiet)
      /\ reallyIdle' = FALSE /\ notified' = quiet
      /\ pendingRunnables' = pending
      /\ UNCHANGED <<deque, posted>>

\* checkIdle on the FX thread: idle twice, with a Runnable of its own between,
\* to let an event in process show another window
checkIdle(pending, windows) ==
  LET closed == windows = 0
      quiet == closed /\ pending = 0 /\ NestedLoops = {}
      really == closed /\ reallyIdle
  IN  /\ lastWindowClosed' = (closed /\ ~(quiet /\ really))
      /\ reallyIdle' = (really \/ quiet)
      /\ notified' = (quiet /\ really)
      /\ IF quiet /\ ~really
         THEN invokeLater("dummy") /\ pendingRunnables' = pending + 1
         ELSE UNCHANGED <<deque, posted>> /\ pendingRunnables' = pending

\* changedTopLevelWindows
ChangedTopLevelWindows(windows) ==
  /\ InApp /\ windowOps < MaxWindowOps /\ windows # numWindows
  /\ numWindows' = windows /\ windowOps' = windowOps + 1
  /\ checkIdle(pendingRunnables, windows)
  /\ UNCHANGED <<dispVars, flags, native, batch, fx, loopVars, waitVars, events, started,
                 misled, caller, deferred>>

ExitedLastNestedLoop ==
  /\ Head(fx).k = "run" /\ Head(fx).at = "exited"
  /\ At("app") /\ checkIdle(pendingRunnables, numWindows)
  /\ UNCHANGED <<dispVars, flags, native, batch, loopVars, waitVars, events, started,
                 misled, numWindows, caller, deferred, windowOps>>

\* The finally clause of a Runnable of runLater
Finally ==
  /\ Head(fx).k = "run" /\ Head(fx).at = "fin"
  /\ At("end") /\ checkIdle(pendingRunnables - 1, numWindows)
  /\ UNCHANGED <<dispVars, flags, native, batch, loopVars, waitVars, events, started,
                 misled, numWindows, caller, deferred, windowOps>>

Glass ==
  /\ \/ Dispatcher \/ FxLoops \/ Event \/ InvokeAndWait
     \/ Enter \/ Return \/ \E e \in 1..MaxLoops : Leave(e)
  /\ UNCHANGED platformVars

Platform ==
  \/ RunLater \/ Defer \/ RunLaterOnFx \/ ExitedLastNestedLoop \/ Finally
  \/ \E w \in {0, 1} : ChangedTopLevelWindows(w)

Next == ~notified /\ (Glass \/ Platform)

Spec == Init /\ [][Next]_vars

\* The FX thread goes on with what it is in; events come when they like.
FxStep ==
  /\ ~notified
  /\ \/ (FxLoops \/ Return) /\ UNCHANGED platformVars
     \/ ExitedLastNestedLoop \/ Finally

Fairness ==
  /\ WF_vars(FxStep)
  /\ WF_vars(~notified /\ Dispatcher /\ UNCHANGED platformVars)
  /\ WF_vars(~notified /\ Defer)

FairSpec == Spec /\ Fairness

(***************************************************************************)
(* Properties.                                                             *)
(***************************************************************************)
\* The stack of EventLoop and the nested native loops are the same loops in the same
\* order, the last one entered innermost.
StackAgrees ==
  /\ {stack[i] : i \in DOMAIN stack} = {fx[i].el : i \in NestedLoops}
  /\ \A i, j \in DOMAIN stack : i < j => stack[i] > stack[j]
  /\ \A i, j \in NestedLoops : i < j => fx[i].el > fx[j].el

\* Types.
TypeOK ==
  /\ disp \in {"take", "check", "defer", "submit", "wait"}
  /\ batch \in 0..Len(native) /\ pendingRunnables \in Nat /\ numWindows \in {0, 1}
  /\ made \in 0..MaxLoops

\* The positions of the Runnables of invokeLater in a queue.
Later(s) == {i \in DOMAIN s : s[i].kind # "wait"}
InHand == IF disp \in {"check", "submit"} THEN <<hand>> ELSE <<>>

\* Application.invokeLater: what was deferred and has not started is, in the
\* order of the calls, in GTK's queue, in the hand of the dispatcher and in its
\* deque: no Runnable is lost, started twice or overtaken.
OneQueue ==
  LET q == native \o InHand \o deque IN
  /\ {q[i].n : i \in Later(q)} = started + 1 .. posted
  /\ \A i, j \in Later(q) : i < j => q[i].n < q[j].n

\* The assertions of EventLoop.enter: a loop returns only when it is the innermost
\* one and was left, and never with the value meant for another loop (with none,
\* if another loop was entered while it was being left).
ReturnsInOrder ==
  Head(fx).k = "left" => /\ Head(stack) = Head(fx).el /\ state[Head(fx).el] = "LEAVING"
                         /\ Head(fx).ret \in {0, Head(fx).el}

\* InvokeLaterDispatcher: the Runnable that leaves a nested loop is the last one
\* to run in it, unless the dispatcher was misled by a loop entered elsewhere.
LeaverIsLast ==
  InLoop /\ Head(fx).quit \in {"app", "leave"} /\ batch > 0 /\ ~misled
    => Head(native).kind = "wait"

\* EventLoop's stack agrees with the native loops, they return last in, first out,
\* and the Runnable that leaves one is the last to run in it.
LoopDiscipline == TypeOK /\ StackAgrees /\ ReturnsInOrder /\ LeaverIsLast

\* The Runnables of runLater that have not come to their finally clause.
Unfinished ==
  LET Of(s) == {<<s[i].kind, s[i].n>> : i \in DOMAIN s}
      Under == {i \in DOMAIN fx : fx[i].k = "run" /\ fx[i].kind \in {"app", "dummy"}
                                  /\ fx[i].at # "end"}
  IN  {p \in Of(native) \union Of(InHand) \union Of(deque) : p[1] \in {"app", "dummy"}}
      \union {<<fx[i].kind, fx[i].n>> : i \in Under}

\* PlatformImpl: the counter that keeps the toolkit from exiting counts every
\* Runnable that was accepted and has not ended.
PendingCounts ==
  pendingRunnables = Cardinality(Unfinished) + (IF caller = "defers" THEN 1 ELSE 0)

\* Everything is done: no callback, Runnable or loop is left.
Quiescent ==
  /\ fx = <<MainLoop>> /\ deque = <<>> /\ native = <<>>
  /\ disp \in {"take", "defer"} /\ caller = "idle"

\* checkIdle: if everything is done and no window is open, the listeners have
\* been told: the last one to end always checks again.
IdleIsNoticed == Quiescent /\ numWindows = 0 => notified

\* checkIdle: the listeners are told only if no window is open, no nested loop
\* runs and no Runnable is left, and not from inside a handler that may still
\* show a window, unless a nested loop has ended in it.
IdleIsReal ==
  notified => /\ numWindows = 0 /\ NestedLoops = {} /\ Unfinished = {} /\ caller = "idle"
              /\ InApp => Head(fx).nested

\* Implicit exit comes when everything is done, and only then.
IdleIsExact == PendingCounts /\ IdleIsNoticed /\ IdleIsReal

\* A loop is being left, as the dispatcher sees it, while the FX thread is in
\* another one that was entered meanwhile.
Blocked ==
  leavingNestedEventLoop /\ \E i \in DOMAIN fx :
     fx[i].k = "loop" /\ fx[i].quit = "no" /\ \A j \in 1..(i - 1) : fx[j].k # "loop"

\* Whatever loops are entered and left, a deferred Runnable is started in the
\* end, unless a loop was entered while another was being left.
RunnablesStart ==
  \A n \in 1..MaxRunnables :
    posted >= n ~> started >= n \/ Blocked \/ notified

\* EventLoop.leave: a loop that was left returns once it is the innermost one,
\* also if it was left while another one was running in it.
LeavingEnds ==
  \A e \in 1..MaxLoops :
    stack # <<>> /\ Head(stack) = e /\ state[e] = "LEAVING"
      ~> stack = <<>> \/ Head(stack) # e \/ notified
================================================================================
