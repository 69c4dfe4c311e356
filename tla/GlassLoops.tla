------------------------------ MODULE GlassLoops ------------------------------
(***************************************************************************)
(* Nested event loops and deferred Runnables of Glass: EventLoop, the      *)
(* InvokeLaterDispatcher thread, and the GTK main loop below them.         *)
(*                                                                         *)
(* The FX thread is the stack fx of what it is in, innermost first: the    *)
(* native loops and, between them, the Runnables and event handlers that   *)
(* entered the next loop. A Runnable is first in deque, then in the hand   *)
(* of the dispatcher, then in the queue native of GTK, from which a loop   *)
(* takes batches: all that is there when an iteration begins. A step ends  *)
(* where another thread can see its effect. Module FxPlatform puts         *)
(* PlatformImpl on top and has the specification.                          *)
(***************************************************************************)
EXTENDS Integers, Sequences, FiniteSets, SequencesExt

CONSTANTS
  MaxRunnables,   \* bound on the Runnables the application defers
  MaxLoops,       \* bound on the nested loops that are entered
  MaxEvents,      \* bound on the native events
  MaxWaits        \* bound on the calls of invokeAndWait

ASSUME LoopsAssumption ==
  /\ MaxRunnables \in Nat /\ MaxLoops \in Nat /\ MaxEvents \in Nat /\ MaxWaits \in Nat

VARIABLES
  deque, posted,                    \* the dispatcher's deque, Runnables so far
  disp, hand, futureDone,           \* the dispatcher, its Runnable and Future
  nestedEventLoopEntered, leavingNestedEventLoop,
  native, batch,                    \* GTK's queue, what is left of a batch
  fx,                               \* the FX thread
  stack, state, made,               \* EventLoop.stack, their states, loops so far
  eventLoopExitEnterPassValue,
  waiter, waits, events,            \* a thread in invokeAndWait; bounds
  started, misled                   \* history: Runnables started in order, and
                                    \* whether the dispatcher took a loop
                                    \* entered elsewhere for its Runnable's

dispVars == <<disp, hand, futureDone>>
flags == <<nestedEventLoopEntered, leavingNestedEventLoop>>
loopVars == <<stack, state, made, eventLoopExitEnterPassValue>>
waitVars == <<waiter, waits>>
glassVars == <<deque, posted, dispVars, flags, native, batch, fx, loopVars, waitVars,
               events, started, misled>>

Nothing == [kind |-> "none", n |-> 0]
MainLoop == [k |-> "loop", el |-> 0, quit |-> "no"]
\* A Runnable or handler: where it is, and whether a nested loop has ended in it
Frame(r, at) == [k |-> "run", kind |-> r.kind, n |-> r.n, at |-> at, nested |-> FALSE]

GlassInit ==
  /\ deque = <<>> /\ posted = 0 /\ started = 0 /\ misled = FALSE
  /\ disp = "take" /\ hand = Nothing /\ futureDone = FALSE
  /\ nestedEventLoopEntered = FALSE /\ leavingNestedEventLoop = FALSE
  /\ native = <<>> /\ batch = 0 /\ fx = <<MainLoop>>
  /\ stack = <<>> /\ state = [e \in 1..MaxLoops |-> "IDLE"] /\ made = 0
  /\ eventLoopExitEnterPassValue = 0
  /\ waiter = "idle" /\ waits = 0 /\ events = 0

\* Application.isNestedLoopRunning: nestedEventLoopCounter > 0
NestedLoops == {i \in DOMAIN fx : fx[i].k \in {"loop", "left"} /\ fx[i].el # 0}

(***************************************************************************)
(* The dispatcher.                                                         *)
(***************************************************************************)
\* InvokeLaterDispatcher.invokeLater, on any thread
invokeLater(kind) ==
  /\ deque' = Append(deque, [kind |-> kind, n |-> posted + 1])
  /\ posted' = posted + 1

DispatcherTake ==
  /\ disp = "take" /\ deque # <<>>
  /\ hand' = Head(deque) /\ deque' = Tail(deque) /\ disp' = "check"
  /\ UNCHANGED <<posted, futureDone, flags, native, batch, fx, loopVars, waitVars,
                 events, started, misled>>

\* Broken: a Runnable that must wait is put behind the others.
DeferLast ==
  /\ disp = "check"
  /\ IF leavingNestedEventLoop
     THEN deque' = Append(deque, hand) /\ hand' = Nothing /\ disp' = "defer"
     ELSE disp' = "submit" /\ UNCHANGED <<deque, hand>>
  /\ UNCHANGED <<posted, futureDone, flags, native, batch, fx, loopVars, waitVars,
                 events, started, misled>>

\* The flag is read without the lock; while a loop is being left the Runnable
\* goes back.
DispatcherCheck ==
  /\ disp = "check"
  /\ IF leavingNestedEventLoop
     THEN deque' = <<hand>> \o deque /\ hand' = Nothing /\ disp' = "defer"
     ELSE disp' = "submit" /\ UNCHANGED <<deque, hand>>
  /\ UNCHANGED <<posted, futureDone, flags, native, batch, fx, loopVars, waitVars,
                 events, started, misled>>

DispatcherDefer ==
  /\ disp = "defer" /\ ~leavingNestedEventLoop
  /\ disp' = "take"
  /\ UNCHANGED <<deque, posted, hand, futureDone, flags, native, batch, fx, loopVars,
                 waitVars, events, started, misled>>

DispatcherSubmit ==
  /\ disp = "submit"
  /\ native' = Append(native, hand) /\ futureDone' = FALSE /\ disp' = "wait"
  /\ UNCHANGED <<deque, posted, hand, flags, batch, fx, loopVars, waitVars, events,
                 started, misled>>

\* Broken: the notification of an entered loop is ignored.
WaitForFuture ==
  /\ disp = "wait" /\ futureDone
  /\ disp' = "take" /\ hand' = Nothing /\ nestedEventLoopEntered' = FALSE
  /\ UNCHANGED <<deque, posted, futureDone, leavingNestedEventLoop, native, batch, fx,
                 loopVars, waitVars, events, started, misled>>

\* The Runnable has ended, or has (it seems) entered a nested loop.
DispatcherWait ==
  /\ disp = "wait" /\ (futureDone \/ nestedEventLoopEntered)
  /\ disp' = "take" /\ hand' = Nothing /\ nestedEventLoopEntered' = FALSE
  /\ misled' = (misled \/ (~futureDone /\ Contains(native, hand)))
  /\ UNCHANGED <<deque, posted, futureDone, leavingNestedEventLoop, native, batch, fx,
                 loopVars, waitVars, events, started>>

Dispatcher ==
  DispatcherTake \/ DispatcherCheck \/ DispatcherDefer \/ DispatcherSubmit \/ DispatcherWait

\* InvokeLaterDispatcher.invokeAndWait: past the deque, to the native queue
InvokeAndWait ==
  /\ waiter = "idle" /\ waits < MaxWaits
  /\ waiter' = "waits" /\ waits' = waits + 1
  /\ native' = Append(native, [kind |-> "wait", n |-> 0])
  /\ UNCHANGED <<deque, posted, dispVars, flags, batch, fx, loopVars, events, started, misled>>

(***************************************************************************)
(* The native loop.                                                        *)
(***************************************************************************)
\* The FX thread is in a native loop, between two callbacks.
InLoop == Head(fx).k = "loop"

\* g_main_context_iterate: everything of one priority is dispatched before the
\* loop looks at its flag again.
Iterate ==
  /\ InLoop /\ batch = 0 /\ Head(fx).quit = "no" /\ native # <<>>
  /\ batch' = Len(native)
  /\ UNCHANGED <<deque, posted, dispVars, flags, native, fx, loopVars, waitVars, events,
                 started, misled>>

\* Where a Runnable begins: application code, what PlatformImpl does after it,
\* or the second half of a leave.
Entry(kind) == IF kind = "dummy" THEN "fin" ELSE IF kind = "leave" THEN "leave" ELSE "app"

\* call_runnable
Dispatch ==
  /\ InLoop /\ batch > 0
  /\ LET r == Head(native) IN
       /\ fx' = <<Frame(r, Entry(r.kind))>> \o fx
       /\ started' = IF r.kind = "wait" THEN started ELSE r.n
  /\ native' = Tail(native) /\ batch' = batch - 1
  /\ misled' = (misled /\ \E i \in DOMAIN native' : native'[i].kind # "wait")
  /\ UNCHANGED <<deque, posted, dispVars, flags, loopVars, waitVars, events>>

\* An event is dispatched on its own: its priority is higher.
Event ==
  /\ InLoop /\ batch = 0 /\ Head(fx).quit = "no" /\ events < MaxEvents
  /\ fx' = <<Frame([kind |-> "event", n |-> 0], "app")>> \o fx
  /\ events' = events + 1
  /\ UNCHANGED <<deque, posted, dispVars, flags, native, batch, loopVars, waitVars,
                 started, misled>>

\* gtk_main returns: _enterNestedEventLoop goes on behind it.
LoopReturn ==
  /\ InLoop /\ batch = 0 /\ Head(fx).quit # "no"
  /\ fx' = <<[k |-> "left", el |-> Head(fx).el, ret |-> eventLoopExitEnterPassValue]>> \o Tail(fx)
  /\ eventLoopExitEnterPassValue' = 0
  /\ leavingNestedEventLoop' = FALSE
  /\ UNCHANGED <<deque, posted, dispVars, nestedEventLoopEntered, native, batch, stack, state,
                 made, waitVars, events, started, misled>>

(***************************************************************************)
(* EventLoop and the Runnables that use it.                                *)
(***************************************************************************)
\* Application code runs on the FX thread.
InApp == Head(fx).k = "run" /\ Head(fx).at = "app"

At(label) == fx' = <<[Head(fx) EXCEPT !.at = label]>> \o Tail(fx)

\* QuantumToolkit.enterNestedEventLoop and EventLoop.enter, up to gtk_main;
\* the nested loop drops the rest of the outer one's batch.
Enter ==
  /\ InApp /\ made < MaxLoops
  /\ made' = made + 1
  /\ state' = [state EXCEPT ![made + 1] = "ACTIVE"] /\ stack' = <<made + 1>> \o stack
  /\ nestedEventLoopEntered' = TRUE
  /\ fx' = <<[k |-> "loop", el |-> made + 1, quit |-> "no"]>> \o fx
  /\ batch' = 0
  /\ UNCHANGED <<deque, posted, dispVars, leavingNestedEventLoop, native,
                 eventLoopExitEnterPassValue, waitVars, events, started, misled>>

\* The innermost native loop of frames f is told to quit by a Runnable of this kind.
Quit(f, kind) ==
  LET i == CHOOSE j \in DOMAIN f : f[j].k = "loop" /\ \A l \in 1..(j - 1) : f[l].k # "loop"
  IN  [f EXCEPT ![i].quit = kind]

\* Application.leaveNestedEventLoop
leaveNestedEventLoop(e, f, kind) ==
  /\ leavingNestedEventLoop' = TRUE
  /\ eventLoopExitEnterPassValue' = e
  /\ fx' = Quit(f, kind)
  /\ UNCHANGED nestedEventLoopEntered

\* Broken: a loop below the innermost one is left natively at once.
LeaveAnyLoop(e) ==
  /\ InApp /\ state[e] = "ACTIVE"
  /\ state' = [state EXCEPT ![e] = "LEAVING"]
  /\ leaveNestedEventLoop(e, fx, Head(fx).kind)
  /\ UNCHANGED <<deque, posted, dispVars, native, batch, stack, made, waitVars, events,
                 started, misled>>

\* QuantumToolkit.exitNestedEventLoop and EventLoop.leave: only the innermost
\* loop is left at once.
Leave(e) ==
  /\ InApp /\ state[e] = "ACTIVE"
  /\ state' = [state EXCEPT ![e] = "LEAVING"]
  /\ IF Head(stack) = e
     THEN leaveNestedEventLoop(e, fx, Head(fx).kind)
     ELSE UNCHANGED <<flags, eventLoopExitEnterPassValue, fx>>
  /\ UNCHANGED <<deque, posted, dispVars, native, batch, stack, made, waitVars, events,
                 started, misled>>

\* The Runnable of EventLoop.enter: the loop may be another one by now.
LeaveAgain ==
  /\ Head(fx).k = "run" /\ Head(fx).at = "leave"
  /\ LET f == <<[Head(fx) EXCEPT !.at = "end"]>> \o Tail(fx) IN
       IF stack # <<>> /\ state[Head(stack)] = "LEAVING"
       THEN leaveNestedEventLoop(Head(stack), f, "leave")
       ELSE fx' = f /\ UNCHANGED <<flags, eventLoopExitEnterPassValue>>
  /\ UNCHANGED <<deque, posted, dispVars, native, batch, stack, state, made, waitVars,
                 events, started, misled>>

\* What the caller of enterNestedEventLoop does next.
Resume ==
  <<[fx[2] EXCEPT !.at = IF Cardinality(NestedLoops) = 1 THEN "exited" ELSE "app",
                  !.nested = TRUE]>> \o Tail(Tail(fx))

\* Broken: a loop that was left out of order is forgotten.
LoopPopOnly ==
  /\ Head(fx).k = "left"
  /\ state' = [state EXCEPT ![Head(fx).el] = "IDLE"] /\ stack' = Tail(stack)
  /\ fx' = Resume
  /\ UNCHANGED <<deque, posted, dispVars, flags, native, batch, made,
                 eventLoopExitEnterPassValue, waitVars, events, started, misled>>

\* The finally clause of EventLoop.enter: the loop below may have been left
\* before this one.
LoopPop ==
  /\ Head(fx).k = "left"
  /\ state' = [state EXCEPT ![Head(fx).el] = "IDLE"] /\ stack' = Tail(stack)
  /\ IF stack' # <<>> /\ state[Head(stack')] = "LEAVING"
     THEN invokeLater("leave") ELSE UNCHANGED <<deque, posted>>
  /\ fx' = Resume
  /\ UNCHANGED <<dispVars, flags, native, batch, made, eventLoopExitEnterPassValue, waitVars,
                 events, started, misled>>

\* The application's part of a Runnable or handler ends.
Return ==
  /\ InApp
  /\ CASE Head(fx).kind = "event" -> fx' = Tail(fx)
       [] Head(fx).kind = "wait" -> At("end")
       [] OTHER -> At("fin")
  /\ UNCHANGED <<deque, posted, dispVars, flags, native, batch, loopVars, waitVars, events,
                 started, misled>>

\* The finally clause of Future.run wakes whoever waits for it.
FutureRun ==
  /\ Head(fx).k = "run" /\ Head(fx).at = "end"
  /\ fx' = Tail(fx)
  /\ futureDone' = (futureDone \/ (disp = "wait" /\ Head(fx).n = hand.n))
  /\ waiter' = IF Head(fx).kind = "wait" THEN "idle" ELSE waiter
  /\ UNCHANGED <<deque, posted, disp, hand, flags, native, batch, loopVars, waits, events,
                 started, misled>>

FxLoops == Iterate \/ Dispatch \/ LoopReturn \/ LoopPop \/ LeaveAgain \/ FutureRun
================================================================================
