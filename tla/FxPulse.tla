------------------------------- MODULE FxPulse -------------------------------
(***************************************************************************)
(* The pulse of the Quantum toolkit and its paint collector.  Three        *)
(* threads share the flags of QuantumToolkit, the dirty list and latch of  *)
(* PaintCollector, the painting flag of every scene and the render lock:   *)
(*                                                                         *)
(*   - the FX thread runs application code, events and pulse();            *)
(*   - the render thread runs the jobs the FX thread submits, paints under *)
(*     the render lock and reports to PaintCollector.done();               *)
(*   - the timer thread, and done() itself on a synchronous pipeline, call *)
(*     postPulse().                                                        *)
(*                                                                         *)
(* A member of Scenes is one scene peer: a scene that is shown again after *)
(* it was hidden gets a new one.  All of them use the PresentingPainter.   *)
(***************************************************************************)
EXTENDS Naturals, Sequences, SequencesExt, FiniteSets

CONSTANTS
  Scenes,     \* the scene peers
  Pulse,      \* pulseRunnable, an entry of the FX thread's queue
  None,       \* no scene
  VsyncHint,  \* isVsyncEnabled and not hasNativeSystemVsync
  MaxOps,     \* bound on the events and calls of the application
  MaxFaults   \* bound on the paints that fail and the exceptions

ASSUME PulseAssumption ==
  /\ IsFiniteSet(Scenes)
  /\ Pulse \notin Scenes
  /\ None \notin Scenes
  /\ VsyncHint \in BOOLEAN
  /\ MaxOps \in Nat
  /\ MaxFaults \in Nat

VARIABLES
  nextPulseRequested, animationRunnable, animationRunning, pulseRunning,
  queue,       \* what Application.invokeLater has queued: Pulse, or the scene
               \* whose repaint a painter asked for
  dirtyScenes, hasDirty,
  latch,       \* the count of allWorkCompletedLatch
  painting,    \* the scenes whose painting flag is set
  jobs,        \* the queue of the render thread
  fx,          \* the FX thread, see Idle
  render,      \* the render thread: what it does and the job it does it for
  timer,       \* the timer thread
  peer,        \* of each scene: "none", "shown" or "gone"
  dirtyNodes,  \* the scenes with changes the render tree does not have
  unseen,      \* the scenes with changes of the render tree not yet presented
  threw,       \* history: an exception has cut a pulse or a paint short
  ops, faults

flags == <<nextPulseRequested, animationRunnable, animationRunning, pulseRunning>>
collector == <<dirtyScenes, hasDirty, latch>>
scene == <<peer, dirtyNodes, unseen>>
bounds == <<threw, ops, faults>>
vars == <<flags, queue, collector, painting, jobs, fx, render, timer, scene, bounds>>

-----------------------------------------------------------------------------
\* What the FX thread is doing: pc, the scenes the current loop has still to
\* visit, the scene of a live repaint, and, inside a live repaint that began in
\* the middle of a pulse, the scenes that pulse has still to visit.
Idle == [pc |-> "idle", todo |-> {}, live |-> None, outer |-> {}, nested |-> FALSE]

\* A job of the render thread: the paintRenderJob of a scene, or the RenderJob
\* of a live repaint, which has a latch of its own.
Job(s, live) == [scene |-> s, live |-> live]

Shown == {s \in Scenes : peer[s] = "shown"}

Init ==
  /\ nextPulseRequested = FALSE
  /\ animationRunnable = FALSE
  /\ animationRunning = FALSE
  /\ pulseRunning = FALSE
  /\ queue = <<>>
  /\ dirtyScenes = {}
  /\ hasDirty = FALSE
  /\ latch = 0
  /\ painting = {}
  /\ jobs = <<>>
  /\ fx = Idle
  /\ render = [pc |-> "idle", job |-> Job(None, FALSE)]
  /\ timer = "idle"
  /\ peer = [s \in Scenes |-> "none"]
  /\ dirtyNodes = Scenes
  /\ unseen = {}
  /\ threw = FALSE
  /\ ops = 0
  /\ faults = 0

-----------------------------------------------------------------------------
\* PaintCollector.addDirtyScene: the flag is only set with a new entry.
addDirtyScene(s) ==
  /\ dirtyScenes' = dirtyScenes \cup {s}
  /\ hasDirty' = (hasDirty \/ s \notin dirtyScenes)

removeDirtyScene(s) ==
  /\ dirtyScenes' = dirtyScenes \ {s}
  /\ hasDirty' = (dirtyScenes \ {s} # {})

\* GlassScene.sceneChanged: a scene without a stage is taken off the list.
sceneChanged(s) ==
  IF peer[s] = "shown" THEN addDirtyScene(s) ELSE removeDirtyScene(s)

\* Application code runs between two entries of the queue and in the middle of a
\* pulse: animations, layout and listeners.
AppCode ==
  /\ fx.pc \in {"idle", "fire"}
  /\ ops < MaxOps
  /\ ops' = ops + 1
  /\ UNCHANGED <<pulseRunning, latch, painting, jobs, render, timer, threw, faults>>

RenderLockFree == render.pc # "paint"

\* Scene.addToDirtyList: only the first dirty node asks for a pulse.
ChangeNode(s) ==
  /\ AppCode
  /\ dirtyNodes' = dirtyNodes \cup {s}
  /\ nextPulseRequested' = (nextPulseRequested \/ (peer[s] = "shown" /\ s \notin dirtyNodes))
  /\ UNCHANGED <<animationRunnable, animationRunning, queue, dirtyScenes, hasDirty,
                 fx, peer, unseen>>

\* A window event: GlassScene.entireSceneNeedsRepaint on the FX thread.
NeedsRepaint(s) ==
  /\ AppCode
  /\ peer[s] = "shown"
  /\ sceneChanged(s)
  /\ UNCHANGED <<nextPulseRequested, animationRunnable, animationRunning, queue, fx, scene>>

\* QuantumToolkit.setAnimationRunnable.
SetAnimation(b) ==
  /\ AppCode
  /\ animationRunnable # b
  /\ animationRunnable' = b
  /\ animationRunning' = (animationRunning \/ b)
  /\ UNCHANGED <<nextPulseRequested, queue, dirtyScenes, hasDirty, fx, scene>>

\* Window.showing: the peer is created (Scene.impl_initPeer), joins its stage and
\* is dirty, and a pulse is asked for.  Nothing of it is on the screen yet.
Show(s) ==
  /\ AppCode
  /\ peer[s] = "none"
  /\ peer' = [peer EXCEPT ![s] = "shown"]
  /\ unseen' = unseen \cup {s}
  /\ addDirtyScene(s)
  /\ nextPulseRequested' = TRUE
  /\ UNCHANGED <<animationRunnable, animationRunning, queue, fx, dirtyNodes>>

\* As Hide, but the scene stays on the dirty list.
HideStaysDirty(s) ==
  /\ AppCode
  /\ peer[s] = "shown"
  /\ RenderLockFree
  /\ peer' = [peer EXCEPT ![s] = "gone"]
  /\ UNCHANGED <<nextPulseRequested, animationRunnable, animationRunning, queue, fx,
                 dirtyScenes, hasDirty, dirtyNodes, unseen>>

\* GlassStage.setScene(null) takes the scene off the list, ViewScene.dispose
\* closes the view under the render lock.
Hide(s) ==
  /\ AppCode
  /\ peer[s] = "shown"
  /\ RenderLockFree
  /\ peer' = [peer EXCEPT ![s] = "gone"]
  /\ removeDirtyScene(s)
  /\ UNCHANGED <<nextPulseRequested, animationRunnable, animationRunning, queue, fx,
                 dirtyNodes, unseen>>

\* Scene.snapshot: doCSSLayoutSyncForSnapshot waits for the renderer.
Snapshot(s) ==
  /\ AppCode
  /\ peer[s] = "shown"
  /\ fx.pc = "idle"
  /\ fx' = [fx EXCEPT !.pc = "snapshot", !.todo = {s}]
  /\ UNCHANGED <<nextPulseRequested, animationRunnable, animationRunning, queue,
                 dirtyScenes, hasDirty, scene>>

\* A resize of the view: the layout is stale, the scene dirty, and on platforms
\* with live resize a pulse without rendering and a paint follow before the
\* event returns.  It may arrive inside a pulse that resizes the window.
Resize(s) ==
  /\ AppCode
  /\ fx.live = None
  /\ peer[s] = "shown"
  /\ RenderLockFree
  /\ dirtyNodes' = dirtyNodes \cup {s}
  /\ nextPulseRequested' = (nextPulseRequested \/ s \notin dirtyNodes)
  /\ addDirtyScene(s)
  /\ fx' = [pc |-> "begin", todo |-> {}, live |-> s, outer |-> fx.todo,
            nested |-> (fx.pc = "fire")]
  /\ UNCHANGED <<animationRunnable, animationRunning, queue, peer, unseen>>

-----------------------------------------------------------------------------
(***************************************************************************)
(* The FX thread: an entry of the queue at a time.                         *)
(***************************************************************************)

\* Where a live repaint returns to: the event loop or the pulse around it.
Return ==
  IF fx.nested THEN [Idle EXCEPT !.pc = "fire", !.todo = fx.outer] ELSE Idle

\* QuantumToolkit.pulse up to firePulse: the request is taken before the scenes
\* are visited.  firePulse works on a copy of the listeners.
BeginPulse ==
  /\ nextPulseRequested' = FALSE
  /\ animationRunning' = animationRunnable
  /\ fx' = [fx EXCEPT !.pc = "fire", !.todo = Shown]
  /\ UNCHANGED <<animationRunnable, pulseRunning>>

TakePulse ==
  /\ fx.pc = "idle"
  /\ queue # <<>> /\ Head(queue) = Pulse
  /\ queue' = Tail(queue)
  /\ BeginPulse
  /\ UNCHANGED <<collector, painting, jobs, render, timer, scene, bounds>>

LivePulse ==
  /\ fx.pc = "begin"
  /\ BeginPulse
  /\ UNCHANGED <<queue, collector, painting, jobs, render, timer, scene, bounds>>

\* The Runnable of entireSceneNeedsRepaint called by a painter.
TakeRepaint ==
  /\ fx.pc = "idle"
  /\ queue # <<>> /\ Head(queue) \in Scenes
  /\ queue' = Tail(queue)
  /\ sceneChanged(Head(queue))
  /\ UNCHANGED <<flags, latch, painting, jobs, fx, render, timer, scene, bounds>>

\* ScenePulseListener.pulse of a scene with changes: it waits for the latch and
\* for the render lock, copies the changes to the render tree and marks the
\* scene, all under the lock.
SyncScene(s) ==
  /\ s \in fx.todo \cap dirtyNodes
  /\ dirtyNodes' = dirtyNodes \ {s}
  /\ \/ /\ peer[s] = "shown"
        /\ latch = 0
        /\ RenderLockFree
        /\ unseen' = unseen \cup {s}
        /\ sceneChanged(s)
     \/ /\ peer[s] # "shown"
        /\ UNCHANGED <<unseen, dirtyScenes, hasDirty>>

PulseScene(s) ==
  /\ fx.pc = "fire"
  /\ s \in fx.todo
  /\ \/ SyncScene(s)
     \/ s \notin dirtyNodes /\ UNCHANGED <<dirtyNodes, unseen, dirtyScenes, hasDirty>>
  /\ fx' = [fx EXCEPT !.todo = @ \ {s}]
  /\ UNCHANGED <<flags, queue, latch, painting, jobs, render, timer, peer, bounds>>

\* An exception out of a listener skips the rest of the pulse but for
\* endPulseRunning.
PulseThrows ==
  /\ fx.pc = "fire"
  /\ faults < MaxFaults
  /\ faults' = faults + 1
  /\ threw' = TRUE
  /\ pulseRunning' = FALSE
  /\ fx' = Return
  /\ UNCHANGED <<nextPulseRequested, animationRunnable, animationRunning, queue, collector,
                 painting, jobs, render, timer, scene, ops>>

\* PaintCollector.renderAll up to the loop: a new latch for the scenes of the
\* list, whatever is left of the old one.
RenderAll ==
  /\ fx.pc = "fire" /\ fx.todo = {} /\ fx.live = None
  /\ hasDirty
  /\ hasDirty' = FALSE
  /\ latch' = Cardinality(dirtyScenes)
  /\ fx' = [fx EXCEPT !.pc = "render", !.todo = dirtyScenes]
  /\ UNCHANGED <<flags, queue, dirtyScenes, painting, jobs, render, timer, scene, bounds>>

\* ViewScene.repaint: no second job for a scene that is being painted.
Repaint(s) ==
  /\ fx.pc = "render"
  /\ s \in fx.todo
  /\ IF peer[s] = "shown" /\ s \notin painting
       THEN painting' = painting \cup {s} /\ jobs' = Append(jobs, Job(s, FALSE))
       ELSE UNCHANGED <<painting, jobs>>
  /\ fx' = [fx EXCEPT !.todo = @ \ {s}]
  /\ UNCHANGED <<flags, queue, collector, render, timer, scene, bounds>>

\* As EndPulse, but the request is cleared here and not before the scenes.
EndPulseUnrequests ==
  /\ fx.todo = {} /\ fx.live = None
  /\ \/ fx.pc = "render" /\ dirtyScenes' = {}
     \/ fx.pc = "fire" /\ ~hasDirty /\ UNCHANGED dirtyScenes
  /\ pulseRunning' = FALSE
  /\ nextPulseRequested' = FALSE
  /\ fx' = Idle
  /\ UNCHANGED <<animationRunnable, animationRunning, queue, hasDirty,
                 latch, painting, jobs, render, timer, scene, bounds>>

\* The end of renderAll and endPulseRunning.
EndPulse ==
  /\ fx.todo = {} /\ fx.live = None
  /\ \/ fx.pc = "render" /\ dirtyScenes' = {}
     \/ fx.pc = "fire" /\ ~hasDirty /\ UNCHANGED dirtyScenes
  /\ pulseRunning' = FALSE
  /\ fx' = Idle
  /\ UNCHANGED <<nextPulseRequested, animationRunnable, animationRunning, queue, hasDirty,
                 latch, painting, jobs, render, timer, scene, bounds>>

\* The rest of liveRepaintRenderJob: pulse(false) ends without renderAll, the
\* painter is submitted in a job of its own and waited for.
LiveSubmit ==
  /\ fx.pc = "fire" /\ fx.todo = {} /\ fx.live # None
  /\ pulseRunning' = FALSE
  /\ jobs' = Append(jobs, Job(fx.live, TRUE))
  /\ fx' = [fx EXCEPT !.pc = "live"]
  /\ UNCHANGED <<nextPulseRequested, animationRunnable, animationRunning, queue, collector,
                 painting, render, timer, scene, bounds>>

\* As SnapshotSync, but the scene is not marked afterwards.
SnapshotUnmarked(s) ==
  /\ fx.pc = "snapshot"
  /\ s \in fx.todo
  /\ latch = 0
  /\ RenderLockFree
  /\ dirtyNodes' = dirtyNodes \ {s}
  /\ unseen' = IF s \in dirtyNodes THEN unseen \cup {s} ELSE unseen
  /\ fx' = Idle
  /\ UNCHANGED <<flags, queue, collector, painting, jobs, render, timer, peer, bounds>>

\* The rest of a snapshot: the changes go to the render tree under the lock, and
\* setNeedsRepaint marks the scene when the image is done.
SnapshotSync(s) ==
  /\ fx.pc = "snapshot"
  /\ s \in fx.todo
  /\ latch = 0
  /\ RenderLockFree
  /\ dirtyNodes' = dirtyNodes \ {s}
  /\ unseen' = IF s \in dirtyNodes THEN unseen \cup {s} ELSE unseen
  /\ sceneChanged(s)
  /\ fx' = Idle
  /\ UNCHANGED <<flags, queue, latch, painting, jobs, render, timer, peer, bounds>>

-----------------------------------------------------------------------------
(***************************************************************************)
(* postPulse, on the timer thread and at the end of a frame: the flags are *)
(* read first, then pulseRunning decides who posts.                        *)
(***************************************************************************)
Wanted == animationRunning \/ nextPulseRequested \/ hasDirty

postPulse ==
  /\ pulseRunning' = TRUE
  /\ queue' = IF pulseRunning THEN queue ELSE Append(queue, Pulse)

TimerCheck ==
  /\ timer = "idle" /\ Wanted
  /\ timer' = "post"
  /\ UNCHANGED <<flags, queue, collector, painting, jobs, fx, render, scene, bounds>>

TimerPost ==
  /\ timer = "post"
  /\ timer' = "idle"
  /\ postPulse
  /\ UNCHANGED <<nextPulseRequested, animationRunnable, animationRunning, collector, painting,
                 jobs, fx, render, scene, bounds>>

-----------------------------------------------------------------------------
(***************************************************************************)
(* The render thread.                                                      *)
(***************************************************************************)
Goto(label) == render' = [render EXCEPT !.pc = label]

\* RenderJob.run, PresentingPainter.run: the render lock is taken.
JobStart ==
  /\ render.pc = "idle"
  /\ jobs # <<>>
  /\ render' = [pc |-> "paint", job |-> Head(jobs)]
  /\ jobs' = Tail(jobs)
  /\ UNCHANGED <<flags, queue, collector, painting, fx, timer, scene, bounds>>

\* The rest of run: painted and presented, not valid any more, or failed.  The
\* painting flag is cleared before the lock is released.
PaintEnd ==
  /\ render.pc = "paint"
  /\ painting' = painting \ {render.job.scene}
  /\ Goto("done")
  /\ UNCHANGED <<flags, collector, jobs, fx, timer, peer, dirtyNodes, ops>>

Paint ==
  /\ PaintEnd
  /\ unseen' = IF peer[render.job.scene] = "shown" THEN unseen \ {render.job.scene} ELSE unseen
  /\ UNCHANGED <<queue, threw, faults>>

\* The device is not ready, or present fails: entireSceneNeedsRepaint.
PaintFails ==
  /\ PaintEnd
  /\ peer[render.job.scene] = "shown"
  /\ faults < MaxFaults
  /\ faults' = faults + 1
  /\ queue' = Append(queue, render.job.scene)
  /\ UNCHANGED <<unseen, threw>>

\* An exception out of paintImpl: caught and printed.
PaintThrows ==
  /\ PaintEnd
  /\ peer[render.job.scene] = "shown"
  /\ faults < MaxFaults
  /\ faults' = faults + 1
  /\ threw' = TRUE
  /\ UNCHANGED <<queue, unseen>>

\* The CompletionListener of a live repaint: the FX thread goes on.
LiveDone ==
  /\ render.pc = "done" /\ render.job.live
  /\ fx' = Return
  /\ Goto("idle")
  /\ UNCHANGED <<flags, queue, collector, painting, jobs, timer, scene, bounds>>

\* PaintCollector.done: the last job of a frame hints at vsync before it counts
\* down whatever latch the collector has now.
Done ==
  /\ render.pc = "done" /\ ~render.job.live
  /\ Goto(IF latch = 1 /\ VsyncHint /\ Wanted THEN "post" ELSE "count")
  /\ UNCHANGED <<flags, queue, collector, painting, jobs, fx, timer, scene, bounds>>

HintPost ==
  /\ render.pc = "post"
  /\ postPulse
  /\ Goto("count")
  /\ UNCHANGED <<nextPulseRequested, animationRunnable, animationRunning, collector, painting,
                 jobs, fx, timer, scene, bounds>>

\* As CountDown, but for a scene that has lost its view done() is not reached.
CountDownIfShown ==
  /\ render.pc = "count"
  /\ latch' = IF latch > 0 /\ peer[render.job.scene] = "shown" THEN latch - 1 ELSE latch
  /\ Goto("idle")
  /\ UNCHANGED <<flags, queue, dirtyScenes, hasDirty, painting, jobs, fx, timer, scene, bounds>>

CountDown ==
  /\ render.pc = "count"
  /\ latch' = IF latch > 0 THEN latch - 1 ELSE 0
  /\ Goto("idle")
  /\ UNCHANGED <<flags, queue, dirtyScenes, hasDirty, painting, jobs, fx, timer, scene, bounds>>

-----------------------------------------------------------------------------
FxApp ==
  \/ \E s \in Scenes : ChangeNode(s) \/ NeedsRepaint(s) \/ Show(s) \/ Hide(s)
                       \/ Snapshot(s) \/ Resize(s)
  \/ \E b \in BOOLEAN : SetAnimation(b)

FxThread ==
  \/ TakePulse \/ LivePulse \/ TakeRepaint \/ RenderAll \/ EndPulse \/ LiveSubmit
  \/ \E s \in Scenes : PulseScene(s) \/ Repaint(s) \/ SnapshotSync(s)

Timer == TimerCheck \/ TimerPost

RenderThread ==
  \/ JobStart \/ Paint \/ PaintFails \/ PaintThrows
  \/ LiveDone \/ Done \/ HintPost \/ CountDown

Next == FxApp \/ FxThread \/ PulseThrows \/ Timer \/ RenderThread

Spec == Init /\ [][Next]_vars

\* The event loop, the render thread and the timer go on; what the application
\* does, and what fails, is not forced.
FairSpec == Spec /\ WF_vars(FxThread) /\ WF_vars(Timer) /\ WF_vars(RenderThread)

-----------------------------------------------------------------------------
Positions == {"idle", "snapshot", "begin", "fire", "render", "live"}

\* Types.
TypeOK ==
  /\ {nextPulseRequested, animationRunnable, animationRunning, pulseRunning, hasDirty, threw}
       \subseteq BOOLEAN
  /\ queue \in Seq(Scenes \cup {Pulse})
  /\ dirtyScenes \subseteq Scenes
  /\ latch \in Nat
  /\ painting \subseteq Scenes
  /\ jobs \in Seq([scene : Scenes, live : BOOLEAN])
  /\ fx \in [pc : Positions, todo : SUBSET Scenes, live : Scenes \cup {None},
             outer : SUBSET Scenes, nested : BOOLEAN]
  /\ render.pc \in {"idle", "paint", "done", "post", "count"}
  /\ render.job \in [scene : Scenes \cup {None}, live : BOOLEAN]
  /\ timer \in {"idle", "post"}
  /\ peer \in [Scenes -> {"none", "shown", "gone"}]
  /\ dirtyNodes \subseteq Scenes
  /\ unseen \subseteq Scenes
  /\ ops \in 0..MaxOps
  /\ faults \in 0..MaxFaults

\* Calls of done() that are still to come: submitted paint jobs, the one of the
\* render thread, and the scenes renderAll has yet to submit.
PaintJobs == {i \in DOMAIN jobs : ~jobs[i].live}
DonesToCome ==
  Cardinality(PaintJobs)
  + (IF render.pc # "idle" /\ ~render.job.live THEN 1 ELSE 0)
  + Cardinality(IF fx.pc = "render" THEN fx.todo \ painting ELSE {})

\* The FX thread waits for the latch without a timeout (PaintCollector.java:159).
\* A scene whose repaint is skipped, and a job of an earlier frame that counts
\* down the latch of this one, never leave the latch above the number of done()
\* calls still to come.
LatchCovered == latch <= DonesToCome

\* The latch and everything else have their types, and the latch will open.
LatchInv == TypeOK /\ LatchCovered

\* postPulse looks at three flags only.  Whenever the FX thread is back in its
\* event loop, dirty nodes, an entry of the dirty list or a running animation
\* is noticed by the flags (QuantumToolkit.java:427), unless an exception has
\* cut a pulse short.
WorkIsNoticed ==
  fx.pc = "idle" /\ ~threw
    /\ (dirtyNodes \cap Shown # {} \/ dirtyScenes # {} \/ animationRunnable)
    => Wanted

\* While pulseRunning is set every other pulse is dropped (QuantumToolkit.java:449):
\* a pulse is then queued or running, so that the flag will be cleared.
PulseComes ==
  pulseRunning => Pulse \in Range(queue) \/ fx.pc \in {"begin", "fire", "render", "live"}

\* A change that has reached the render tree of a scene on a stage is not
\* forgotten: the scene is on the dirty list, has a job that has not painted
\* yet, or a painter has asked for it again.
UnseenIsDue ==
  \A s \in unseen \cap Shown :
    \/ threw
    \/ s \in dirtyScenes
    \/ s \in Range(queue)
    \/ \E j \in Range(jobs) : j.scene = s
    \/ render.pc = "paint" /\ render.job.scene = s

\* No work is forgotten on its way from the scene to the screen: it is noticed by
\* the pulse, the pulse comes, and what the pulse has copied will be painted.
WorkIsDue == WorkIsNoticed /\ PulseComes /\ UnseenIsDue

\* A change of a scene on a stage is presented in the end, unless an exception
\* has cut a pulse or a paint short.
ChangeShown ==
  \A s \in Scenes :
    s \in dirtyNodes \cup unseen /\ peer[s] = "shown"
      ~> s \notin dirtyNodes \cup unseen \/ peer[s] = "gone" \/ threw

\* The FX thread always comes back to its event loop: neither a pulse, nor a
\* snapshot, nor a live repaint waits for the renderer for ever, also when a
\* paint fails or a pulse throws.
FxReturns == fx.pc # "idle" ~> fx.pc = "idle"
=============================================================================
