---------------------------- MODULE FxPulseProofs ----------------------------
(***************************************************************************)
(* Proofs about FxPulse for any number of scenes, application calls and    *)
(* faults: the latch of the paint collector is never above the number of   *)
(* done() calls to come, and no work is forgotten between a scene and the  *)
(* screen.                                                                 *)
(***************************************************************************)
EXTENDS FxPulse, SequenceFacts, FiniteSetTheorems

-----------------------------------------------------------------------------
(***************************************************************************)
(* The inductive invariant.                                                *)
(***************************************************************************)

Jobs == [scene : Scenes, live : BOOLEAN]
RenderPcs == {"idle", "paint", "done", "post", "count"}

\* TypeOK, with the shape of the render thread's record.
TypeInv ==
  /\ TypeOK
  /\ render \in [pc : RenderPcs, job : [scene : Scenes \cup {None}, live : BOOLEAN]]

\* A job of a live repaint is queued or on the render thread while the FX thread
\* waits for it, so there is only one; done() is called for the others.
JobInv ==
  /\ render.pc # "idle" => render.job.scene \in Scenes
  /\ render.pc \in {"post", "count"} => ~render.job.live
  /\ render.pc # "idle" /\ render.job.live =>
       fx.pc = "live" /\ \A i \in 1 .. Len(jobs) : ~jobs[i].live
  /\ \A i \in 1 .. Len(jobs) : jobs[i].live =>
       fx.pc = "live" /\ \A j \in 1 .. Len(jobs) : jobs[j].live => i = j

\* The painting flag of a scene is set only while a paint job of it is queued or
\* has not painted yet.
PaintingInv ==
  \A s \in painting :
    \/ Has(jobs, Job(s, FALSE))
    \/ render.pc = "paint" /\ render.job = Job(s, FALSE)

\* The dirty list holds scenes on a stage only, and so does the copy renderAll
\* works on; outside renderAll hasDirty tells whether it is empty.
DirtyInv ==
  /\ dirtyScenes \subseteq Shown
  /\ fx.pc = "render" => fx.todo \subseteq Shown
  /\ fx.pc # "render" /\ dirtyScenes # {} => hasDirty

\* While pulseRunning is set a pulse is queued, or one is running that has yet to
\* clear the flag.
PulseInv ==
  pulseRunning => Has(queue, Pulse) \/ fx.pc \in {"begin", "fire", "render"}

\* A running animation is known to postPulse, and so is a changed scene, unless
\* the pulse that is running has yet to visit it.
RequestInv ==
  /\ animationRunnable => animationRunning
  /\ threw \/ nextPulseRequested \/ fx.pc = "begin"
       \/ \A s \in dirtyNodes \cap Shown : fx.pc = "fire" /\ s \in fx.todo

\* A change of the render tree is due; during renderAll the dirty list does not
\* count any more, but what renderAll has yet to submit does.
Due(s) ==
  \/ threw
  \/ s \in (IF fx.pc = "render" THEN fx.todo ELSE dirtyScenes)
  \/ Has(queue, s)
  \/ \E b \in BOOLEAN : Has(jobs, Job(s, b))
  \/ render.pc = "paint" /\ render.job.scene = s

DueInv ==
  /\ \A s \in unseen \cap Shown : Due(s)
  /\ fx.pc = "render" => fx.todo \subseteq dirtyScenes

Inv == TypeInv /\ JobInv /\ PaintingInv /\ DirtyInv /\ PulseInv /\ RequestInv /\ DueInv
       /\ LatchCovered

-----------------------------------------------------------------------------
(***************************************************************************)
(* Types.                                                                  *)
(***************************************************************************)

\* The actions, one by one.
LEMMA NextCases ==
  ASSUME Next
  PROVE  \/ \E s \in Scenes : \/ ChangeNode(s) \/ NeedsRepaint(s) \/ Show(s) \/ Hide(s)
                              \/ Snapshot(s) \/ Resize(s)
                              \/ PulseScene(s) \/ Repaint(s) \/ SnapshotSync(s)
         \/ \E b \in BOOLEAN : SetAnimation(b)
         \/ TakePulse \/ LivePulse \/ TakeRepaint \/ RenderAll \/ EndPulse \/ LiveSubmit
         \/ PulseThrows \/ TimerCheck \/ TimerPost
         \/ JobStart \/ Paint \/ PaintFails \/ PaintThrows
         \/ LiveDone \/ Done \/ HintPost \/ CountDown
BY DEF Next, FxApp, FxThread, Timer, RenderThread

LEMMA InvInit == ASSUME Init PROVE Inv
PROOF
<1>1. TypeInv
  <2>1. /\ fx \in [pc : Positions, todo : SUBSET Scenes, live : Scenes \cup {None},
                   outer : SUBSET Scenes, nested : BOOLEAN]
        /\ render \in [pc : RenderPcs, job : [scene : Scenes \cup {None}, live : BOOLEAN]]
        /\ peer \in [Scenes -> {"none", "shown", "gone"}]
    BY DEF Init, Idle, Job, RenderPcs, Positions
  <2>2. queue \in Seq(Scenes \cup {Pulse}) /\ jobs \in Seq(Jobs)
    BY DEF Init
  <2>3. latch \in Nat /\ ops \in 0 .. MaxOps /\ faults \in 0 .. MaxFaults
    BY PulseAssumption DEF Init
  <2> QED BY <2>1, <2>2, <2>3, Zenon DEF Init, TypeInv, TypeOK, Jobs, RenderPcs, Idle, Job
<1>2. JobInv /\ PaintingInv /\ DirtyInv /\ PulseInv /\ RequestInv /\ DueInv
  BY EmptyHas DEF Init, Idle, Shown, JobInv, PaintingInv, DirtyInv, PulseInv, RequestInv, DueInv
<1>3. LatchCovered
  <2>1. latch = 0 /\ PaintJobs = {} /\ DonesToCome = 0
    BY FS_EmptySet DEF Init, PaintJobs, DonesToCome, Idle
  <2> QED BY <2>1 DEF LatchCovered
<1> QED BY <1>1, <1>2, <1>3 DEF Inv

LEMMA JobAppended ==
  ASSUME TypeInv, NEW s \in Scenes, NEW b \in BOOLEAN
  PROVE  jobs \in Seq(Jobs) /\ Job(s, b) \in Jobs /\ Append(jobs, Job(s, b)) \in Seq(Jobs)
<1>1. jobs \in Seq(Jobs) /\ Job(s, b) \in Jobs
  BY DEF TypeInv, TypeOK, Jobs, Job
<1> QED BY <1>1, AppendAt

LEMMA JobAppendedHas ==
  ASSUME TypeInv, NEW s \in Scenes, NEW b \in BOOLEAN
  PROVE  \A x : Has(Append(jobs, Job(s, b)), x) <=> Has(jobs, x) \/ Job(s, b) = x
<1>1. jobs \in Seq(Jobs) /\ Job(s, b) \in Jobs
  BY JobAppended
<1> HIDE DEF Job
<1> QED BY <1>1, AppendHas

LEMMA QueueAppended ==
  ASSUME TypeInv, NEW e \in Scenes \cup {Pulse}
  PROVE  queue \in Seq(Scenes \cup {Pulse}) /\ Append(queue, e) \in Seq(Scenes \cup {Pulse})
<1>1. queue \in Seq(Scenes \cup {Pulse})
  BY DEF TypeInv, TypeOK
<1> QED BY <1>1, AppendAt

LEMMA QueueAppendedHas ==
  ASSUME TypeInv, NEW e \in Scenes \cup {Pulse}
  PROVE  \A x : Has(Append(queue, e), x) <=> Has(queue, x) \/ e = x
<1>1. queue \in Seq(Scenes \cup {Pulse})
  BY DEF TypeInv, TypeOK
<1> QED BY <1>1, AppendHas

LEMMA TypeStep ==
  ASSUME TypeInv, JobInv, Next
  PROVE  TypeInv'
<1>a. \A s \in Scenes : /\ jobs \in Seq(Jobs) /\ Append(jobs, Job(s, FALSE)) \in Seq(Jobs)
                     /\ Append(jobs, Job(s, TRUE)) \in Seq(Jobs)
  BY JobAppended
<1> USE PulseAssumption DEF TypeInv, TypeOK, Positions, RenderPcs,
                              flags, collector, scene, bounds
<1>1. ASSUME NEW s \in Scenes, ChangeNode(s) PROVE TypeInv'
  BY <1>1 DEF ChangeNode, AppCode
<1>2. ASSUME NEW s \in Scenes, NeedsRepaint(s) PROVE TypeInv'
  BY <1>2 DEF NeedsRepaint, AppCode, addDirtyScene, removeDirtyScene, sceneChanged
<1>3. ASSUME NEW s \in Scenes, Show(s) PROVE TypeInv'
  BY <1>3 DEF Show, AppCode, addDirtyScene, removeDirtyScene, sceneChanged
<1>4. ASSUME NEW s \in Scenes, Hide(s) PROVE TypeInv'
  BY <1>4 DEF Hide, AppCode, addDirtyScene, removeDirtyScene, sceneChanged
<1>5. ASSUME NEW s \in Scenes, Snapshot(s) PROVE TypeInv'
  <2>1. fx' \in [pc : Positions, todo : SUBSET Scenes, live : Scenes \cup {None},
               outer : SUBSET Scenes, nested : BOOLEAN]
    BY <1>5 DEF Snapshot, AppCode, Jobs
  <2> QED BY <2>1, <1>5 DEF Snapshot, AppCode, Jobs
<1>6. ASSUME NEW s \in Scenes, Resize(s) PROVE TypeInv'
  BY <1>6 DEF Resize, AppCode, addDirtyScene, removeDirtyScene, sceneChanged
<1>7. ASSUME NEW s \in Scenes, PulseScene(s) PROVE TypeInv'
  BY <1>7 DEF PulseScene, SyncScene, addDirtyScene, removeDirtyScene, sceneChanged
<1>8. ASSUME NEW s \in Scenes, Repaint(s) PROVE TypeInv'
  <2>1. fx' \in [pc : Positions, todo : SUBSET Scenes, live : Scenes \cup {None},
               outer : SUBSET Scenes, nested : BOOLEAN]
    BY <1>8 DEF Repaint, Job, Jobs
  <2>2. jobs' \in Seq(Jobs)
    <3>1. jobs' = jobs \/ jobs' = Append(jobs, Job(s, FALSE))
      BY <1>8 DEF Repaint
    <3> QED BY <3>1, <1>a, Zenon
  <2> QED BY <2>1, <2>2, <1>8 DEF Repaint, Job, Jobs
<1>9. ASSUME NEW s \in Scenes, SnapshotSync(s) PROVE TypeInv'
  BY <1>9 DEF SnapshotSync, addDirtyScene, removeDirtyScene, sceneChanged, Idle
<1>10. ASSUME NEW b \in BOOLEAN, SetAnimation(b) PROVE TypeInv'
  BY <1>10 DEF SetAnimation, AppCode
<1>11. CASE TakePulse
  <2>1. fx' \in [pc : Positions, todo : SUBSET Scenes, live : Scenes \cup {None},
               outer : SUBSET Scenes, nested : BOOLEAN]
    BY <1>11 DEF TakePulse, BeginPulse, Shown, Jobs
  <2>2. queue' \in Seq(Scenes \cup {Pulse})
    BY <1>11, TailAt DEF TakePulse, BeginPulse, Shown, Jobs
  <2> QED BY <2>1, <2>2, <1>11 DEF TakePulse, BeginPulse, Shown, Jobs
<1>12. CASE LivePulse
  BY <1>12 DEF LivePulse, BeginPulse, Shown
<1>13. CASE TakeRepaint
  <2>1. queue' \in Seq(Scenes \cup {Pulse}) /\ Head(queue) \in Scenes
    BY <1>13, TailAt DEF TakeRepaint, addDirtyScene, removeDirtyScene, sceneChanged, Jobs
  <2> QED BY <2>1, <1>13 DEF TakeRepaint, addDirtyScene, removeDirtyScene, sceneChanged, Jobs
<1>14. CASE RenderAll
  <2>1. fx' \in [pc : Positions, todo : SUBSET Scenes, live : Scenes \cup {None},
               outer : SUBSET Scenes, nested : BOOLEAN]
    BY <1>14 DEF RenderAll, Jobs
  <2>2. latch' \in Nat
    BY <1>14, PulseAssumption, FS_Subset, FS_CardinalityType DEF RenderAll
  <2> QED BY <2>1, <2>2, <1>14 DEF RenderAll, Jobs
<1>15. CASE EndPulse
  BY <1>15 DEF EndPulse, Idle
<1>16. CASE LiveSubmit
  <2>1. fx' \in [pc : Positions, todo : SUBSET Scenes, live : Scenes \cup {None},
               outer : SUBSET Scenes, nested : BOOLEAN]
    BY <1>16 DEF LiveSubmit, Job, Jobs
  <2>2. jobs' \in Seq(Jobs)
    BY <1>16, <1>a DEF LiveSubmit
  <2> QED BY <2>1, <2>2, <1>16 DEF LiveSubmit, Job, Jobs
<1>17. CASE PulseThrows
  <2>1. fx' \in [pc : Positions, todo : SUBSET Scenes, live : Scenes \cup {None},
               outer : SUBSET Scenes, nested : BOOLEAN]
    BY <1>17 DEF PulseThrows, Return, Idle, Jobs
  <2>2. faults' \in 0 .. MaxFaults
    BY <1>17 DEF PulseThrows, Return, Idle, Jobs
  <2> QED BY <2>1, <2>2, <1>17 DEF PulseThrows, Return, Idle, Jobs
<1>18. CASE TimerCheck
  BY <1>18 DEF TimerCheck
<1>19. CASE TimerPost
  BY <1>19 DEF TimerPost, postPulse
<1>20. CASE JobStart
  <2>1. jobs' \in Seq(Jobs) /\ Head(jobs) \in Jobs
    BY <1>20, TailAt DEF JobStart, Jobs
  <2> QED BY <2>1, <1>20 DEF JobStart, Jobs
<1>21. CASE Paint
  BY <1>21 DEF Paint, PaintEnd, Goto
<1>22. CASE PaintFails
  <2>1. queue' \in Seq(Scenes \cup {Pulse})
    <3>1. render.job.scene \in Scenes
      BY <1>22 DEF PaintFails, PaintEnd, JobInv
    <3> QED BY <3>1, <1>22, QueueAppended DEF PaintFails
  <2>2. faults' \in 0 .. MaxFaults
    BY <1>22 DEF PaintFails, PaintEnd, Goto, Jobs
  <2> QED BY <2>1, <2>2, <1>22 DEF PaintFails, PaintEnd, Goto, Jobs
<1>23. CASE PaintThrows
  BY <1>23, SMTT(30) DEF PaintThrows, PaintEnd, Goto
<1>24. CASE LiveDone
  BY <1>24 DEF LiveDone, Return, Idle, Goto
<1>25. CASE Done
  BY <1>25 DEF Done, Goto
<1>26. CASE HintPost
  BY <1>26 DEF HintPost, postPulse, Goto
<1>27. CASE CountDown
  BY <1>27 DEF CountDown, Goto
<1> QED BY NextCases, <1>1, <1>2, <1>3, <1>4, <1>5, <1>6, <1>7, <1>8, <1>9, <1>10, 
           <1>11, <1>12, <1>13, <1>14, <1>15, <1>16, <1>17, <1>18, <1>19, <1>20, 
           <1>21, <1>22, <1>23, <1>24, <1>25, <1>26, <1>27

-----------------------------------------------------------------------------
(***************************************************************************)
(* The jobs of the render thread and the painting flags.                   *)
(***************************************************************************)
LEMMA JobStep ==
  ASSUME TypeInv, JobInv, Next
  PROVE  JobInv'
<1> USE DEF JobInv
<1>1. CASE \/ \E s \in Scenes : \/ ChangeNode(s) \/ NeedsRepaint(s) \/ Show(s) \/ Hide(s)
                              \/ Snapshot(s) \/ Resize(s) \/ PulseScene(s) \/ SnapshotSync(s)
           \/ \E b \in BOOLEAN : SetAnimation(b)
           \/ TakePulse \/ LivePulse \/ TakeRepaint \/ RenderAll \/ EndPulse
           \/ PulseThrows \/ TimerCheck \/ TimerPost
  <2>1. /\ UNCHANGED <<render, jobs>>
        /\ UNCHANGED fx \/ fx.pc # "live"
    BY <1>1 DEF ChangeNode, NeedsRepaint, Show, Hide, Snapshot, Resize, PulseScene, SnapshotSync,
                SetAnimation, TakePulse, LivePulse, TakeRepaint, RenderAll, EndPulse, PulseThrows,
                TimerCheck, TimerPost, AppCode
  <2> QED BY <2>1
<1>2. ASSUME NEW s \in Scenes, Repaint(s) PROVE JobInv'
  <2>1. /\ UNCHANGED render /\ fx.pc = "render"
        /\ UNCHANGED jobs \/ jobs' = Append(jobs, Job(s, FALSE))
    BY <1>2 DEF Repaint
  <2>2. CASE UNCHANGED jobs
    BY <2>1, <2>2
  <2>3. CASE jobs' = Append(jobs, Job(s, FALSE))
    BY <2>1, <2>3, JobAppended, AppendAt DEF Job
  <2> QED BY <2>1, <2>2, <2>3
<1>3. CASE LiveSubmit
  <2>1. /\ UNCHANGED render /\ fx.pc = "fire" /\ fx'.pc = "live" /\ fx.live \in Scenes
        /\ jobs' = Append(jobs, Job(fx.live, TRUE))
    BY <1>3 DEF LiveSubmit, TypeInv, TypeOK
  <2> QED BY <2>1, JobAppended, AppendAt DEF Job
<1>4. CASE JobStart
  <2>1. /\ render' = [pc |-> "paint", job |-> Head(jobs)] /\ jobs' = Tail(jobs) /\ jobs # <<>>
        /\ UNCHANGED fx /\ jobs \in Seq(Jobs)
    BY <1>4 DEF JobStart, TypeInv, TypeOK, Jobs
  <2>2. Head(jobs).scene \in Scenes
    <3>1. Head(jobs) \in Jobs
      BY <2>1, TailAt
    <3> QED BY <3>1 DEF Jobs
  <2> QED BY <2>1, <2>2, TailAt
<1>5. CASE Paint \/ PaintFails \/ PaintThrows \/ Done \/ HintPost \/ CountDown
  <2>1. /\ UNCHANGED <<fx, jobs>> /\ render.pc # "idle"
        /\ render'.job = render.job
        /\ render'.pc \in {"post", "count"} => render.pc = "post" \/ ~render.job.live
    BY <1>5 DEF Paint, PaintFails, PaintThrows, Done, HintPost, CountDown, PaintEnd, Goto,
                TypeInv, RenderPcs
  <2> QED BY <2>1
<1>6. CASE LiveDone
  <2>1. /\ render.pc = "done" /\ render.job.live /\ render'.pc = "idle" /\ UNCHANGED jobs
    BY <1>6 DEF LiveDone, Goto, TypeInv
  <2> QED BY <2>1
<1> QED BY NextCases, <1>1, <1>2, <1>3, <1>4, <1>5, <1>6

LEMMA PaintingStep ==
  ASSUME TypeInv, JobInv, PaintingInv, Next
  PROVE  PaintingInv'
<1> USE DEF PaintingInv
<1>1. CASE \/ \E s \in Scenes : \/ ChangeNode(s) \/ NeedsRepaint(s) \/ Show(s) \/ Hide(s)
                              \/ Snapshot(s) \/ Resize(s) \/ PulseScene(s) \/ SnapshotSync(s)
           \/ \E b \in BOOLEAN : SetAnimation(b)
           \/ TakePulse \/ LivePulse \/ TakeRepaint \/ RenderAll \/ EndPulse
           \/ PulseThrows \/ TimerCheck \/ TimerPost
  <2>1. UNCHANGED <<render, jobs, painting>>
    BY <1>1 DEF ChangeNode, NeedsRepaint, Show, Hide, Snapshot, Resize, PulseScene, SnapshotSync,
                SetAnimation, TakePulse, LivePulse, TakeRepaint, RenderAll, EndPulse, PulseThrows,
                TimerCheck, TimerPost, AppCode
  <2> QED BY <2>1
<1>2. ASSUME NEW s \in Scenes, Repaint(s) PROVE PaintingInv'
  <2>1. /\ UNCHANGED render
        /\ \/ UNCHANGED <<painting, jobs>>
           \/ painting' = painting \cup {s} /\ jobs' = Append(jobs, Job(s, FALSE))
    BY <1>2 DEF Repaint
  <2>2. CASE UNCHANGED <<painting, jobs>>
    BY <2>1, <2>2
  <2>3. CASE painting' = painting \cup {s} /\ jobs' = Append(jobs, Job(s, FALSE))
    <3>1. \A x : Has(jobs', x) <=> Has(jobs, x) \/ Job(s, FALSE) = x
      BY <2>3, JobAppendedHas
    <3> QED BY <3>1, <2>1, <2>3
  <2> QED BY <2>1, <2>2, <2>3
<1>3. CASE LiveSubmit
  <2>1. /\ UNCHANGED <<render, painting>> /\ fx.live \in Scenes
        /\ jobs' = Append(jobs, Job(fx.live, TRUE))
    BY <1>3 DEF LiveSubmit, TypeInv, TypeOK
  <2>2. \A x : Has(jobs', x) <=> Has(jobs, x) \/ Job(fx.live, TRUE) = x
    BY <2>1, JobAppendedHas
  <2> QED BY <2>1, <2>2
<1>4. CASE JobStart
  <2>1. /\ render' = [pc |-> "paint", job |-> Head(jobs)] /\ jobs' = Tail(jobs) /\ jobs # <<>>
        /\ UNCHANGED painting /\ jobs \in Seq(Jobs) /\ render.pc = "idle"
    BY <1>4 DEF JobStart, TypeInv, TypeOK, Jobs
  <2>2. \A x : Has(jobs, x) <=> Head(jobs) = x \/ Has(jobs', x)
    BY <2>1, TailHas
  <2>3. render'.pc = "paint" /\ render'.job = Head(jobs)
    BY <2>1
  <2>4. ASSUME NEW s \in painting
        PROVE  Has(jobs', Job(s, FALSE)) \/ render'.job = Job(s, FALSE)
    <3>1. Has(jobs, Job(s, FALSE))
      BY <2>1 DEF PaintingInv
    <3> QED BY <3>1, <2>2, <2>3
  <2> QED BY <2>1, <2>3, <2>4
<1>5. CASE Paint \/ PaintFails \/ PaintThrows
  <2>1. /\ UNCHANGED jobs /\ painting' = painting \ {render.job.scene}
    BY <1>5 DEF Paint, PaintFails, PaintThrows, PaintEnd
  <2>2. ASSUME NEW s \in painting' PROVE Has(jobs, Job(s, FALSE))
    <3>1. s \in painting /\ s # render.job.scene
      BY <2>1
    <3>2. render.job # Job(s, FALSE)
      BY <3>1 DEF Job
    <3> QED BY <3>1, <3>2 DEF PaintingInv
  <2> QED BY <2>1, <2>2
<1>6. CASE Done \/ HintPost \/ CountDown \/ LiveDone
  <2>1. UNCHANGED <<jobs, painting>> /\ render.pc # "paint"
    BY <1>6 DEF LiveDone, Done, HintPost, CountDown
  <2> QED BY <2>1
<1> QED BY NextCases, <1>1, <1>2, <1>3, <1>4, <1>5, <1>6

-----------------------------------------------------------------------------
(***************************************************************************)
(* The dirty list, the pulse and the requests for one.                     *)
(***************************************************************************)
\* A live repaint returns to the event loop or into the pulse around it.
LEMMA ReturnPc == Return.pc \in {"idle", "fire"}
<1>1. CASE fx.nested
  BY <1>1 DEF Return, Idle
<1>2. CASE ~fx.nested
  BY <1>2 DEF Return, Idle
<1> QED BY <1>1, <1>2

LEMMA DirtyList ==
  ASSUME NEW s \in Scenes, addDirtyScene(s) \/ removeDirtyScene(s),
         hasDirty \in BOOLEAN, dirtyScenes # {} => hasDirty
  PROVE  /\ dirtyScenes' # {} => hasDirty'
         /\ addDirtyScene(s) => dirtyScenes' = dirtyScenes \cup {s}
         /\ removeDirtyScene(s) => dirtyScenes' = dirtyScenes \ {s}
<1>1. CASE addDirtyScene(s)
  BY <1>1, Zenon DEF addDirtyScene, removeDirtyScene
<1>2. CASE removeDirtyScene(s)
  BY <1>2, Zenon DEF addDirtyScene, removeDirtyScene
<1> QED BY <1>1, <1>2

LEMMA DirtyStep ==
  ASSUME TypeInv, JobInv, DirtyInv, Next
  PROVE  DirtyInv'
<1> USE DEF DirtyInv, Shown, TypeInv, TypeOK
<1>1. ASSUME NEW s \in Scenes, ChangeNode(s) \/ Snapshot(s) PROVE DirtyInv'
  <2>1. UNCHANGED <<peer, dirtyScenes, hasDirty>> /\ fx.pc # "render" /\ fx'.pc # "render"
    BY <1>1 DEF ChangeNode, Snapshot, AppCode, scene
  <2> QED BY <2>1
<1>2. ASSUME NEW s \in Scenes, NeedsRepaint(s) \/ Resize(s) PROVE DirtyInv'
  <2>1. /\ UNCHANGED peer /\ fx.pc # "render" /\ fx'.pc # "render"
        /\ peer[s] = "shown" /\ addDirtyScene(s)
    BY <1>2 DEF NeedsRepaint, Resize, AppCode, sceneChanged, scene
  <2> QED BY <2>1, DirtyList
<1>3. ASSUME NEW s \in Scenes, Show(s) PROVE DirtyInv'
  <2>1. /\ UNCHANGED fx /\ fx.pc # "render"
        /\ peer' = [peer EXCEPT ![s] = "shown"] /\ addDirtyScene(s)
    BY <1>3 DEF Show, AppCode
  <2> QED BY <2>1, DirtyList
<1>4. ASSUME NEW s \in Scenes, Hide(s) PROVE DirtyInv'
  <2>1. /\ UNCHANGED fx /\ fx.pc # "render"
        /\ peer' = [peer EXCEPT ![s] = "gone"] /\ removeDirtyScene(s)
    BY <1>4 DEF Hide, AppCode
  <2> QED BY <2>1, DirtyList
<1>5. ASSUME NEW s \in Scenes, PulseScene(s) \/ SnapshotSync(s) PROVE DirtyInv'
  <2>1. /\ UNCHANGED peer /\ fx.pc # "render" /\ fx'.pc # "render"
        /\ UNCHANGED <<dirtyScenes, hasDirty>> \/ sceneChanged(s)
    BY <1>5 DEF PulseScene, SnapshotSync, SyncScene, scene, Idle
  <2> QED BY <2>1, DirtyList DEF sceneChanged
<1>6. ASSUME NEW s \in Scenes, Repaint(s) PROVE DirtyInv'
  <2>1. /\ UNCHANGED <<peer, dirtyScenes, hasDirty>> /\ fx.pc = "render" /\ fx'.pc = "render"
        /\ fx'.todo \subseteq fx.todo
    BY <1>6 DEF Repaint, scene, collector
  <2> QED BY <2>1
<1>7. CASE TakeRepaint
  <2>1. /\ UNCHANGED <<peer, fx>> /\ fx.pc # "render"
        /\ Head(queue) \in Scenes /\ sceneChanged(Head(queue))
    BY <1>7 DEF TakeRepaint, scene
  <2> QED BY <2>1, DirtyList DEF sceneChanged
<1>8. CASE RenderAll
  <2>1. /\ UNCHANGED <<peer, dirtyScenes>> /\ fx'.pc = "render" /\ fx'.todo = dirtyScenes
    BY <1>8 DEF RenderAll, scene
  <2> QED BY <2>1
<1>9. CASE EndPulse
  <2>1. /\ UNCHANGED <<peer, hasDirty>> /\ fx'.pc = "idle"
        /\ dirtyScenes' = {} \/ (fx.pc = "fire" /\ UNCHANGED dirtyScenes)
    BY <1>9 DEF EndPulse, scene, Idle
  <2> QED BY <2>1
<1>10. CASE \/ \E b \in BOOLEAN : SetAnimation(b)
            \/ TimerCheck \/ TimerPost
            \/ JobStart \/ Paint \/ PaintFails \/ PaintThrows \/ Done \/ HintPost \/ CountDown
  <2>1. UNCHANGED <<peer, dirtyScenes, hasDirty, fx>>
    BY <1>10 DEF SetAnimation, TimerCheck, TimerPost, JobStart, Paint, PaintFails, PaintThrows,
                 PaintEnd, Done, HintPost, CountDown, scene, collector
  <2> QED BY <2>1
<1>11. CASE TakePulse \/ LivePulse \/ LiveSubmit \/ PulseThrows \/ LiveDone
  <2>1. UNCHANGED <<peer, dirtyScenes, hasDirty>> /\ fx.pc # "render"
    BY <1>11 DEF TakePulse, LivePulse, LiveSubmit, PulseThrows, LiveDone, JobInv, scene, collector
  <2>2. fx'.pc # "render"
    <3>1. CASE TakePulse \/ LivePulse \/ LiveSubmit
      BY <3>1 DEF TakePulse, LivePulse, BeginPulse, LiveSubmit
    <3>2. CASE PulseThrows \/ LiveDone
      BY <3>2, ReturnPc DEF PulseThrows, LiveDone
    <3> QED BY <1>11, <3>1, <3>2
  <2> QED BY <2>1, <2>2
<1> QED BY NextCases, <1>1, <1>2, <1>3, <1>4, <1>5, <1>6, <1>7, <1>8, <1>9, <1>10, <1>11

LEMMA PulseStep ==
  ASSUME TypeInv, JobInv, PulseInv, Next
  PROVE  PulseInv'
<1> USE DEF PulseInv
<1>1. CASE \/ \E s \in Scenes : \/ ChangeNode(s) \/ NeedsRepaint(s) \/ Show(s) \/ Hide(s)
                              \/ Snapshot(s) \/ Resize(s) \/ PulseScene(s) \/ Repaint(s)
                              \/ SnapshotSync(s)
           \/ \E b \in BOOLEAN : SetAnimation(b)
           \/ LivePulse \/ RenderAll \/ TimerCheck
           \/ JobStart \/ Paint \/ PaintThrows \/ Done \/ CountDown \/ LiveDone
  <2>1. UNCHANGED <<queue, pulseRunning>>
    BY <1>1 DEF ChangeNode, NeedsRepaint, Show, Hide, Snapshot, Resize, PulseScene, Repaint,
                SnapshotSync, SetAnimation, AppCode, LivePulse, BeginPulse, RenderAll, TimerCheck,
                JobStart, Paint, PaintThrows, PaintEnd, Done, CountDown, LiveDone, flags
  <2>2. \/ UNCHANGED fx
        \/ fx.pc \notin {"begin", "fire", "render"}
        \/ fx'.pc \in {"begin", "fire", "render"}
    <3>1. ASSUME NEW s \in Scenes, Snapshot(s) \/ SnapshotSync(s)
          PROVE  fx.pc \notin {"begin", "fire", "render"}
      BY <3>1 DEF Snapshot, SnapshotSync
    <3>2. ASSUME NEW s \in Scenes, Resize(s) PROVE fx'.pc = "begin"
      BY <3>2 DEF Resize
    <3>3. ASSUME NEW s \in Scenes, PulseScene(s) \/ Repaint(s) PROVE fx'.pc = fx.pc
      BY <3>3 DEF PulseScene, Repaint, TypeInv, TypeOK
    <3>4. CASE LivePulse \/ RenderAll
      BY <3>4 DEF LivePulse, BeginPulse, RenderAll, TypeInv, TypeOK
    <3>5. CASE LiveDone
      BY <3>5 DEF LiveDone, JobInv
    <3> QED BY <1>1, <3>1, <3>2, <3>3, <3>4, <3>5
            DEF ChangeNode, NeedsRepaint, Show, Hide, SetAnimation, TimerCheck, JobStart, Paint,
                PaintThrows, PaintEnd, Done, CountDown
  <2> QED BY <2>1, <2>2
<1>2. CASE EndPulse \/ LiveSubmit \/ PulseThrows
  BY <1>2 DEF EndPulse, LiveSubmit, PulseThrows
<1>3. CASE TakePulse
  BY <1>3 DEF TakePulse, BeginPulse, TypeInv, TypeOK
<1>4. CASE TakeRepaint
  <2>1. /\ UNCHANGED <<pulseRunning, fx>> /\ queue' = Tail(queue) /\ queue # <<>>
        /\ Head(queue) # Pulse /\ queue \in Seq(Scenes \cup {Pulse})
    BY <1>4, PulseAssumption DEF TakeRepaint, flags, TypeInv, TypeOK
  <2>2. Has(queue, Pulse) => Has(queue', Pulse)
    BY <2>1, TailHas
  <2> QED BY <2>1, <2>2
<1>5. CASE TimerPost \/ HintPost \/ PaintFails
  <2>1. UNCHANGED fx /\ queue \in Seq(Scenes \cup {Pulse})
    BY <1>5 DEF TimerPost, HintPost, PaintFails, PaintEnd, TypeInv, TypeOK
  <2>2. \/ UNCHANGED <<queue, pulseRunning>>
        \/ queue' = Append(queue, Pulse)
        \/ UNCHANGED pulseRunning /\ \E s \in Scenes : queue' = Append(queue, s)
    BY <1>5 DEF TimerPost, HintPost, postPulse, PaintFails, PaintEnd, JobInv, flags, TypeInv, TypeOK
  <2>3. \A e \in Scenes \cup {Pulse} : Has(Append(queue, e), Pulse) <=> Has(queue, Pulse) \/ e = Pulse
    BY <2>1, AppendHas
  <2> QED BY <2>1, <2>2, <2>3
<1> QED BY NextCases, <1>1, <1>2, <1>3, <1>4, <1>5

LEMMA RequestStep ==
  ASSUME TypeInv, JobInv, RequestInv, Next
  PROVE  RequestInv'
<1> USE DEF RequestInv, Shown, TypeInv, TypeOK
<1>1. ASSUME NEW s \in Scenes, ChangeNode(s) PROVE RequestInv'
  BY <1>1 DEF ChangeNode, AppCode
<1>2. ASSUME NEW s \in Scenes, NeedsRepaint(s) \/ Snapshot(s) PROVE RequestInv'
  BY <1>2 DEF NeedsRepaint, Snapshot, AppCode, scene
<1>3. ASSUME NEW s \in Scenes, Show(s) PROVE RequestInv'
  BY <1>3 DEF Show, AppCode
<1>4. ASSUME NEW s \in Scenes, Hide(s) PROVE RequestInv'
  BY <1>4 DEF Hide, AppCode
<1>5. ASSUME NEW s \in Scenes, Resize(s) PROVE RequestInv'
  BY <1>5 DEF Resize, AppCode
<1>6. ASSUME NEW s \in Scenes, PulseScene(s) \/ Repaint(s) \/ SnapshotSync(s) PROVE RequestInv'
  <2>1. /\ UNCHANGED <<animationRunnable, animationRunning, nextPulseRequested, peer, threw>>
        /\ dirtyNodes' \subseteq dirtyNodes /\ fx.pc # "begin"
        /\ fx.pc = "fire" => fx'.pc = "fire" /\ fx'.todo = fx.todo \ {s} /\ s \notin dirtyNodes'
    BY <1>6 DEF PulseScene, SyncScene, Repaint, SnapshotSync, flags, scene, bounds
  <2> QED BY <2>1
<1>7. ASSUME NEW b \in BOOLEAN, SetAnimation(b) PROVE RequestInv'
  <2>1. animationRunnable' => animationRunning'
    BY <1>7, Zenon DEF SetAnimation
  <2>2. UNCHANGED <<nextPulseRequested, threw, fx, dirtyNodes, peer>>
    BY <1>7 DEF SetAnimation, AppCode, scene
  <2> QED BY <2>1, <2>2
<1>8. CASE TakePulse \/ LivePulse
  <2>1. animationRunnable' => animationRunning'
    <3>1. BeginPulse
      BY <1>8 DEF TakePulse, LivePulse
    <3>2. animationRunnable' = animationRunnable /\ animationRunning' = animationRunnable
      BY <3>1 DEF BeginPulse
    <3> QED BY <3>2, Zenon
  <2>2. fx'.pc = "fire" /\ fx'.todo = Shown /\ UNCHANGED <<dirtyNodes, peer>>
    BY <1>8 DEF TakePulse, LivePulse, BeginPulse, scene
  <2> QED BY <2>1, <2>2
<1>9. CASE RenderAll \/ EndPulse \/ LiveSubmit
  <2>1. /\ UNCHANGED <<animationRunnable, animationRunning, nextPulseRequested, peer, threw, dirtyNodes>>
        /\ fx.todo = {} /\ fx.pc # "begin"
    BY <1>9 DEF RenderAll, EndPulse, LiveSubmit, flags, scene, bounds
  <2> QED BY <2>1
<1>10. CASE PulseThrows
  BY <1>10 DEF PulseThrows
<1>11. CASE \/ TakeRepaint \/ TimerCheck \/ TimerPost
            \/ JobStart \/ Paint \/ PaintFails \/ PaintThrows \/ Done \/ HintPost \/ CountDown
            \/ LiveDone
  <2>1. /\ UNCHANGED <<animationRunnable, animationRunning, nextPulseRequested, peer, dirtyNodes>>
        /\ UNCHANGED fx \/ fx.pc = "live"
        /\ threw => threw'
    BY <1>11 DEF TakeRepaint, TimerCheck, TimerPost, JobStart, Paint, PaintFails, PaintThrows,
                 PaintEnd, Done, HintPost, CountDown, LiveDone, JobInv, flags, scene, bounds
  <2> QED BY <2>1
<1> QED BY NextCases, <1>1, <1>2, <1>3, <1>4, <1>5, <1>6, <1>7, <1>8, <1>9, <1>10, <1>11

-----------------------------------------------------------------------------
(***************************************************************************)
(* What the render tree has and the screen has not.                        *)
(***************************************************************************)

\* Due depends on these only.
LEMMA DueKept ==
  ASSUME threw => threw', fx.pc # "render", fx'.pc # "render", UNCHANGED <<queue, jobs, render>>,
         NEW s, s \in dirtyScenes => s \in dirtyScenes', Due(s)
  PROVE  Due(s)'
BY DEF Due, Job

\* sceneChanged does not forget a scene on a stage.
LEMMA ChangedIsDirty ==
  ASSUME NEW s \in Scenes, sceneChanged(s), NEW t \in Shown
  PROVE  /\ t \in dirtyScenes => t \in dirtyScenes'
         /\ t = s => t \in dirtyScenes'
BY DEF sceneChanged, addDirtyScene, removeDirtyScene, Shown

LEMMA DueStep ==
  ASSUME TypeInv, JobInv, PaintingInv, DirtyInv, DueInv, Next
  PROVE  DueInv'
<1> USE DEF DueInv
<1>1. ASSUME NEW s \in Scenes, ChangeNode(s) \/ NeedsRepaint(s) \/ Snapshot(s) \/ Resize(s)
      PROVE  DueInv'
  <2>1. UNCHANGED <<queue, jobs, render, unseen, peer, threw>> /\ fx.pc # "render"
    BY <1>1 DEF ChangeNode, NeedsRepaint, Snapshot, Resize, AppCode, scene
  <2>2. dirtyScenes \subseteq dirtyScenes'
    BY <1>1 DEF ChangeNode, NeedsRepaint, Snapshot, Resize, sceneChanged, addDirtyScene
  <2>3. fx'.pc # "render"
    <3>1. CASE Snapshot(s)
      BY <3>1 DEF Snapshot, TypeInv, TypeOK
    <3>2. CASE Resize(s)
      BY <3>2 DEF Resize
    <3> QED BY <1>1, <2>1, <3>1, <3>2 DEF ChangeNode, NeedsRepaint
  <2> QED BY <2>1, <2>2, <2>3, DueKept DEF Shown
<1>2. ASSUME NEW s \in Scenes, Show(s) PROVE DueInv'
  <2>1. /\ UNCHANGED <<queue, jobs, render, fx, threw>> /\ fx.pc # "render"
        /\ unseen' = unseen \cup {s} /\ dirtyScenes' = dirtyScenes \cup {s}
        /\ peer' = [peer EXCEPT ![s] = "shown"]
    BY <1>2 DEF Show, AppCode, addDirtyScene
  <2>2. ASSUME NEW t \in (unseen \cap Shown)' PROVE Due(t)'
    <3>1. CASE t = s
      BY <3>1, <2>1 DEF Due
    <3>2. CASE t # s
      <4>1. t \in unseen \cap Shown
        BY <3>2, <2>1 DEF Shown, TypeInv, TypeOK
      <4> QED BY <4>1, <2>1, DueKept
    <3> QED BY <3>1, <3>2
  <2> QED BY <2>1, <2>2
<1>3. ASSUME NEW s \in Scenes, Hide(s) PROVE DueInv'
  <2>1. /\ UNCHANGED <<queue, jobs, render, fx, threw, unseen>> /\ fx.pc # "render"
        /\ dirtyScenes' = dirtyScenes \ {s}
        /\ peer' = [peer EXCEPT ![s] = "gone"]
    BY <1>3 DEF Hide, AppCode, removeDirtyScene
  <2>2. ASSUME NEW t \in (unseen \cap Shown)' PROVE Due(t)'
    <3>1. t \in unseen \cap Shown /\ t # s
      BY <2>1 DEF Shown, TypeInv, TypeOK
    <3> QED BY <3>1, <2>1, DueKept
  <2> QED BY <2>1, <2>2
<1>4. ASSUME NEW s \in Scenes, PulseScene(s) \/ SnapshotSync(s) PROVE DueInv'
  <2>1. /\ UNCHANGED <<queue, jobs, render, threw, peer>> /\ fx.pc # "render" /\ fx'.pc # "render"
    BY <1>4 DEF PulseScene, SnapshotSync, SyncScene, bounds, Idle, TypeInv, TypeOK
  <2>2. \/ UNCHANGED <<unseen, dirtyScenes>>
        \/ sceneChanged(s) /\ unseen' \subseteq unseen \cup {s}
    BY <1>4 DEF PulseScene, SnapshotSync, SyncScene
  <2>3. ASSUME NEW t \in (unseen \cap Shown)' PROVE Due(t)'
    <3>1. t \in Shown
      BY <2>1 DEF Shown
    <3>2. CASE UNCHANGED <<unseen, dirtyScenes>>
      BY <3>1, <3>2, <2>1, DueKept
    <3>3. CASE sceneChanged(s) /\ unseen' \subseteq unseen \cup {s}
      <4>1. CASE t = s
        BY <4>1, <3>3, <3>1, <2>1, ChangedIsDirty DEF Due
      <4>2. CASE t # s
        <5>1. t \in unseen \cap Shown /\ (t \in dirtyScenes => t \in dirtyScenes')
          BY <4>2, <3>3, <3>1, ChangedIsDirty
        <5> QED BY <5>1, <2>1, DueKept
      <4> QED BY <4>1, <4>2
    <3> QED BY <3>2, <3>3, <2>2
  <2> QED BY <2>1, <2>3
<1>5. ASSUME NEW s \in Scenes, Repaint(s) PROVE DueInv'
  <2>1. /\ UNCHANGED <<queue, render, threw, unseen, peer, dirtyScenes>>
        /\ fx.pc = "render" /\ fx'.pc = "render" /\ fx'.todo = fx.todo \ {s} /\ s \in fx.todo
        /\ \/ s \in painting /\ UNCHANGED jobs
           \/ peer[s] # "shown" /\ UNCHANGED jobs
           \/ jobs' = Append(jobs, Job(s, FALSE))
    BY <1>5 DEF Repaint, collector, scene, bounds, TypeInv, TypeOK
  <2>2. \A x : Has(jobs, x) => Has(jobs', x)
    BY <2>1, JobAppendedHas
  <2>3. ASSUME NEW t \in unseen \cap Shown PROVE Due(t)'
    <3>1. CASE t # s
      BY <3>1, <2>1, <2>2 DEF Due
    <3>2. CASE t = s
      <4>1. peer[s] = "shown"
        BY <3>2 DEF Shown
      <4>2. CASE s \in painting
        <5>1. Has(jobs', Job(s, FALSE)) \/ (render.pc = "paint" /\ render.job = Job(s, FALSE))
          BY <4>2, <2>2 DEF PaintingInv
        <5>2. render.job = Job(s, FALSE) => render.job.scene = s
          BY DEF Job
        <5> QED BY <5>1, <5>2, <3>2, <2>1 DEF Due
      <4>3. CASE jobs' = Append(jobs, Job(s, FALSE))
        <5>1. Has(jobs', Job(s, FALSE))
          BY <4>3, JobAppendedHas
        <5> QED BY <5>1, <3>2 DEF Due
      <4> QED BY <4>1, <4>2, <4>3, <2>1
    <3> QED BY <3>1, <3>2
  <2> QED BY <2>1, <2>3 DEF Shown
<1>6. CASE TakeRepaint
  <2>1. /\ UNCHANGED <<jobs, render, fx, threw, unseen, peer>> /\ fx.pc = "idle"
        /\ queue' = Tail(queue) /\ queue # <<>> /\ queue \in Seq(Scenes \cup {Pulse})
        /\ Head(queue) \in Scenes /\ sceneChanged(Head(queue))
    BY <1>6 DEF TakeRepaint, scene, bounds, TypeInv, TypeOK
  <2>2. ASSUME NEW t \in unseen \cap Shown PROVE Due(t)'
    <3>1. Has(queue, t) => Head(queue) = t \/ Has(queue', t)
      BY <2>1, TailHas
    <3>2. (t \in dirtyScenes => t \in dirtyScenes') /\ (t = Head(queue) => t \in dirtyScenes')
      BY <2>1, ChangedIsDirty
    <3> QED BY <3>1, <3>2, <2>1 DEF Due
  <2> QED BY <2>1, <2>2 DEF Shown
<1>7. CASE RenderAll
  <2>1. /\ UNCHANGED <<queue, jobs, render, threw, unseen, peer, dirtyScenes>>
        /\ fx.pc = "fire" /\ fx'.pc = "render" /\ fx'.todo = dirtyScenes
    BY <1>7 DEF RenderAll, scene, bounds, TypeInv, TypeOK
  <2> QED BY <2>1 DEF Due, Shown, Job
<1>8. CASE EndPulse
  <2>1. /\ UNCHANGED <<queue, jobs, render, threw, unseen, peer>> /\ fx'.pc = "idle"
        /\ fx.todo = {}
        /\ fx.pc = "render" \/ (fx.pc # "render" /\ UNCHANGED dirtyScenes)
    BY <1>8 DEF EndPulse, scene, bounds, Idle
  <2> QED BY <2>1 DEF Due, Shown, Job
<1>9. CASE TakePulse
  <2>1. /\ UNCHANGED <<dirtyScenes, unseen, peer, threw, jobs, render>>
        /\ fx.pc # "render" /\ fx'.pc # "render"
        /\ queue' = Tail(queue) /\ queue # <<>> /\ queue \in Seq(Scenes \cup {Pulse})
        /\ Head(queue) = Pulse
    BY <1>9 DEF TakePulse, BeginPulse, collector, scene, bounds, TypeInv, TypeOK
  <2>2. ASSUME NEW t \in unseen \cap Shown PROVE Due(t)'
    <3>1. Has(queue, t) => Head(queue) = t \/ Has(queue', t)
      BY <2>1, TailHas
    <3>2. t # Pulse
      BY PulseAssumption DEF Shown
    <3> QED BY <3>1, <3>2, <2>1 DEF Due
  <2> QED BY <2>1, <2>2 DEF Shown
<1>10. CASE \/ \E b \in BOOLEAN : SetAnimation(b)
            \/ TimerCheck \/ LiveDone \/ Done \/ CountDown \/ LivePulse
            \/ LiveSubmit \/ TimerPost \/ HintPost
  <2>1. /\ UNCHANGED <<dirtyScenes, unseen, peer, threw>>
        /\ render.pc # "paint" \/ UNCHANGED render
    BY <1>10 DEF SetAnimation, AppCode, TimerCheck, LiveDone, Done, CountDown, LivePulse,
                 LiveSubmit, TimerPost, HintPost, collector, scene, bounds
  <2>2. \/ UNCHANGED fx
        \/ fx.pc # "render" /\ fx'.pc # "render"
    <3>1. CASE LiveDone
      BY <3>1, ReturnPc DEF LiveDone, JobInv
    <3>2. CASE LivePulse \/ LiveSubmit
      BY <3>2 DEF LivePulse, BeginPulse, LiveSubmit, TypeInv, TypeOK
    <3> QED BY <1>10, <3>1, <3>2 DEF SetAnimation, TimerCheck, Done, CountDown, TimerPost, HintPost
  <2>3. \A x : Has(queue, x) => Has(queue', x)
    <3>1. \A x : Has(Append(queue, Pulse), x) <=> Has(queue, x) \/ Pulse = x
      BY QueueAppendedHas
    <3>2. UNCHANGED queue \/ queue' = Append(queue, Pulse)
      BY <1>10 DEF SetAnimation, TimerCheck, LiveDone, Done, CountDown, LivePulse, LiveSubmit,
                   TimerPost, HintPost, postPulse
    <3> QED BY <3>1, <3>2
  <2>4. \A x : Has(jobs, x) => Has(jobs', x)
    <3>1. CASE LiveSubmit
      <4>1. fx.live \in Scenes /\ jobs' = Append(jobs, Job(fx.live, TRUE))
        BY <3>1 DEF LiveSubmit, TypeInv, TypeOK
      <4> QED BY <4>1, JobAppendedHas
    <3>2. CASE ~LiveSubmit
      <4>1. UNCHANGED jobs
        BY <1>10, <3>2 DEF SetAnimation, AppCode, TimerCheck, LiveDone, Done, CountDown, LivePulse,
                           TimerPost, HintPost
      <4> QED BY <4>1
    <3> QED BY <3>1, <3>2
  <2>5. ASSUME NEW t \in unseen \cap Shown PROVE Due(t)'
    BY <2>1, <2>2, <2>3, <2>4 DEF Due
  <2> QED BY <2>1, <2>2, <2>5 DEF Shown
<1>11. CASE PulseThrows
  <2>1. threw' /\ fx'.pc # "render"
    BY <1>11, ReturnPc DEF PulseThrows
  <2> QED BY <2>1 DEF Due
<1>12. CASE JobStart
  <2>1. /\ UNCHANGED <<dirtyScenes, unseen, peer, threw, fx, queue>> /\ render.pc = "idle"
        /\ render' = [pc |-> "paint", job |-> Head(jobs)] /\ jobs' = Tail(jobs) /\ jobs # <<>>
        /\ jobs \in Seq(Jobs)
    BY <1>12 DEF JobStart, collector, scene, bounds, TypeInv, TypeOK, Jobs
  <2>2. ASSUME NEW t \in unseen \cap Shown PROVE Due(t)'
    <3>1. ASSUME NEW b \in BOOLEAN
          PROVE  Has(jobs, Job(t, b)) => Head(jobs) = Job(t, b) \/ Has(jobs', Job(t, b))
      BY <2>1, TailHas
    <3>2. ASSUME NEW b \in BOOLEAN, Head(jobs) = Job(t, b)
          PROVE  render'.pc = "paint" /\ render'.job.scene = t
      BY <3>2, <2>1 DEF Job
    <3> QED BY <3>1, <3>2, <2>1 DEF Due
  <2> QED BY <2>1, <2>2 DEF Shown
<1>13. CASE Paint \/ PaintFails \/ PaintThrows
  <2>1. /\ UNCHANGED <<dirtyScenes, peer, fx, jobs>> /\ render.pc = "paint"
        /\ render.job.scene \in Scenes /\ unseen' \subseteq unseen
        /\ threw => threw'
    BY <1>13 DEF Paint, PaintFails, PaintThrows, PaintEnd, collector, JobInv
  <2>2. \A x : Has(queue, x) => Has(queue', x)
    <3>1. UNCHANGED queue \/ queue' = Append(queue, render.job.scene)
      BY <1>13 DEF Paint, PaintFails, PaintThrows
    <3>2. \A x : Has(Append(queue, render.job.scene), x) <=> Has(queue, x) \/ render.job.scene = x
      BY <2>1, QueueAppendedHas
    <3> QED BY <3>1, <3>2
  <2>3. ASSUME NEW t \in (unseen \cap Shown)' PROVE Due(t)'
    <3>1. t \in unseen \cap Shown
      BY <2>1 DEF Shown
    <3>2. CASE t # render.job.scene
      BY <3>1, <3>2, <2>1, <2>2 DEF Due
    <3>3. CASE t = render.job.scene
      <4>1. CASE Paint
        BY <4>1, <3>1, <3>3 DEF Paint, Shown
      <4>2. CASE PaintThrows
        BY <4>2 DEF PaintThrows, Due
      <4>3. CASE PaintFails
        <5>1. queue' = Append(queue, t) /\ queue \in Seq(Scenes \cup {Pulse}) /\ t \in Scenes \cup {Pulse}
          BY <4>3, <3>3, <2>1 DEF PaintFails, TypeInv, TypeOK
        <5>2. Has(queue', t)
          BY <5>1, AppendHas
        <5> QED BY <5>2 DEF Due
      <4> QED BY <1>13, <4>1, <4>2, <4>3
    <3> QED BY <3>2, <3>3
  <2> QED BY <2>1, <2>3
<1> QED BY NextCases, <1>1, <1>2, <1>3, <1>4, <1>5, <1>6, <1>7, <1>8, <1>9, <1>10, <1>11,
           <1>12, <1>13

-----------------------------------------------------------------------------
(***************************************************************************)
(* The latch and the calls of done() that are still to come.               *)
(***************************************************************************)

\* The positions of the jobs of a queue that report to the collector.
PaintsOf(q) == {i \in 1 .. Len(q) : ~q[i].live}

LEMMA PaintsFinite ==
  ASSUME NEW q \in Seq(Jobs)
  PROVE  IsFiniteSet(PaintsOf(q)) /\ Cardinality(PaintsOf(q)) \in Nat
<1>1. Len(q) \in Nat /\ PaintsOf(q) \in SUBSET (1 .. Len(q))
  BY DEF PaintsOf
<1>2. IsFiniteSet(1 .. Len(q))
  BY <1>1, FS_Interval
<1> QED BY <1>1, <1>2, FS_Subset, FS_CardinalityType

\* Submitting a job adds a call of done(), unless it is the job of a live repaint.
LEMMA PaintsAppend ==
  ASSUME NEW q \in Seq(Jobs), NEW j \in Jobs
  PROVE  /\ j.live => Cardinality(PaintsOf(Append(q, j))) = Cardinality(PaintsOf(q))
         /\ ~j.live => Cardinality(PaintsOf(Append(q, j))) = Cardinality(PaintsOf(q)) + 1
<1> DEFINE r == Append(q, j)
<1>1. /\ Len(q) \in Nat /\ Len(r) = Len(q) + 1 /\ r[Len(q) + 1] = j
      /\ \A i \in 1 .. Len(q) : r[i] = q[i]
  BY AppendAt
<1> HIDE DEF r
<1>2. PaintsOf(r) = IF j.live THEN PaintsOf(q) ELSE PaintsOf(q) \cup {Len(q) + 1}
  BY <1>1 DEF PaintsOf
<1>3. Len(q) + 1 \notin PaintsOf(q)
  BY <1>1 DEF PaintsOf
<1>4. /\ Cardinality(PaintsOf(q)) \in Nat
      /\ Cardinality(PaintsOf(q) \cup {Len(q) + 1}) = Cardinality(PaintsOf(q)) + 1
  BY <1>3, PaintsFinite, FS_AddElement
<1> QED BY <1>2, <1>4 DEF r

\* Taking a job removes one.
LEMMA PaintsTail ==
  ASSUME NEW q \in Seq(Jobs), q # <<>>
  PROVE  Cardinality(PaintsOf(q))
           = Cardinality(PaintsOf(Tail(q))) + IF Head(q).live THEN 0 ELSE 1
<1> DEFINE r == Tail(q)
           S == PaintsOf(q) \ {1}
           f == [i \in S |-> i - 1]
<1>1. /\ r \in Seq(Jobs) /\ Head(q) = q[1] /\ Len(q) \in Nat /\ Len(q) >= 1
      /\ Len(r) = Len(q) - 1 /\ \A i \in 1 .. Len(q) - 1 : r[i] = q[i + 1]
  BY TailAt
<1> HIDE DEF r
<1>2. IsFiniteSet(S)
  BY PaintsFinite, FS_RemoveElement
<1>3. f \in Bijection(S, PaintsOf(r))
  <2>1. \A i \in S : i \in Nat /\ i >= 2 /\ f[i] = i - 1
    BY <1>1 DEF PaintsOf
  <2>2. ASSUME NEW i \in S PROVE f[i] \in PaintsOf(r)
    BY <1>1, <2>1 DEF PaintsOf
  <2>3. ASSUME NEW k \in PaintsOf(r) PROVE \E i \in S : f[i] = k
    <3>1. k \in Nat /\ k + 1 \in S
      BY <1>1 DEF PaintsOf
    <3> QED BY <3>1
  <2>4. \A i, k \in S : f[i] = f[k] => i = k
    BY <2>1
  <2>5. f \in [S -> PaintsOf(r)]
    BY <2>2
  <2> QED BY <2>3, <2>4, <2>5 DEF Bijection, Injection, Surjection, IsInjective
<1>4. Cardinality(PaintsOf(r)) = Cardinality(S)
  BY <1>2, <1>3, FS_Bijection DEF ExistsBijection
<1>5. /\ Cardinality(PaintsOf(q)) \in Nat
      /\ Cardinality(S) = IF 1 \in PaintsOf(q) THEN Cardinality(PaintsOf(q)) - 1
                                               ELSE Cardinality(PaintsOf(q))
  BY PaintsFinite, FS_RemoveElement
<1>6. 1 \in PaintsOf(q) <=> ~Head(q).live
  BY <1>1 DEF PaintsOf
<1> QED BY <1>4, <1>5, <1>6 DEF r

\* The calls the render thread will make for the jobs it has.
Reports == Cardinality(PaintJobs) + (IF render.pc # "idle" /\ ~render.job.live THEN 1 ELSE 0)

\* The scenes renderAll has yet to submit.
ToSubmit == IF fx.pc = "render" THEN fx.todo \ painting ELSE {}

Counts ==
  /\ PaintJobs = PaintsOf(jobs) /\ Cardinality(PaintJobs) \in Nat /\ Reports \in Nat
  /\ DonesToCome = Reports + Cardinality(ToSubmit)
  /\ IsFiniteSet(ToSubmit) /\ Cardinality(ToSubmit) \in Nat
  /\ IsFiniteSet(painting) /\ IsFiniteSet(dirtyScenes)

LEMMA DonesAre == TypeInv => Counts
<1> SUFFICES ASSUME TypeInv PROVE Counts
  OBVIOUS
<1>1. PaintJobs = PaintsOf(jobs) /\ jobs \in Seq(Jobs)
  BY DEF PaintJobs, PaintsOf, TypeInv, TypeOK, Jobs
<1>2. Cardinality(PaintJobs) \in Nat
  BY <1>1, PaintsFinite
<1>3. ToSubmit \in SUBSET Scenes /\ painting \in SUBSET Scenes /\ dirtyScenes \in SUBSET Scenes
  BY DEF ToSubmit, TypeInv, TypeOK
<1>4. IsFiniteSet(ToSubmit) /\ IsFiniteSet(painting) /\ IsFiniteSet(dirtyScenes)
  BY <1>3, FS_Subset, PulseAssumption
<1>5. Cardinality(ToSubmit) \in Nat
  BY <1>4, FS_CardinalityType
<1>6. DonesToCome = Reports + Cardinality(ToSubmit)
  BY <1>2, <1>5 DEF DonesToCome, Reports, ToSubmit
<1> QED BY <1>1, <1>2, <1>4, <1>5, <1>6 DEF Reports, Counts

LEMMA DonesWillBe == TypeInv' => Counts'
BY DonesAre, PTL

\* Every scene with a painting flag has a call of done() of its own to come.
LEMMA PaintersReport ==
  ASSUME TypeInv, PaintingInv
  PROVE  Cardinality(painting) \in Nat /\ Cardinality(painting) <= Reports
<1> DEFINE P == PaintsOf(jobs)
           g == [i \in P |-> jobs[i].scene]
           Q == {jobs[i].scene : i \in P}
<1>1. jobs \in Seq(Jobs) /\ PaintJobs = P /\ IsFiniteSet(painting)
  BY DonesAre DEF Counts, TypeInv, TypeOK, Jobs
<1>2. IsFiniteSet(P) /\ Cardinality(P) \in Nat
  BY <1>1, PaintsFinite
<1>3. g \in Surjection(P, Q)
  BY DEF Surjection
<1>4. IsFiniteSet(Q) /\ Cardinality(Q) <= Cardinality(P)
  BY <1>2, <1>3, FS_Surjection
<1>5. ASSUME NEW s, Has(jobs, Job(s, FALSE)) PROVE s \in Q
  <2>1. PICK i \in 1 .. Len(jobs) : jobs[i] = Job(s, FALSE)
    BY <1>5 DEF Has
  <2>2. i \in P /\ jobs[i].scene = s
    BY <2>1 DEF PaintsOf, Job
  <2> QED BY <2>2
<1>6. Cardinality(Q) \in Nat /\ Cardinality(painting) \in Nat
  BY <1>1, <1>4, FS_CardinalityType
<1> HIDE DEF P, g, Q
<1>7. CASE render.pc = "paint" /\ ~render.job.live
  <2>1. painting \in SUBSET (Q \cup {render.job.scene})
    <3>1. ASSUME NEW s \in painting PROVE s \in Q \cup {render.job.scene}
      <4>1. CASE Has(jobs, Job(s, FALSE))
        BY <4>1, <1>5
      <4>2. CASE render.job = Job(s, FALSE)
        BY <4>2 DEF Job
      <4> QED BY <4>1, <4>2 DEF PaintingInv
    <3> QED BY <3>1
  <2>2. /\ IsFiniteSet(Q \cup {render.job.scene})
        /\ Cardinality(Q \cup {render.job.scene})
             = IF render.job.scene \in Q THEN Cardinality(Q) ELSE Cardinality(Q) + 1
    BY <1>4, FS_AddElement
  <2>3. Cardinality(painting) <= Cardinality(Q \cup {render.job.scene})
    BY <2>1, <2>2, FS_Subset
  <2>4. Reports = Cardinality(P) + 1
    BY <1>1, <1>7 DEF Reports
  <2> QED BY <1>2, <1>4, <1>6, <2>2, <2>3, <2>4
<1>8. CASE ~(render.pc = "paint" /\ ~render.job.live)
  <2>1. painting \in SUBSET Q
    <3>1. ASSUME NEW s \in painting PROVE s \in Q
      <4>1. render.job = Job(s, FALSE) => ~render.job.live
        BY DEF Job
      <4> QED BY <4>1, <1>5, <1>8 DEF PaintingInv
    <3> QED BY <3>1
  <2>2. Cardinality(painting) <= Cardinality(Q)
    BY <1>4, <2>1, FS_Subset
  <2>3. Reports \in Nat /\ Reports >= Cardinality(P)
    BY <1>1, <1>2 DEF Reports
  <2> QED BY <1>2, <1>4, <1>6, <2>2, <2>3
<1> QED BY <1>7, <1>8

LEMMA LatchStep ==
  ASSUME TypeInv, TypeInv', JobInv, PaintingInv, DirtyInv, LatchCovered, Next
  PROVE  LatchCovered'
<1>1. /\ latch \in Nat /\ Reports \in Nat /\ Cardinality(ToSubmit) \in Nat
      /\ latch <= Reports + Cardinality(ToSubmit) /\ IsFiniteSet(ToSubmit)
      /\ PaintJobs = PaintsOf(jobs) /\ Cardinality(PaintJobs) \in Nat /\ jobs \in Seq(Jobs)
  BY DonesAre DEF Counts, LatchCovered, TypeInv, TypeOK, Jobs
<1>2. /\ latch' \in Nat /\ Reports' \in Nat /\ Cardinality(ToSubmit') \in Nat
      /\ IsFiniteSet(ToSubmit')
      /\ (PaintJobs = PaintsOf(jobs))' /\ Cardinality(PaintJobs') \in Nat
      /\ (DonesToCome = Reports + Cardinality(ToSubmit))'
  BY DonesWillBe DEF Counts, TypeInv, TypeOK
<1>3. Reports' + Cardinality(ToSubmit') >= latch' => LatchCovered'
  BY <1>2 DEF LatchCovered
<1>4. ToSubmit = {} => Cardinality(ToSubmit) = 0
  BY FS_EmptySet
<1>5. CASE \/ \E s \in Scenes : \/ ChangeNode(s) \/ NeedsRepaint(s) \/ Show(s) \/ Hide(s)
                              \/ Snapshot(s) \/ Resize(s) \/ PulseScene(s) \/ SnapshotSync(s)
           \/ \E b \in BOOLEAN : SetAnimation(b)
           \/ TakePulse \/ LivePulse \/ TakeRepaint \/ EndPulse \/ PulseThrows
           \/ TimerCheck \/ TimerPost
  <2>1. UNCHANGED <<latch, jobs, render, painting>>
    BY <1>5 DEF ChangeNode, NeedsRepaint, Show, Hide, Snapshot, Resize, PulseScene, SnapshotSync,
                SetAnimation, AppCode, TakePulse, LivePulse, TakeRepaint, EndPulse, PulseThrows,
                TimerCheck, TimerPost, collector
  <2>2. UNCHANGED fx \/ fx.pc # "render" \/ fx.todo = {}
    BY <1>5 DEF ChangeNode, NeedsRepaint, Show, Hide, Snapshot, Resize, PulseScene, SnapshotSync,
                SetAnimation, AppCode, TakePulse, LivePulse, TakeRepaint, EndPulse, PulseThrows,
                TimerCheck, TimerPost
  <2>3. Reports' = Reports
    BY <2>1 DEF Reports, PaintJobs
  <2>4. ToSubmit' = ToSubmit \/ ToSubmit = {}
    BY <2>1, <2>2 DEF ToSubmit
  <2> QED BY <1>1, <1>2, <1>3, <1>4, <2>1, <2>3, <2>4
<1>6. ASSUME NEW s \in Scenes, Repaint(s) PROVE LatchCovered'
  <2>1. /\ UNCHANGED <<latch, render>>
        /\ fx.pc = "render" /\ s \in fx.todo /\ fx'.pc = "render" /\ fx'.todo = fx.todo \ {s}
        /\ \/ s \in painting /\ UNCHANGED <<painting, jobs>>
           \/ /\ s \notin painting /\ painting' = painting \cup {s}
              /\ jobs' = Append(jobs, Job(s, FALSE))
    BY <1>6 DEF Repaint, collector, DirtyInv, Shown, TypeInv, TypeOK
  <2>2. CASE s \in painting /\ UNCHANGED <<painting, jobs>>
    <3>1. Reports' = Reports /\ ToSubmit' = ToSubmit
      BY <2>1, <2>2 DEF Reports, PaintJobs, ToSubmit
    <3> QED BY <1>1, <1>2, <1>3, <2>1, <3>1
  <2>3. CASE /\ s \notin painting /\ painting' = painting \cup {s}
             /\ jobs' = Append(jobs, Job(s, FALSE))
    <3>1. Cardinality(PaintJobs') = Cardinality(PaintJobs) + 1
      <4>1. Job(s, FALSE) \in Jobs /\ ~Job(s, FALSE).live
        BY DEF Job, Jobs
      <4> QED BY <1>1, <1>2, <2>3, <4>1, PaintsAppend
    <3>2. Reports' = Reports + 1
      BY <1>1, <2>1, <3>1 DEF Reports
    <3>3. ToSubmit' = ToSubmit \ {s} /\ s \in ToSubmit
      BY <2>1, <2>3 DEF ToSubmit
    <3>4. Cardinality(ToSubmit') = Cardinality(ToSubmit) - 1
      BY <1>1, <3>3, FS_RemoveElement
    <3> QED BY <1>1, <1>2, <1>3, <2>1, <3>2, <3>4
  <2> QED BY <2>1, <2>2, <2>3
<1>7. CASE LiveSubmit
  <2>1. /\ UNCHANGED <<latch, render>> /\ fx.live \in Scenes /\ jobs' = Append(jobs, Job(fx.live, TRUE))
        /\ ToSubmit = {}
    BY <1>7 DEF LiveSubmit, collector, ToSubmit, TypeInv, TypeOK
  <2>2. Job(fx.live, TRUE) \in Jobs /\ Job(fx.live, TRUE).live
    BY <2>1 DEF Job, Jobs
  <2>3. Cardinality(PaintJobs') = Cardinality(PaintJobs)
    <3>1. Cardinality(PaintsOf(Append(jobs, Job(fx.live, TRUE)))) = Cardinality(PaintsOf(jobs))
      BY <1>1, <2>2, PaintsAppend
    <3>2. PaintJobs' = PaintsOf(Append(jobs, Job(fx.live, TRUE)))
      BY <1>2, <2>1
    <3> QED BY <1>1, <3>1, <3>2, Zenon
  <2>4. Reports' = Reports
    BY <2>1, <2>3 DEF Reports
  <2> QED BY <1>1, <1>2, <1>3, <1>4, <2>1, <2>4
<1>8. CASE RenderAll
  <2>1. /\ UNCHANGED <<jobs, render, painting>> /\ latch' = Cardinality(dirtyScenes)
        /\ ToSubmit' = dirtyScenes \ painting /\ dirtyScenes \in SUBSET Scenes
    BY <1>8 DEF RenderAll, ToSubmit, TypeInv, TypeOK
  <2>2. Reports' = Reports
    BY <2>1 DEF Reports, PaintJobs
  <2>3. Cardinality(painting) \in Nat /\ Cardinality(painting) <= Reports /\ IsFiniteSet(painting)
    BY PaintersReport, DonesAre DEF Counts
  <2>4. /\ IsFiniteSet(dirtyScenes \cap painting)
        /\ Cardinality(dirtyScenes \cap painting) <= Cardinality(painting)
        /\ Cardinality(dirtyScenes \cap painting) \in Nat
    BY <2>3, FS_Subset, FS_CardinalityType
  <2>5. dirtyScenes = (dirtyScenes \ painting) \cup (dirtyScenes \cap painting)
    OBVIOUS
  <2>6. (dirtyScenes \ painting) \cap (dirtyScenes \cap painting) = {}
    OBVIOUS
  <2>7. IsFiniteSet(dirtyScenes \ painting)
    BY <2>1, <1>2
  <2>8. Cardinality(dirtyScenes)
          = Cardinality(dirtyScenes \ painting) + Cardinality(dirtyScenes \cap painting) - 0
    BY <2>4, <2>5, <2>6, <2>7, FS_Union, FS_EmptySet
  <2> QED BY <1>1, <1>2, <1>3, <2>1, <2>2, <2>3, <2>4, <2>8
<1>9. CASE JobStart
  <2>1. /\ UNCHANGED <<latch, fx, painting>> /\ render.pc = "idle" /\ jobs # <<>>
        /\ render'.pc = "paint" /\ render'.job = Head(jobs) /\ jobs' = Tail(jobs)
    BY <1>9 DEF JobStart, collector
  <2>2. Cardinality(PaintJobs) = Cardinality(PaintJobs') + IF Head(jobs).live THEN 0 ELSE 1
    BY <1>1, <1>2, <2>1, PaintsTail
  <2>3. Reports' = Reports
    <3>1. Reports = Cardinality(PaintJobs)
      BY <1>1, <2>1 DEF Reports
    <3>2. Reports' = Cardinality(PaintJobs') + IF Head(jobs).live THEN 0 ELSE 1
      BY <2>1 DEF Reports
    <3> QED BY <2>2, <3>1, <3>2
  <2>4. ToSubmit' = ToSubmit
    BY <2>1 DEF ToSubmit
  <2> QED BY <1>1, <1>2, <1>3, <2>1, <2>3, <2>4
<1>10. CASE Paint \/ PaintFails \/ PaintThrows
  <2>1. /\ UNCHANGED <<latch, fx, jobs>> /\ painting' \subseteq painting
        /\ render.pc = "paint" /\ render'.pc = "done" /\ render'.job = render.job
    BY <1>10 DEF Paint, PaintFails, PaintThrows, PaintEnd, Goto, collector, TypeInv
  <2>2. Reports' = Reports
    BY <2>1 DEF Reports, PaintJobs
  <2>3. ToSubmit \in SUBSET ToSubmit'
    BY <2>1 DEF ToSubmit
  <2>4. Cardinality(ToSubmit) <= Cardinality(ToSubmit')
    BY <1>2, <2>3, FS_Subset
  <2> QED BY <1>1, <1>2, <1>3, <2>1, <2>2, <2>4
<1>11. CASE LiveDone
  <2>1. /\ UNCHANGED <<latch, jobs>> /\ render.job.live /\ fx.pc = "live" /\ render'.pc = "idle"
    BY <1>11 DEF LiveDone, Goto, JobInv, collector, TypeInv
  <2>2. Reports' = Reports /\ ToSubmit = {}
    BY <2>1 DEF Reports, PaintJobs, ToSubmit
  <2> QED BY <1>1, <1>2, <1>3, <1>4, <2>1, <2>2
<1>12. CASE Done \/ HintPost
  <2>1. /\ UNCHANGED <<latch, jobs, fx, painting>>
        /\ render.pc # "idle" /\ render'.pc # "idle" /\ render'.job = render.job
    BY <1>12 DEF Done, HintPost, Goto, collector, TypeInv
  <2>2. Reports' = Reports /\ ToSubmit' = ToSubmit
    BY <2>1 DEF Reports, PaintJobs, ToSubmit
  <2> QED BY <1>1, <1>2, <1>3, <2>1, <2>2
<1>13. CASE CountDown
  <2>1. /\ UNCHANGED <<jobs, fx, painting>> /\ latch' = IF latch > 0 THEN latch - 1 ELSE 0
        /\ render.pc = "count" /\ render'.pc = "idle" /\ ~render.job.live
    BY <1>13 DEF CountDown, Goto, JobInv, TypeInv
  <2>2. Reports' = Reports - 1 /\ ToSubmit' = ToSubmit
    BY <1>1, <2>1 DEF Reports, PaintJobs, ToSubmit
  <2> QED BY <1>1, <1>2, <1>3, <2>1, <2>2
<1> QED BY NextCases, <1>5, <1>6, <1>7, <1>8, <1>9, <1>10, <1>11, <1>12, <1>13

-----------------------------------------------------------------------------
(***************************************************************************)
(* The theorems.                                                           *)
(***************************************************************************)
LEMMA InvStep == Inv /\ [Next]_vars => Inv'
<1>1. ASSUME Inv, Next PROVE Inv'
  <2>1. TypeInv'
    BY <1>1, TypeStep DEF Inv
  <2>2. JobInv' /\ PaintingInv' /\ DirtyInv' /\ PulseInv' /\ RequestInv' /\ DueInv'
    BY <1>1, JobStep, PaintingStep, DirtyStep, PulseStep, RequestStep, DueStep DEF Inv
  <2>3. LatchCovered'
    BY <1>1, <2>1, LatchStep DEF Inv
  <2> QED BY <2>1, <2>2, <2>3 DEF Inv
<1>2. ASSUME Inv, UNCHANGED vars PROVE Inv'
  <2> USE <1>2 DEF Inv, vars, flags, collector, scene, bounds
  <2>1. TypeInv'
    BY DEF TypeInv, TypeOK
  <2>2. JobInv' /\ PaintingInv'
    BY DEF JobInv, PaintingInv, Job
  <2>3. DirtyInv' /\ PulseInv' /\ RequestInv'
    BY DEF DirtyInv, PulseInv, RequestInv, Shown
  <2>4. DueInv'
    BY DEF DueInv, Due, Shown, Job
  <2>5. LatchCovered'
    BY DEF LatchCovered, DonesToCome, PaintJobs
  <2> QED BY <2>1, <2>2, <2>3, <2>4, <2>5 DEF Inv
<1> QED BY <1>1, <1>2

LEMMA SpecInv == Spec => []Inv
BY InvInit, InvStep, PTL DEF Spec

\* For any number of scenes, calls of the application and faults: the latch of
\* the paint collector never stands above the number of done() calls that are
\* still to come, so that waitForRenderingToComplete (PaintCollector.java:159)
\* is never left without the call that would release it, and every variable has
\* its type.
THEOREM LatchIsCovered == Spec => []LatchInv
<1>1. Inv => LatchInv
  BY DEF Inv, LatchInv, TypeInv
<1> QED BY <1>1, SpecInv, PTL

LEMMA RangeHas ==
  ASSUME NEW S, NEW q \in Seq(S), NEW x
  PROVE  Has(q, x) <=> x \in Range(q)
BY DEF Has, Range

\* For any number of scenes, calls of the application and faults: what is dirty is
\* noticed by postPulse, a pulse that is marked as running comes, and a scene whose
\* render tree is ahead of the screen is listed, submitted or asked for again,
\* unless an exception cut a pulse or a paint short.
THEOREM NoWorkIsForgotten == Spec => []WorkIsDue
<1>1. ASSUME Inv PROVE WorkIsNoticed
  BY <1>1 DEF Inv, WorkIsNoticed, Wanted, DirtyInv, RequestInv
<1>2. ASSUME Inv PROVE PulseComes
  <2>1. queue \in Seq(Scenes \cup {Pulse})
    BY <1>2 DEF Inv, TypeInv, TypeOK
  <2> QED BY <1>2, <2>1, RangeHas DEF Inv, PulseInv, PulseComes
<1>3. ASSUME Inv PROVE UnseenIsDue
  <2>1. queue \in Seq(Scenes \cup {Pulse}) /\ jobs \in Seq(Jobs)
    BY <1>3 DEF Inv, TypeInv, TypeOK, Jobs
  <2>2. ASSUME NEW s \in unseen \cap Shown
        PROVE  \/ threw \/ s \in dirtyScenes \/ s \in Range(queue)
               \/ \E j \in Range(jobs) : j.scene = s
               \/ render.pc = "paint" /\ render.job.scene = s
    <3>1. Due(s) /\ (fx.pc = "render" => fx.todo \subseteq dirtyScenes)
      BY <1>3 DEF Inv, DueInv
    <3>2. Has(queue, s) => s \in Range(queue)
      BY <2>1, RangeHas
    <3>3. ASSUME NEW b \in BOOLEAN, Has(jobs, Job(s, b)) PROVE \E j \in Range(jobs) : j.scene = s
      <4>1. Job(s, b) \in Range(jobs)
        BY <3>3, <2>1, RangeHas
      <4>2. Job(s, b).scene = s
        BY DEF Job
      <4> QED BY <4>1, <4>2
    <3> QED BY <3>1, <3>2, <3>3 DEF Due
  <2> QED BY <2>2 DEF UnseenIsDue
<1>4. Inv => WorkIsDue
  BY <1>1, <1>2, <1>3 DEF WorkIsDue
<1> QED BY <1>4, SpecInv, PTL
=============================================================================
