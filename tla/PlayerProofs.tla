------------------------------ MODULE PlayerProofs ------------------------------
(***************************************************************************)
(* Proofs about the media player, for any stream, any number of calls and  *)
(* any number of faults.                                                   *)
(*                                                                         *)
(* MediaPipeline: the state the player reports is that of its pipeline     *)
(* whenever nothing is under way, and the status of MediaPlayer only       *)
(* changes as its documentation says. The pipeline is in one of a dozen    *)
(* states (Shapes); the invariant relates each of them to the completed    *)
(* changes that are still on the bus (Line) and to the requests of the     *)
(* player, since a change is handled long after the pipeline has made it.  *)
(* One lemma per action shows that the action keeps it (the lemmas whose   *)
(* names end in Keeps).                                                    *)
(*                                                                         *)
(* PlayerDispose, at the end of the module: the content that the player    *)
(* shares with its callbacks is freed once, and not while it is in use.    *)
(***************************************************************************)
EXTENDS MediaPipeline, PlayerDispose, SequenceFacts, SequenceTheorems, TLAPS

(***************************************************************************)
(* The states the pipeline can be in.                                      *)
(***************************************************************************)
Torn    == Pipeline(NULL, VOID, VOID, NULL, "SUCCESS", "prerolled", "none")
Fresh   == Pipeline(READY, PAUSED, PAUSED, PAUSED, "ASYNC", "waiting", "none")
Paused  == Pipeline(PAUSED, VOID, VOID, PAUSED, "SUCCESS", "prerolled", "none")
Playing == Pipeline(PLAYING, VOID, VOID, PLAYING, "SUCCESS", "prerolled", "none")
\* waits for data: to be PAUSED, to play on after a seek, to play
Seeking == Pipeline(PAUSED, PAUSED, PAUSED, PAUSED, "ASYNC", "waiting", "none")
Seeking4 == Pipeline(PAUSED, PAUSED, PAUSED, PLAYING, "ASYNC", "waiting", "none")
Replay  == Pipeline(PAUSED, PAUSED, PLAYING, PLAYING, "ASYNC", "waiting", "none")
\* a thread continues to PLAYING, with the sinks losing their data again
Goes    == Pipeline(PAUSED, PLAYING, PLAYING, PLAYING, "ASYNC", "prerolled", "continue")
GoesLost == Pipeline(PAUSED, PLAYING, PLAYING, PLAYING, "ASYNC", "waiting", "continue")
Waits4  == Pipeline(PAUSED, PLAYING, PLAYING, PLAYING, "ASYNC", "waiting", "none")
\* a pause waits for data; a play has come meanwhile
Pausing == Pipeline(PLAYING, PAUSED, PAUSED, PAUSED, "ASYNC", "waiting", "none")
Pausing4 == Pipeline(PLAYING, PAUSED, PLAYING, PLAYING, "ASYNC", "waiting", "none")

ToPlay == {Seeking4, Replay, Goes, GoesLost, Waits4}
Shapes == {Torn, Fresh, Paused, Playing, Seeking, Pausing, Pausing4} \union ToPlay

\* The fields of a pipeline.
LEMMA Fields ==
  \A a, b, c, d, e, f, g :
    /\ Pipeline(a, b, c, d, e, f, g).state = a /\ Pipeline(a, b, c, d, e, f, g).next = b
    /\ Pipeline(a, b, c, d, e, f, g).pending = c /\ Pipeline(a, b, c, d, e, f, g).target = d
    /\ Pipeline(a, b, c, d, e, f, g).ret = e /\ Pipeline(a, b, c, d, e, f, g).sinks = f
    /\ Pipeline(a, b, c, d, e, f, g).task = g
BY DEF Pipeline

LEMMA Steps ==
  /\ Step(Paused, PAUSED) = Pipeline(3, 3, 3, 3, "SUCCESS", "prerolled", "none")
  /\ Step(Playing, PLAYING) = Pipeline(4, 4, 4, 4, "SUCCESS", "prerolled", "none")
  /\ Step(Paused, PLAYING) = Pipeline(3, 4, 4, 4, "ASYNC", "prerolled", "none")
  /\ Step(Playing, PAUSED) = Pipeline(4, 3, 3, 3, "ASYNC", "prerolled", "none")
  /\ Step(Goes, PAUSED) = Pipeline(3, 3, 3, 3, "ASYNC", "prerolled", "none")
<1> USE Fields DEF Step, Start, GetNext, VOID, PAUSED, PLAYING
<1>1. Step(Paused, PAUSED) = Pipeline(3, 3, 3, 3, "SUCCESS", "prerolled", "none")
  BY DEF Paused
<1>2. Step(Playing, PLAYING) = Pipeline(4, 4, 4, 4, "SUCCESS", "prerolled", "none")
  BY DEF Playing
<1>3. Step(Paused, PLAYING) = Pipeline(3, 4, 4, 4, "ASYNC", "prerolled", "none")
  BY DEF Paused
<1>4. Step(Playing, PAUSED) = Pipeline(4, 3, 3, 3, "ASYNC", "prerolled", "none")
  BY DEF Playing
<1>5. Step(Goes, PAUSED) = Pipeline(3, 3, 3, 3, "ASYNC", "prerolled", "none")
  BY DEF Goes
<1> QED BY <1>1, <1>2, <1>3, <1>4, <1>5

LEMMA Commits ==
  ASSUME NEW a, NEW b, NEW c, NEW d, NEW e, NEW f, NEW g
  PROVE  /\ Commit(Pipeline(a, b, c, d, e, f, g)) = Pipeline(b, 0, 0, d, "SUCCESS", f, g)
         /\ Waiting(Pipeline(a, b, c, d, e, f, g)) = Pipeline(a, b, c, d, e, "waiting", g)
         /\ a # b \/ e = "ASYNC" => CommitMessages(Pipeline(a, b, c, d, e, f, g)) = <<StateChanged(a, b, 0)>>
         /\ a = b /\ e = "SUCCESS" => CommitMessages(Pipeline(a, b, c, d, e, f, g)) = <<>>
BY Fields DEF Commit, CommitMessages, Waiting, VOID

LEMMA PauseRests ==
  ASSUME NEW p \in {Paused, Seeking}, NEW d
  PROVE  SetState(p, PAUSED, d) = p /\ SetStateMessages(p, PAUSED, d) = <<>>
<1>1. CASE p = Seeking
  BY <1>1, Fields DEF SetState, SetStateMessages, Busy, Retarget, VOID, NULL, PAUSED, PLAYING,
     Seeking
<1>2. CASE p = Paused
  <2>1. p.state # NULL /\ ~Busy(p, PAUSED) /\ ~Waits(p, PAUSED, d)
    BY <1>2, Fields DEF Busy, Waits, Start, Paused, VOID, NULL, PAUSED, PLAYING
  <2>2. Commit(Step(p, PAUSED)) = p /\ CommitMessages(Step(p, PAUSED)) = <<>>
    BY <1>2, Steps, Commits DEF Paused, VOID, PAUSED
  <2> QED BY <2>1, <2>2 DEF SetState, SetStateMessages
<1> QED BY <1>1, <1>2

LEMMA PausePausing ==
  ASSUME NEW p \in {Pausing, Pausing4}, NEW d
  PROVE  SetState(p, PAUSED, d) = Pausing /\ SetStateMessages(p, PAUSED, d) = <<>>
BY Fields DEF SetState, SetStateMessages, Busy, Retarget, VOID, NULL, PAUSED, PLAYING, Pausing,
   Pausing4

LEMMA PausePlaying ==
  ASSUME NEW d
  PROVE  \/ SetState(Playing, PAUSED, d) = Pausing /\ SetStateMessages(Playing, PAUSED, d) = <<>>
         \/ /\ SetState(Playing, PAUSED, d) = Paused
            /\ SetStateMessages(Playing, PAUSED, d) = <<StateChanged(PLAYING, PAUSED, VOID)>>
<1>1. Playing.state # NULL /\ ~Busy(Playing, PAUSED)
  BY Fields DEF Busy, Playing, VOID, NULL, PAUSED, PLAYING
<1>2. Waiting(Step(Playing, PAUSED)) = Pausing
  BY Steps, Commits DEF Pausing, PAUSED, PLAYING
<1>3. Commit(Step(Playing, PAUSED)) = Paused
  BY Steps, Commits DEF Paused, PAUSED, PLAYING, VOID
<1>4. CommitMessages(Step(Playing, PAUSED)) = <<StateChanged(PLAYING, PAUSED, VOID)>>
  BY Steps, Commits DEF PAUSED, PLAYING, VOID
<1> QED BY <1>1, <1>2, <1>3, <1>4 DEF SetState, SetStateMessages

LEMMA PauseGoing ==
  ASSUME NEW p \in ToPlay, NEW d
  PROVE  \/ SetState(p, PAUSED, d) = Seeking /\ SetStateMessages(p, PAUSED, d) = <<>>
         \/ /\ SetState(p, PAUSED, d) = Paused
            /\ SetStateMessages(p, PAUSED, d) = <<StateChanged(PAUSED, PAUSED, VOID)>>
<1>1. CASE p = Goes
  <2>1. Goes.state # NULL /\ ~Busy(Goes, PAUSED)
    BY Fields DEF Busy, Goes, VOID, NULL, PAUSED, PLAYING
  <2>2. Waiting(Step(Goes, PAUSED)) = Seeking
    BY Steps, Commits DEF Seeking, PAUSED, PLAYING
  <2>3. Commit(Step(Goes, PAUSED)) = Paused
    BY Steps, Commits DEF Paused, PAUSED, PLAYING, VOID
  <2>4. CommitMessages(Step(Goes, PAUSED)) = <<StateChanged(PAUSED, PAUSED, VOID)>>
    BY Steps, Commits DEF PAUSED, PLAYING, VOID
  <2> QED BY <1>1, <2>1, <2>2, <2>3, <2>4 DEF SetState, SetStateMessages
<1>2. CASE p \in ToPlay \ {Goes}
  BY <1>2 DEF Pipeline, SetState, SetStateMessages, Busy, Waits, Waiting, Retarget, Step, Start,
     GetNext, Commit, CommitMessages,
     VOID, NULL, READY, PAUSED, PLAYING, ToPlay, Goes, Seeking, Paused, Seeking4, Replay, GoesLost, Waits4
<1> QED BY <1>1, <1>2

LEMMA PlayShapes ==
  ASSUME NEW p \in Shapes \ {Torn, Fresh}, NEW d
  PROVE  /\ p = Paused => /\ SetState(p, PLAYING, d) = Playing
                          /\ SetStateMessages(p, PLAYING, d) = <<StateChanged(PAUSED, PLAYING, VOID)>>
         /\ p \in {Seeking, Seeking4} => SetState(p, PLAYING, d) = Replay
         /\ p = Pausing => SetState(p, PLAYING, d) = Pausing4
         /\ p \notin {Paused, Seeking, Seeking4, Pausing} => SetState(p, PLAYING, d) = p
         /\ p # Paused => SetStateMessages(p, PLAYING, d) = <<>>
<1> USE DEF VOID, NULL, READY, PAUSED, PLAYING
<1>1. CASE p = Paused
  <2>1. p.state # NULL /\ ~Busy(p, PLAYING) /\ ~Waits(p, PLAYING, d)
    BY <1>1, Fields DEF Busy, Waits, Start, Paused
  <2>2. Commit(Step(p, PLAYING)) = Playing
    BY <1>1, Steps, Commits DEF Playing
  <2>3. CommitMessages(Step(p, PLAYING)) = <<StateChanged(PAUSED, PLAYING, VOID)>>
    BY <1>1, Steps, Commits
  <2>4. p \notin {Seeking, Seeking4, Pausing}
    BY <1>1 DEF Paused, Seeking, Seeking4, Pausing, Pipeline
  <2> QED BY <1>1, <2>1, <2>2, <2>3, <2>4 DEF SetState, SetStateMessages
<1>2. CASE p = Playing
  <2>1. p.state # NULL /\ ~Busy(p, PLAYING) /\ ~Waits(p, PLAYING, d)
    BY <1>2, Fields DEF Busy, Waits, Start, Playing
  <2>2. Commit(Step(p, PLAYING)) = p /\ CommitMessages(Step(p, PLAYING)) = <<>>
    BY <1>2, Steps, Commits DEF Playing
  <2>3. p \notin {Paused, Seeking, Seeking4, Pausing}
    BY <1>2 DEF Playing, Paused, Seeking, Seeking4, Pausing, Pipeline
  <2> QED BY <2>1, <2>2, <2>3 DEF SetState, SetStateMessages
<1>3. CASE p \in {Seeking, Seeking4, Pausing}
  <2>1. p.state # NULL /\ Busy(p, PLAYING)
    BY <1>3, Fields DEF Busy, Seeking, Seeking4, Pausing
  <2>2. p \in {Seeking, Seeking4} => Retarget(p, PLAYING) = Replay
    BY <1>3, Fields DEF Retarget, Seeking, Seeking4, Replay
  <2>3. p = Pausing => Retarget(p, PLAYING) = Pausing4
    BY <1>3, Fields DEF Retarget, Pausing, Pausing4
  <2>4. p # Paused
    BY <1>3 DEF Paused, Seeking, Seeking4, Pausing, Pipeline
  <2> QED BY <1>3, <2>1, <2>2, <2>3, <2>4 DEF SetState, SetStateMessages
<1>4. CASE p \in {Replay, Goes, GoesLost, Waits4, Pausing4}
  <2>1. p.state # NULL /\ Busy(p, PLAYING)
    BY <1>4, Fields DEF Busy, Replay, Goes, GoesLost, Waits4, Pausing4
  <2>2. Retarget(p, PLAYING) = p
    BY <1>4, Fields DEF Retarget, Replay, Goes, GoesLost, Waits4, Pausing4
  <2>3. p \notin {Paused, Seeking, Seeking4, Pausing}
    BY <1>4 DEF Replay, Goes, GoesLost, Waits4, Pausing4, Paused, Seeking, Seeking4, Pausing,
       Pipeline
  <2> QED BY <2>1, <2>2, <2>3 DEF SetState, SetStateMessages
<1> QED BY <1>1, <1>2, <1>3, <1>4 DEF Shapes, ToPlay

LEMMA LostShapes ==
  ASSUME NEW p \in Shapes \ {Torn, Fresh}
  PROVE  /\ p = Paused => LostState(p) = Seeking
         /\ p = Playing => LostState(p) = Seeking4
         /\ p \in {Paused, Playing} => LostStateMessages(p) = <<StateChanged(PAUSED, PAUSED, PAUSED)>>
         /\ p = Goes => LostState(p) = GoesLost
         /\ p \notin {Paused, Playing, Goes} => LostState(p) = p
         /\ p \notin {Paused, Playing} => LostStateMessages(p) = <<>>
<1> USE DEF VOID, NULL, READY, PAUSED, PLAYING
<1>1. CASE p \in {Paused, Playing}
  <2>1. p.pending = VOID /\ Min2(p.state, PAUSED) = 3
    BY <1>1, Fields DEF Paused, Playing, Min2
  <2>2. LostStateMessages(p) = <<StateChanged(3, 3, 3)>>
    BY <2>1 DEF LostStateMessages
  <2>3. LostState(p) = Pipeline(3, 3, 3, p.target, "ASYNC", "waiting", p.task)
    BY <2>1 DEF LostState
  <2>4. p = Paused => LostState(p) = Seeking
    BY <2>3, Fields DEF Paused, Seeking
  <2>5. p = Playing => LostState(p) = Seeking4
    BY <2>3, Fields DEF Playing, Seeking4
  <2>6. p # Goes
    BY <1>1 DEF Goes, Paused, Playing, Pipeline
  <2> QED BY <1>1, <2>2, <2>4, <2>5, <2>6
<1>2. CASE p \in {Goes, GoesLost, Replay, Waits4, Pausing4}
  <2>1. p.pending # VOID
    BY <1>2, Fields DEF Goes, GoesLost, Replay, Waits4, Pausing4
  <2>2. Waiting(p) = IF p = Goes THEN GoesLost ELSE p
    BY <1>2, Commits DEF Goes, GoesLost, Replay, Waits4, Pausing4
  <2>3. p \notin {Paused, Playing}
    BY <1>2 DEF Goes, GoesLost, Replay, Waits4, Pausing4, Paused, Playing, Pipeline
  <2> QED BY <2>1, <2>2, <2>3 DEF LostState, LostStateMessages
<1>3. CASE p \in {Seeking, Seeking4, Pausing}
  <2>1. p.pending # VOID
    BY <1>3, Fields DEF Seeking, Seeking4, Pausing
  <2>2. Waiting(p) = p
    BY <1>3, Commits DEF Seeking, Seeking4, Pausing
  <2>3. p \notin {Paused, Playing, Goes}
    BY <1>3 DEF Seeking, Seeking4, Pausing, Paused, Playing, Goes, Pipeline
  <2> QED BY <2>1, <2>2, <2>3 DEF LostState, LostStateMessages
<1> QED BY <1>1, <1>2, <1>3 DEF Shapes, ToPlay

LEMMA DoneShapes ==
  ASSUME NEW p \in Shapes, p.sinks = "waiting"
  PROVE  /\ p \in {Fresh, Seeking, Pausing} => /\ AsyncDone(p) = Paused
                                               /\ AsyncDoneMessages(p) = <<StateChanged(p.state, PAUSED, VOID)>>
         /\ p \notin {Fresh, Seeking, Pausing} =>
              /\ p \in ToPlay \union {Pausing4} /\ AsyncDone(p) = Goes
              /\ \/ AsyncDoneMessages(p) = <<>>
                 \/ \E s \in {PAUSED, PLAYING} : AsyncDoneMessages(p) = <<StateChanged(s, PAUSED, PLAYING)>>
<1> USE DEF VOID, NULL, READY, PAUSED, PLAYING
<1>1. CASE p \in {Fresh, Seeking, Pausing}
  <2>1. p.next = 3 /\ p.target = 3 /\ p.ret = "ASYNC"
    BY <1>1, Fields DEF Fresh, Seeking, Pausing
  <2>2. AsyncDone(p) = Paused
    BY <2>1 DEF AsyncDone, Paused
  <2>3. AsyncDone(p).pending = VOID
    BY <2>2, Fields DEF Paused
  <2>4. AsyncDoneMessages(p) = <<StateChanged(p.state, PAUSED, VOID)>>
    BY <2>1, <2>3 DEF AsyncDoneMessages
  <2> QED BY <1>1, <2>2, <2>4
<1>2. CASE p \in {Seeking4, Replay, Pausing4}
  <2>1. p.next = 3 /\ p.target = 4 /\ p.ret = "ASYNC" /\ p.state \in {3, 4}
    BY <1>2, Fields DEF Seeking4, Replay, Pausing4
  <2>2. AsyncDone(p) = Pipeline(3, GetNext(p.state, 4), 4, 4, "ASYNC", "prerolled", "continue")
    BY <2>1 DEF AsyncDone
  <2>3. AsyncDone(p) = Goes /\ AsyncDone(p).pending = 4
    BY <2>1, <2>2, Fields DEF GetNext, Goes
  <2>4. AsyncDoneMessages(p) = <<StateChanged(p.state, PAUSED, PLAYING)>>
    BY <2>1, <2>3 DEF AsyncDoneMessages
  <2>5. p \notin {Fresh, Seeking, Pausing}
    BY <1>2 DEF Seeking4, Replay, Pausing4, Fresh, Seeking, Pausing, Pipeline
  <2> QED BY <1>2, <2>1, <2>3, <2>4, <2>5 DEF ToPlay
<1>3. CASE p \in {GoesLost, Waits4}
  <2>1. p.next = 4 /\ p.target = 4 /\ p.state = 3
    BY <1>3, Fields DEF GoesLost, Waits4
  <2>2. AsyncDone(p) = Pipeline(3, GetNext(3, 4), 4, 4, "ASYNC", "prerolled", "continue")
    BY <2>1 DEF AsyncDone
  <2>3. AsyncDone(p) = Goes /\ AsyncDoneMessages(p) = <<>>
    BY <2>1, <2>2 DEF GetNext, Goes, AsyncDoneMessages
  <2>4. p \notin {Fresh, Seeking, Pausing}
    BY <1>3 DEF GoesLost, Waits4, Fresh, Seeking, Pausing, Pipeline
  <2> QED BY <1>3, <2>3, <2>4 DEF ToPlay
<1>4. p \notin {Torn, Paused, Playing, Goes}
  BY Fields DEF Torn, Paused, Playing, Goes
<1> QED BY <1>1, <1>2, <1>3, <1>4 DEF Shapes, ToPlay

LEMMA ContinueShapes ==
  ASSUME NEW p \in Shapes, p.task = "continue"
  PROVE  \/ p = Goes /\ Continue(p) = Playing /\ ContinueMessages(p) = <<StateChanged(PAUSED, PLAYING, VOID)>>
         \/ p = GoesLost /\ Continue(p) = Waits4 /\ ContinueMessages(p) = <<>>
<1> USE DEF VOID, NULL, READY, PAUSED, PLAYING
<1>1. p \in {Goes, GoesLost}
  BY Fields DEF Shapes, ToPlay, Torn, Fresh, Paused, Playing, Seeking, Pausing, Pausing4,
     Seeking4, Replay, Waits4
<1>2. p.state = 3 /\ p.pending = 4 /\ p.target = 4 /\ GetNext(p.state, p.pending) = 4
  BY <1>1, Fields DEF Goes, GoesLost, GetNext
<1>3. p = Goes => Continue(p) = Playing /\ ContinueMessages(p) = <<StateChanged(PAUSED, PLAYING, VOID)>>
  <2> SUFFICES ASSUME p = Goes PROVE Continue(p) = Playing /\ ContinueMessages(p) = <<StateChanged(3, 4, 0)>>
    OBVIOUS
  <2>1. p.sinks = "prerolled"
    BY Fields DEF Goes
  <2>2. Continue(p) = Commit(Pipeline(3, 4, 4, 4, "ASYNC", "prerolled", "none"))
    BY <1>2, <2>1 DEF Continue
  <2> QED BY <1>2, <2>1, <2>2, Commits DEF ContinueMessages, Playing
<1>4. p = GoesLost => Continue(p) = Waits4 /\ ContinueMessages(p) = <<>>
  BY <1>2, Fields DEF GoesLost, Continue, ContinueMessages, Waits4
<1> QED BY <1>1, <1>3, <1>4

(***************************************************************************)
(* What holds of the pipeline even after a call came too late.             *)
(***************************************************************************)
PipeOK(p) ==
  /\ p \in Pipelines
  /\ p.next = VOID <=> p.pending = VOID
  /\ p.sinks = "waiting" => p.pending # VOID
  /\ p.task = "continue" => p.pending # VOID /\ p.pending = p.target

Fits(a, b, c, d, e, f, g) ==
  /\ a \in 1..4 /\ b \in 0..4 /\ c \in 0..4 /\ d \in 1..4 /\ e \in {"SUCCESS", "ASYNC"}
  /\ f \in {"prerolled", "waiting"} /\ g \in {"none", "continue"}
  /\ b = 0 <=> c = 0
  /\ f = "waiting" => c # 0
  /\ g = "continue" => c # 0 /\ c = d

LEMMA PipeTyped ==
  ASSUME NEW a, NEW b, NEW c, NEW d, NEW e, NEW f, NEW g, Fits(a, b, c, d, e, f, g)
  PROVE  PipeOK(Pipeline(a, b, c, d, e, f, g))
<1>1. Pipeline(a, b, c, d, e, f, g) \in Pipelines
  BY DEF Fits, Pipeline, Pipelines, NULL, VOID, PLAYING
<1> QED BY <1>1, Fields DEF PipeOK, VOID, Fits

LEMMA TypedFields ==
  ASSUME NEW p, PipeOK(p)
  PROVE  /\ p.state \in 1..4 /\ p.next \in 0..4 /\ p.pending \in 0..4 /\ p.target \in 1..4
         /\ p.ret \in {"SUCCESS", "ASYNC"} /\ p.sinks \in {"prerolled", "waiting"} /\ p.task \in {"none", "continue"}
         /\ p.next = 0 <=> p.pending = 0
         /\ p.sinks = "waiting" => p.pending # 0
         /\ p.task = "continue" => p.pending # 0 /\ p.pending = p.target
BY DEF PipeOK, Pipelines, NULL, VOID, PLAYING

LEMMA GetNextRange ==
  ASSUME NEW a \in 1..4, NEW b \in 1..4
  PROVE  GetNext(a, b) \in 1..4
BY DEF GetNext

LEMMA SetStateOK ==
  ASSUME NEW p, PipeOK(p), NEW s \in {PAUSED, PLAYING}, NEW d
  PROVE  PipeOK(SetState(p, s, d))
<1> USE DEF VOID, NULL, READY, PAUSED, PLAYING
<1>1. CASE p.state = NULL
  <2>1. Fits(2, 3, s, s, "ASYNC", "waiting", "none")
    BY DEF Fits
  <2> QED BY <1>1, <2>1, PipeTyped DEF SetState
<1>2. CASE p.state # NULL /\ Busy(p, s)
  <2>1. Fits(p.state, p.next, s, s, "ASYNC", p.sinks, IF s = p.target THEN p.task ELSE "none")
    BY <1>2, TypedFields DEF Busy, Fits
  <2>2. PipeOK(Retarget(p, s))
    BY <2>1, PipeTyped DEF Retarget
  <2> QED BY <1>2, <2>2 DEF SetState
<1>3. CASE p.state # NULL /\ ~Busy(p, s)
  <2> DEFINE n == GetNext(Start(p, s), s)
             r == IF Start(p, s) # n THEN "ASYNC" ELSE p.ret
  <2>1. Start(p, s) \in 1..4
    BY TypedFields DEF Start
  <2>2. n \in 1..4
    BY <2>1, GetNextRange
  <2>3. r \in {"SUCCESS", "ASYNC"}
    BY TypedFields
  <2>4. (IF s = p.target THEN p.task ELSE "none") = "none"
    BY <1>3, TypedFields DEF Busy
  <2>5. Step(p, s) = Pipeline(p.state, n, s, s, r, p.sinks, "none")
    BY <2>4 DEF Step
  <2> HIDE DEF n, r
  <2>6. Waiting(Step(p, s)) = Pipeline(p.state, n, s, s, r, "waiting", "none")
    BY <2>5, Fields DEF Waiting
  <2>7. Commit(Step(p, s)) = Pipeline(n, 0, 0, s, "SUCCESS", p.sinks, "none")
    BY <2>5, Fields DEF Commit
  <2>8. PipeOK(Waiting(Step(p, s)))
    <3>1. Fits(p.state, n, s, s, r, "waiting", "none")
      BY <2>2, <2>3, TypedFields DEF Fits
    <3> QED BY <2>6, <3>1, PipeTyped
  <2>9. ~Waits(p, s, d) => PipeOK(Commit(Step(p, s)))
    <3>1. ~Waits(p, s, d) => Fits(n, 0, 0, s, "SUCCESS", p.sinks, "none")
      BY <2>2, TypedFields DEF Fits, Waits
    <3> QED BY <2>7, <3>1, PipeTyped
  <2> QED BY <1>3, <2>8, <2>9 DEF SetState
<1> QED BY <1>1, <1>2, <1>3

LEMMA LostStateOK ==
  ASSUME NEW p, PipeOK(p)
  PROVE  PipeOK(LostState(p))
<1> USE DEF VOID, NULL, READY, PAUSED, PLAYING
<1>1. CASE p.pending # VOID
  <2>1. Fits(p.state, p.next, p.pending, p.target, p.ret, "waiting", p.task)
    BY <1>1, TypedFields DEF Fits
  <2> QED BY <1>1, <2>1, PipeTyped DEF LostState, Waiting
<1>2. CASE p.pending = VOID
  <2> DEFINE s == Min2(p.state, PAUSED)
  <2>1. s \in 1..4 /\ p.task = "none"
    BY <1>2, TypedFields DEF Min2
  <2>2. LostState(p) = Pipeline(s, s, s, p.target, "ASYNC", "waiting", "none")
    BY <1>2, <2>1 DEF LostState
  <2> HIDE DEF s
  <2>3. Fits(s, s, s, p.target, "ASYNC", "waiting", "none")
    BY <2>1, TypedFields DEF Fits
  <2> QED BY <2>2, <2>3, PipeTyped
<1> QED BY <1>1, <1>2

LEMMA AsyncDoneOK ==
  ASSUME NEW p, PipeOK(p), p.sinks = "waiting"
  PROVE  PipeOK(AsyncDone(p))
<1> USE DEF VOID, NULL, READY, PAUSED, PLAYING
<1> DEFINE c == IF p.next = PLAYING THEN p.state ELSE p.next
<1>1. c \in 1..4
  BY TypedFields
<1>2. GetNext(p.state, p.target) \in 1..4
  BY TypedFields, GetNextRange
<1> HIDE DEF c
<1>3. Fits(c, 0, 0, p.target, "SUCCESS", "prerolled", "none")
  BY <1>1, TypedFields DEF Fits
<1>4. Fits(c, GetNext(p.state, p.target), p.target, p.target, "ASYNC", "prerolled", "continue")
  BY <1>1, <1>2, TypedFields DEF Fits
<1>5. AsyncDone(p) = IF p.target = c THEN Pipeline(c, 0, 0, p.target, "SUCCESS", "prerolled", "none")
                     ELSE Pipeline(c, GetNext(p.state, p.target), p.target, p.target, "ASYNC", "prerolled", "continue")
  BY DEF AsyncDone, c
<1> QED BY <1>3, <1>4, <1>5, PipeTyped

LEMMA ContinueOK ==
  ASSUME NEW p, PipeOK(p), p.task = "continue"
  PROVE  PipeOK(Continue(p))
<1> USE DEF VOID, NULL, READY, PAUSED, PLAYING
<1> DEFINE n == GetNext(p.state, p.pending)
           q == Pipeline(p.state, n, p.pending, p.target, "ASYNC", p.sinks, "none")
<1>1. n \in 1..4
  BY TypedFields, GetNextRange
<1> HIDE DEF n
<1>2. Fits(p.state, n, p.pending, p.target, "ASYNC", p.sinks, "none")
  BY <1>1, TypedFields DEF Fits
<1>3. Commit(q) = Pipeline(n, 0, 0, p.target, "SUCCESS", p.sinks, "none")
  BY Fields DEF Commit
<1>4. p.sinks # "waiting" => Fits(n, 0, 0, p.target, "SUCCESS", p.sinks, "none")
  BY <1>1, TypedFields DEF Fits
<1>5. Continue(p) = IF p.sinks = "waiting" THEN q ELSE Commit(q)
  BY DEF Continue, n
<1> QED BY <1>2, <1>3, <1>4, <1>5, PipeTyped

(***************************************************************************)
(* The messages.                                                           *)
(***************************************************************************)
PlainTypes ==
  {"AUDIO_SINK_READY", "VIDEO_SINK_READY", "RESUME", "FULL", "NOT_FULL", "HLS_EOS", "STALL",
   "EOS", "ERROR"}
Changes == [type : {"STATE_CHANGED"}, old : 0..4, new : 0..4, pending : 0..4]
Messages == [type : PlainTypes] \union Changes

\* Completed changes of the pipeline, and among them those to PLAYING, to
\* PAUSED, from PLAYING to PAUSED, the first one, and those that cannot be;
\* the end of the stream.
Voids == {m \in Changes : m.pending = VOID}
Plays == {m \in Voids : m.old = PAUSED /\ m.new = PLAYING}
Pauses == {m \in Voids : m.old \in {READY, PAUSED, PLAYING} /\ m.new = PAUSED}
Leaves == {m \in Pauses : m.old = PLAYING}
Firsts == {m \in Pauses : m.old = READY}
Strange == {m \in Voids : m \notin Plays /\ m \notin Pauses}
Ends == {Message("EOS")}

LEMMA Subsets ==
  /\ Voids \subseteq Messages
  /\ \A m \in Plays : m \in Voids /\ m \notin Pauses /\ m \notin Leaves /\ m \notin Firsts /\ m \notin Strange
  /\ \A m \in Pauses : m \in Voids /\ m \notin Plays /\ m \notin Strange
  /\ \A m \in Leaves : m \in Pauses /\ m \notin Firsts
  /\ \A m \in Firsts : m \in Pauses /\ m \notin Leaves
  /\ \A m \in Voids : m \in Plays \/ m \in Pauses \/ m \in Strange
  /\ \A m \in Strange : m \in Voids
BY DEF Voids, Plays, Pauses, Leaves, Firsts, Strange, Messages, READY, PAUSED, PLAYING

LEMMA Changed ==
  ASSUME NEW a \in 0..4, NEW b \in 0..4, NEW c \in 0..4
  PROVE  LET m == StateChanged(a, b, c)
         IN /\ m \in Messages /\ m \in Changes /\ m \notin Ends /\ m.old = a /\ m.new = b /\ m.pending = c
            /\ m \in Voids <=> c = 0
            /\ m \in Plays <=> c = 0 /\ a = 3 /\ b = 4
            /\ m \in Pauses <=> c = 0 /\ a \in {2, 3, 4} /\ b = 3
            /\ m \in Leaves <=> c = 0 /\ a = 4 /\ b = 3
            /\ m \in Firsts <=> c = 0 /\ a = 2 /\ b = 3
<1> DEFINE m == StateChanged(a, b, c)
<1>1. m \in Changes /\ m.old = a /\ m.new = b /\ m.pending = c /\ m.type = "STATE_CHANGED"
  BY DEF StateChanged, Changes
<1>2. m \notin Ends
  <2>1. Message("EOS").type = "EOS"
    BY DEF Message
  <2> QED BY <1>1, <2>1 DEF Ends
<1> HIDE DEF m
<1>3. m \in Messages
  BY <1>1 DEF Messages
<1> QED BY <1>1, <1>2, <1>3 DEF Voids, Plays, Pauses, Leaves, Firsts, VOID, READY, PAUSED,
           PLAYING, m

LEMMA Ended ==
  ASSUME NEW t \in PlainTypes
  PROVE  /\ Message(t) \in Messages /\ Message(t) \notin Voids /\ Message(t).type = t
         /\ Message(t) \in Ends <=> t = "EOS"
<1>1. Message(t) \in [type : PlainTypes] /\ Message(t).type = t /\ Message("EOS").type = "EOS"
  BY DEF Message
<1>2. t # "STATE_CHANGED"
  BY DEF PlainTypes
<1>3. \A m \in Changes : m.type = "STATE_CHANGED"
  BY DEF Changes
<1> QED BY <1>1, <1>2, <1>3 DEF Messages, Voids, Ends

\* A message that says nothing of a completed change or the end.
Plain(m) == m \in Messages /\ m \notin Voids /\ m \notin Ends

\* The line r tells the player what q tells it.
Keeps(q, r) ==
  /\ r \in Seq(Messages)
  /\ Some(r, Voids) <=> Some(q, Voids)
  /\ Some(r, Plays) <=> Some(q, Plays)
  /\ Some(r, Leaves) <=> Some(q, Leaves)
  /\ Some(r, Firsts) <=> Some(q, Firsts)
  /\ Some(r, Strange) <=> Some(q, Strange)
  /\ Some(r, Ends) => Some(q, Ends)
  /\ AtMostOne(q, Voids) => AtMostOne(r, Voids)
  /\ Answered(q, Plays, Leaves) => Answered(r, Plays, Leaves)
  /\ Answered(q, Pauses, Plays) => Answered(r, Pauses, Plays)
  /\ AnsweredBefore(q, Pauses, Plays, Ends) => AnsweredBefore(r, Pauses, Plays, Ends)
  /\ Preceded(q, Plays, Ends) => Preceded(r, Plays, Ends)

LEMMA KeepsSelf == ASSUME NEW q \in Seq(Messages) PROVE Keeps(q, q)
BY DEF Keeps

LEMMA KeepsTrans == ASSUME NEW q, NEW r, NEW s, Keeps(q, r), Keeps(r, s) PROVE Keeps(q, s)
BY DEF Keeps

LEMMA KeepsAppend ==
  ASSUME NEW q \in Seq(Messages), NEW m, Plain(m)
  PROVE  Keeps(q, q \o <<m>>)
<1> DEFINE r == q \o <<m>>
<1>1. /\ m \in Messages /\ m \notin Voids /\ m \notin Ends /\ m \notin Plays /\ m \notin Pauses
      /\ m \notin Leaves /\ m \notin Firsts /\ m \notin Strange
  BY Subsets DEF Plain
<1>2. /\ r \in Seq(Messages)
      /\ \A A, B, E :
        /\ Some(r, A) <=> Some(q, A) \/ m \in A
        /\ AtMostOne(q, A) /\ (m \in A => ~Some(q, A)) => AtMostOne(r, A)
        /\ Answered(q, A, B) /\ m \notin A => Answered(r, A, B)
        /\ AnsweredBefore(q, A, B, E) /\ (m \in E => Answered(q, A, B)) => AnsweredBefore(r, A, B, E)
        /\ Preceded(q, B, E) /\ (m \in E => Some(q, B)) => Preceded(r, B, E)
  BY <1>1, AppendSome
<1> HIDE DEF r
<1>3. /\ Some(r, Voids) <=> Some(q, Voids)
      /\ AtMostOne(q, Voids) => AtMostOne(r, Voids)
  BY <1>1, <1>2
<1>4. /\ Some(r, Plays) <=> Some(q, Plays)
      /\ Answered(q, Plays, Leaves) => Answered(r, Plays, Leaves)
      /\ Preceded(q, Plays, Ends) => Preceded(r, Plays, Ends)
  BY <1>1, <1>2
<1>5. /\ Some(r, Leaves) <=> Some(q, Leaves)
      /\ Some(r, Firsts) <=> Some(q, Firsts)
      /\ Some(r, Strange) <=> Some(q, Strange)
      /\ Some(r, Ends) <=> Some(q, Ends)
  BY <1>1, <1>2
<1>6. /\ Answered(q, Pauses, Plays) => Answered(r, Pauses, Plays)
      /\ AnsweredBefore(q, Pauses, Plays, Ends) => AnsweredBefore(r, Pauses, Plays, Ends)
  BY <1>1, <1>2
<1> QED BY <1>2, <1>3, <1>4, <1>5, <1>6 DEF Keeps, r

LEMMA KeepsRest ==
  ASSUME NEW q, NEW r \in Seq(Messages), NEW h, h \notin Voids,
         \A A, B, E :
           /\ Some(q, A) <=> h \in A \/ Some(r, A)
           /\ AtMostOne(q, A) => AtMostOne(r, A)
           /\ Answered(q, A, B) => Answered(r, A, B)
           /\ AnsweredBefore(q, A, B, E) => AnsweredBefore(r, A, B, E)
           /\ Preceded(q, B, E) => (h \notin B => Preceded(r, B, E))
  PROVE  Keeps(q, r) /\ (Some(q, Ends) <=> h \in Ends \/ Some(r, Ends))
<1>1. /\ h \notin Plays /\ h \notin Pauses /\ h \notin Leaves
      /\ h \notin Firsts /\ h \notin Strange
  BY Subsets
<1>3. /\ Some(r, Voids) <=> Some(q, Voids)
      /\ AtMostOne(q, Voids) => AtMostOne(r, Voids)
  OBVIOUS
<1>4. /\ Some(r, Plays) <=> Some(q, Plays)
      /\ Answered(q, Plays, Leaves) => Answered(r, Plays, Leaves)
      /\ Preceded(q, Plays, Ends) => Preceded(r, Plays, Ends)
  BY <1>1
<1>5. /\ Some(r, Leaves) <=> Some(q, Leaves)
      /\ Some(r, Firsts) <=> Some(q, Firsts)
      /\ Some(r, Strange) <=> Some(q, Strange)
      /\ Some(q, Ends) <=> h \in Ends \/ Some(r, Ends)
  BY <1>1
<1>6. /\ Answered(q, Pauses, Plays) => Answered(r, Pauses, Plays)
      /\ AnsweredBefore(q, Pauses, Plays, Ends) => AnsweredBefore(r, Pauses, Plays, Ends)
  OBVIOUS
<1> QED BY <1>3, <1>4, <1>5, <1>6 DEF Keeps

LEMMA KeepsTail ==
  ASSUME NEW q \in Seq(Messages), q # <<>>, Head(q) \notin Voids
  PROVE  Keeps(q, Tail(q)) /\ (Some(q, Ends) <=> Head(q) \in Ends \/ Some(Tail(q), Ends))
<1>1. Tail(q) \in Seq(Messages)
  BY TailAt
<1>2. \A A, B, E :
        /\ Some(q, A) <=> Head(q) \in A \/ Some(Tail(q), A)
        /\ AtMostOne(q, A) => AtMostOne(Tail(q), A)
        /\ Answered(q, A, B) => Answered(Tail(q), A, B)
        /\ AnsweredBefore(q, A, B, E) => AnsweredBefore(Tail(q), A, B, E)
        /\ Preceded(q, B, E) => (Head(q) \notin B => Preceded(Tail(q), B, E))
  BY TailSome
<1> QED BY <1>1, <1>2, KeepsRest, Zenon

LEMMA NoneAnswered ==
  ASSUME NEW q, NEW A, NEW B, ~Some(q, A)
  PROVE  Answered(q, A, B)
BY DEF Some, Answered

(***************************************************************************)
(* The invariant.                                                          *)
(***************************************************************************)
\* What the bus thread has in hand and what is on the bus.
Line == IF pc["bus"] = "update" THEN <<msg>> \o bus ELSE bus

UserLabels ==
  {"idle", "play", "pause", "stop", "seek", "rate0", "rate1", "playing",
   "internalPause", "pausing", "stopping", "pauseRequest", "rate0pause", "rate0set",
   "seekPipeline", "seekResume", "seekPlay", "rate1done"}
BusLabels == {"idle", "play", "playing", "internalPause", "pausing", "update", "error", "stall"}

TypeInv ==
  /\ m_PlayerState \in PlayerStates /\ m_PlayerPendingState \in {"Unknown", "Paused", "Stopped"}
  /\ m_fRate \in {0, 1} /\ status \in PS!Statuses
  /\ PipeOK(pipe) /\ level \in 0..Slots /\ toCome \in 0..Segments
  /\ bus \in Seq(Messages)
  /\ pc \in [{"user", "bus"} -> UserLabels \union BusLabels]
  /\ pc["user"] \in UserLabels /\ pc["bus"] \in BusLabels
  /\ then \in {"idle", "seek", "rate0set"}
  /\ IF pc["bus"] = "update" THEN msg \in Voids ELSE msg = Message("none")

\* Where the user's call is tells what it has tested: Java calls a player that
\* was READY, Seek does not play on if a stop is pending, Stop does not pause
\* at rate 0.
UserInv ==
  /\ pc["user"] # "idle" => status # "UNKNOWN"
  /\ pc["user"] = "seekPlay" => m_PlayerPendingState # "Stopped"
  /\ pc["user"] = "stopping" => m_fRate # 0

\* A pause was asked for; the user's thread is about to ask the pipeline for it.
Requested == m_PlayerPendingState \in {"Paused", "Stopped"} \/ m_StallOnPause
AboutToPause == pc["user"] \in {"internalPause", "pausing"} /\ m_fRate # 0
Still == {"Paused", "Stopped", "Stalled"}

\* The races that have not happened.
NoSeek == OnTime /\ "seek" \notin races
NoPlay == OnTime /\ "play" \notin races
Clean == NoPlay /\ "stop" \notin races

\* The pipeline is in one of its states, and its messages are about changes
\* between them; it is torn down exactly when the player is in Error, or about
\* to be, and then nothing is under way.
PipeInv ==
  OnTime =>
    /\ pipe \in Shapes /\ ~Some(Line, Strange)
    /\ pipe = Torn <=> m_PlayerState = "Error" \/ pc["bus"] = "error"
    /\ pipe = Torn => flushing /\ bus = <<>> /\ pc["bus"] \in {"idle", "error"}
    /\ pipe # Torn => ~flushing

\* Until the first change is handled the player is Unknown or in Error, no call was made,
\* and there is one change to PAUSED at most.
EarlyInv ==
  OnTime =>
    /\ Some(Line, Firsts) => status = "UNKNOWN"
    /\ pipe = Fresh => status = "UNKNOWN"
    /\ m_PlayerState = "Unknown" => status = "UNKNOWN"
    /\ status = "UNKNOWN" =>
         /\ m_PlayerState \in {"Unknown", "Error"} /\ pc["bus"] \in {"idle", "update", "error"}
         /\ pipe \in {Fresh, Seeking, Paused, Torn}
         /\ ~Some(Line, Ends) /\ ~Some(Line, Plays)
         /\ pipe \in {Fresh, Seeking} => ~Some(Line, Voids)
         /\ AtMostOne(Line, Voids)

\* A player that is to be stopped and does not play has no pipeline that is to
\* play, unless the pause is about to come.
StopInv ==
  NoPlay /\ m_PlayerPendingState = "Stopped" /\ m_PlayerState \in Still /\ pipe.target = PLAYING
    => AboutToPause

\* A pipeline that is PAUSED, or will be when the sinks have data: a change to
\* PLAYING on the bus is followed by one that leaves it; a player that still
\* says Playing will learn of the pause, from the bus or by its request.
SettleInv ==
  NoSeek /\ pipe \in {Paused, Seeking} =>
    /\ Answered(Line, Plays, Leaves)
    /\ Some(Line, Leaves) \/ (m_PlayerState = "Playing" => Requested)
    /\ pipe = Paused /\ m_PlayerState = "Playing" => Some(Line, Voids)

\* A pipeline that plays: a change to PAUSED on the bus is followed by one to
\* PLAYING, and a player that says otherwise has a change to handle.
PlaysInv ==
  NoPlay /\ pipe = Playing =>
    /\ Answered(Line, Pauses, Plays)
    /\ ~Some(Line, Voids) /\ m_PlayerState \in Still \union {"Ready"} => AboutToPause

\* The status that goes with a state of the player; an error may leave the
\* status as it was.
Shows(state, s) ==
  /\ state = "Unknown" => s = "UNKNOWN"
  /\ state = "Ready" => s = "READY"
  /\ state \in {"Playing", "Finished"} => s = "PLAYING"
  /\ state = "Paused" => s = "PAUSED"
  /\ state = "Stopped" => s = "STOPPED"
  /\ state = "Stalled" => s = "STALLED"

\* The status is that of the state; a player is Finished only if it has played:
\* the change to PLAYING comes before the end of the stream on the bus.
StatusInv ==
  Clean =>
    /\ Shows(m_PlayerState, status)
    /\ m_PlayerPendingState = "Stopped" /\ m_PlayerState \in Still =>
         pipe.target # PLAYING /\ ~Some(Line, Plays)
    /\ AnsweredBefore(Line, Pauses, Plays, Ends)
    /\ m_PlayerState \notin {"Playing", "Finished"} => Preceded(Line, Plays, Ends)
    /\ pipe = Playing /\ m_PlayerState \notin {"Playing", "Finished"} => Some(Line, Voids)

Core == PipeInv /\ EarlyInv /\ StopInv /\ SettleInv /\ PlaysInv /\ StatusInv
IInv == TypeInv /\ UserInv /\ Core

-----------------------------------------------------------------------------
\* What the steps do to the line of messages.
LEMMA LineType ==
  ASSUME TypeInv
  PROVE  /\ Line \in Seq(Messages) /\ (pc["bus"] # "update" => Line = bus)
         /\ pc["bus"] = "update" => msg \in Messages /\ Line # <<>> /\ Head(Line) = msg /\ Tail(Line) = bus
<1>1. bus \in Seq(Messages) /\ (pc["bus"] = "update" => msg \in Messages)
  BY Subsets DEF TypeInv
<1> QED BY <1>1 DEF Line

LEMMA LinePosted ==
  ASSUME TypeInv, NEW ms \in Seq(Messages), bus' = bus \o ms, msg' = msg,
         pc'["bus"] = "update" <=> pc["bus"] = "update"
  PROVE  Line' = Line \o ms
<1>1. bus \in Seq(Messages) /\ (pc["bus"] = "update" => msg \in Messages)
  BY Subsets DEF TypeInv
<1>2. CASE pc["bus"] = "update"
  <2>1. <<msg>> \o (bus \o ms) = (<<msg>> \o bus) \o ms
    BY <1>1, <1>2
  <2> QED BY <1>2, <2>1 DEF Line
<1>3. CASE pc["bus"] # "update"
  BY <1>3 DEF Line
<1> QED BY <1>2, <1>3

LEMMA LineSame ==
  ASSUME bus' = bus, msg' = msg, pc'["bus"] = "update" <=> pc["bus"] = "update"
  PROVE  Line' = Line
BY DEF Line

LEMMA LineTaken ==
  ASSUME TypeInv, pc["bus"] = "idle", bus # <<>>, bus' = Tail(bus), pc'["bus"] # "update"
  PROVE  Line = bus /\ Line' = Tail(bus)
BY DEF Line

LEMMA LineInHand ==
  ASSUME TypeInv, pc["bus"] = "idle", bus # <<>>, bus' = Tail(bus), pc'["bus"] = "update",
         msg' = Head(bus)
  PROVE  Line' = Line
<1>1. bus \in Seq(Messages)
  BY DEF TypeInv
<1>2. <<Head(bus)>> \o Tail(bus) = bus
  BY <1>1
<1> QED BY <1>2 DEF Line

\* The shapes that differ, by their fields.
LEMMA ShapeFacts ==
  /\ Torn.state = NULL /\ Torn.target = NULL /\ Torn.pending = VOID /\ Torn.sinks = "prerolled" /\ Torn.task = "none"
  /\ \A p \in Shapes : /\ p.state = NULL => p = Torn
                       /\ p.pending = VOID => p \in {Torn, Paused, Playing}
                       /\ p.state = PLAYING /\ p.sinks = "prerolled" => p = Playing
                       /\ p \in ToPlay => p.state = PAUSED
                       /\ p.target = PLAYING <=> p \in ToPlay \union {Playing, Pausing4}
  /\ Playing.state = PLAYING /\ Paused.state = PAUSED /\ Fresh.state = READY /\ Seeking.state = PAUSED
  /\ Pausing.state = PLAYING
  /\ ToPlay \intersect {Torn, Fresh, Paused, Playing, Seeking, Pausing, Pausing4} = {}
  /\ Torn \notin {Fresh, Paused, Playing, Seeking, Pausing, Pausing4}
  /\ Fresh \notin {Paused, Playing, Seeking, Pausing, Pausing4}
  /\ Paused \notin {Playing, Seeking, Pausing, Pausing4}
  /\ Playing \notin {Seeking, Pausing, Pausing4}
  /\ Seeking \notin {Pausing, Pausing4} /\ Pausing # Pausing4
<1> USE DEF VOID, NULL, READY, PAUSED, PLAYING
<1>1. Torn.state = NULL /\ Torn.target = NULL /\ Torn.pending = VOID /\ Torn.sinks = "prerolled" /\ Torn.task = "none"
  BY Fields DEF Torn
<1>2. ASSUME NEW p \in ToPlay
      PROVE  p.state = 3 /\ p.pending # 0 /\ p.target = 4
  BY Fields DEF ToPlay, Seeking4, Replay, Goes, GoesLost, Waits4
<1>3. /\ Fresh.state = 2 /\ Fresh.pending = 3 /\ Fresh.target = 3
      /\ Seeking.state = 3 /\ Seeking.pending = 3 /\ Seeking.target = 3
  BY Fields DEF Fresh, Seeking
<1>4. /\ Paused.state = 3 /\ Paused.pending = 0 /\ Paused.target = 3
      /\ Playing.state = 4 /\ Playing.pending = 0 /\ Playing.target = 4
  BY Fields DEF Paused, Playing
<1>5. /\ Pausing.state = 4 /\ Pausing.pending = 3 /\ Pausing.target = 3 /\ Pausing.sinks = "waiting"
      /\ Pausing4.state = 4 /\ Pausing4.pending = 4 /\ Pausing4.target = 4 /\ Pausing4.sinks = "waiting"
  BY Fields DEF Pausing, Pausing4
<1>6. \A p \in Shapes : /\ p.state = NULL => p = Torn
                        /\ p.pending = VOID => p \in {Torn, Paused, Playing}
                        /\ p.state = PLAYING /\ p.sinks = "prerolled" => p = Playing
                        /\ p \in ToPlay => p.state = PAUSED
                        /\ p.target = PLAYING <=> p \in ToPlay \union {Playing, Pausing4}
  BY <1>1, <1>2, <1>3, <1>4, <1>5 DEF Shapes
<1> QED BY <1>1, <1>2, <1>3, <1>4, <1>5, <1>6

\* A step that leaves the pipeline and the player's state and request alone
\* and takes no completed change from the line.
LEMMA CoreKept ==
  ASSUME TypeInv, Core, Keeps(Line, Line'), races \subseteq races',
         m_PlayerState' = m_PlayerState, m_PlayerPendingState' = m_PlayerPendingState,
         status' = status, pipe' = pipe, flushing' = flushing,
         Requested => Requested',
         m_PlayerState \in Still \union {"Ready"} /\ AboutToPause => AboutToPause',
         pc'["bus"] = "error" <=> pc["bus"] = "error",
         OnTime /\ pipe = Torn => bus' = <<>> /\ pc'["bus"] \in {"idle", "error"},
         OnTime /\ status = "UNKNOWN" => pc'["bus"] \in {"idle", "update", "error"}
  PROVE  Core'
<1>1. PipeInv'
  BY DEF Core, PipeInv, OnTime, Keeps
<1>2. EarlyInv'
  BY DEF Core, EarlyInv, OnTime, Keeps
<1>3. StopInv'
  BY DEF Core, StopInv, NoPlay, OnTime
<1>4. SettleInv'
  BY DEF Core, SettleInv, NoSeek, OnTime, Keeps
<1>5. PlaysInv'
  BY DEF Core, PlaysInv, NoPlay, OnTime, Keeps
<1>6. StatusInv'
  BY DEF Core, StatusInv, Clean, NoPlay, OnTime, Keeps
<1> QED BY <1>1, <1>2, <1>3, <1>4, <1>5, <1>6 DEF Core

-----------------------------------------------------------------------------
(***************************************************************************)
(* Steps that move a thread, post or take a message without a change of    *)
(* the pipeline.                                                           *)
(***************************************************************************)
LEMMA PostsPlain ==
  ASSUME TypeInv, NEW m, Plain(m), Post(<<m>>), msg' = msg, pc' = pc
  PROVE  bus' \in Seq(Messages) /\ Keeps(Line, Line')
<1>1. Line \in Seq(Messages) /\ bus \in Seq(Messages) /\ <<m>> \in Seq(Messages)
  BY LineType DEF TypeInv, Plain
<1>2. CASE flushing
  <2>1. bus' = bus /\ Line' = Line
    BY <1>2, LineSame DEF Post
  <2> QED BY <1>1, <2>1, KeepsSelf
<1>3. CASE ~flushing
  <2>1. bus' = bus \o <<m>>
    BY <1>3 DEF Post
  <2>2. Line' = Line \o <<m>>
    BY <1>1, <2>1, LinePosted
  <2>3. bus' \in Seq(Messages)
    BY <1>1, <2>1
  <2> QED BY <1>1, <2>2, <2>3, KeepsAppend
<1> QED BY <1>2, <1>3

LEMMA PlainMessages ==
  ASSUME NEW t \in PlainTypes \ {"EOS"}
  PROVE  Plain(Message(t))
BY Ended DEF Plain

\* The buffer posts a message, or none.
LEMMA BufferKeeps ==
  ASSUME IInv, bufUnchanged, races' = races, level' \in 0..Slots, toCome' \in 0..Segments,
         bus' = bus \/ \E m : Plain(m) /\ Post(<<m>>)
  PROVE  IInv'
<1>1. /\ UNCHANGED <<m_PlayerState, m_PlayerPendingState, m_StallOnPause, status, m_fRate, pipe,
                     flushing, pc, then, msg>>
  BY DEF bufUnchanged, player, rateVars
<1>2. bus' \in Seq(Messages) /\ Keeps(Line, Line')
  <2>1. CASE bus' = bus
    BY <1>1, <2>1, LineSame, LineType, KeepsSelf DEF IInv, TypeInv
  <2>2. CASE \E m : Plain(m) /\ Post(<<m>>)
    BY <1>1, <2>2, PostsPlain DEF IInv
  <2> QED BY <2>1, <2>2
<1>3. TypeInv'
  BY <1>1, <1>2 DEF IInv, TypeInv, PS!Statuses
<1>4. UserInv'
  BY <1>1 DEF IInv, UserInv
<1>5. OnTime /\ pipe = Torn => flushing /\ bus = <<>> /\ pc["bus"] \in {"idle", "error"}
  BY DEF IInv, Core, PipeInv
<1>6. OnTime /\ pipe = Torn => bus' = <<>> /\ pc'["bus"] \in {"idle", "error"}
  BY <1>1, <1>5 DEF Post
<1>7. OnTime /\ status = "UNKNOWN" => pc'["bus"] \in {"idle", "update", "error"}
  BY <1>1 DEF IInv, Core, EarlyInv
<1>8. (Requested => Requested') /\ (AboutToPause => AboutToPause')
  BY <1>1 DEF Requested, AboutToPause
<1>9. Core'
  BY <1>1, <1>2, <1>6, <1>7, <1>8, CoreKept DEF IInv
<1> QED BY <1>3, <1>4, <1>9 DEF IInv

\* The user's thread moves.
LEMMA UserMoves ==
  ASSUME IInv, UNCHANGED <<m_PlayerState, m_PlayerPendingState, m_StallOnPause, status, pipeVars,
                           level, toCome, msg, races>>,
         NEW l \in UserLabels, pc' = [pc EXCEPT !["user"] = l],
         then' \in {"idle", "seek", "rate0set"}, m_fRate' \in {0, 1}, UserInv',
         m_PlayerState \in Still \union {"Ready"} /\ AboutToPause => AboutToPause'
  PROVE  IInv'
<1>1. UNCHANGED <<pipe, bus, flushing>> /\ pc'["bus"] = pc["bus"] /\ pc'["user"] = l
      /\ pc' \in [{"user", "bus"} -> UserLabels \union BusLabels]
  BY DEF pipeVars, IInv, TypeInv
<1>2. Keeps(Line, Line')
  BY <1>1, LineSame, LineType, KeepsSelf DEF IInv
<1>3. TypeInv'
  BY <1>1 DEF IInv, TypeInv, PS!Statuses
<1>4. OnTime /\ pipe = Torn => bus = <<>> /\ pc["bus"] \in {"idle", "error"}
  BY DEF IInv, Core, PipeInv
<1>5. OnTime /\ status = "UNKNOWN" => pc["bus"] \in {"idle", "update", "error"}
  BY DEF IInv, Core, EarlyInv
<1>6. Requested => Requested'
  BY DEF Requested
<1>7. Core'
  BY <1>1, <1>2, <1>4, <1>5, <1>6, CoreKept DEF IInv
<1> QED BY <1>3, <1>7 DEF IInv

\* The bus thread moves within a callback that is not UpdatePlayerState.
LEMMA BusMoves ==
  ASSUME IInv, UNCHANGED <<m_PlayerState, m_PlayerPendingState, status, m_fRate, pipeVars,
                           level, toCome, then, msg, races>>,
         m_StallOnPause => m_StallOnPause',
         NEW l \in BusLabels \ {"update", "error"}, pc' = [pc EXCEPT !["bus"] = l],
         pc["bus"] \notin {"idle", "update", "error"}
  PROVE  IInv'
<1>1. UNCHANGED <<pipe, bus, flushing>> /\ pc'["bus"] = l /\ pc'["user"] = pc["user"]
      /\ pc' \in [{"user", "bus"} -> UserLabels \union BusLabels]
  BY DEF pipeVars, IInv, TypeInv
<1>2. Keeps(Line, Line')
  BY <1>1, LineSame, LineType, KeepsSelf DEF IInv
<1>3. TypeInv'
  BY <1>1 DEF IInv, TypeInv, PS!Statuses
<1>4. UserInv'
  BY <1>1 DEF IInv, UserInv
<1>5. OnTime => pipe # Torn
  BY DEF IInv, Core, PipeInv
<1>6. OnTime => status # "UNKNOWN"
  BY DEF IInv, Core, EarlyInv
<1>7. (Requested => Requested') /\ (AboutToPause => AboutToPause')
  BY <1>1 DEF Requested, AboutToPause
<1>8. Core'
  BY <1>1, <1>2, <1>5, <1>6, <1>7, CoreKept DEF IInv
<1> QED BY <1>3, <1>4, <1>8 DEF IInv

\* The bus thread takes a message that is no completed change.
LEMMA BusTakes ==
  ASSUME IInv, pc["bus"] = "idle", bus # <<>>, Head(bus) \notin Voids, Taken,
         UNCHANGED <<m_PlayerState, m_PlayerPendingState, m_StallOnPause, status, m_fRate,
                     level, toCome, then, msg, races>>,
         NEW l \in BusLabels \ {"update", "error"}, pc' = [pc EXCEPT !["bus"] = l],
         l # "idle" => m_PlayerState # "Unknown"
  PROVE  IInv'
<1>1. /\ UNCHANGED <<pipe, flushing>> /\ pc'["bus"] = l /\ pc'["user"] = pc["user"]
      /\ pc' \in [{"user", "bus"} -> UserLabels \union BusLabels] /\ bus' = Tail(bus)
  BY DEF Taken, IInv, TypeInv
<1>2. bus \in Seq(Messages) /\ bus' \in Seq(Messages)
  BY <1>1, TailAt DEF IInv, TypeInv
<1>3. Line = bus /\ Line' = Tail(bus)
  BY <1>1, LineTaken DEF IInv
<1>4. Keeps(Line, Line')
  BY <1>2, <1>3, KeepsTail
<1>5. TypeInv'
  BY <1>1, <1>2 DEF IInv, TypeInv, PS!Statuses
<1>6. UserInv'
  BY <1>1 DEF IInv, UserInv
<1>7. OnTime => pipe # Torn
  BY DEF IInv, Core, PipeInv
<1>8. OnTime /\ status = "UNKNOWN" => m_PlayerState = "Unknown"
  BY <1>7 DEF IInv, Core, EarlyInv, PipeInv
<1>9. (Requested => Requested') /\ (AboutToPause => AboutToPause')
  BY <1>1 DEF Requested, AboutToPause
<1>10. Core'
  BY <1>1, <1>4, <1>7, <1>8, <1>9, CoreKept DEF IInv
<1> QED BY <1>5, <1>6, <1>10 DEF IInv

-----------------------------------------------------------------------------
(***************************************************************************)
(* The buffer.                                                             *)
(***************************************************************************)
LEMMA BufferSteps ==
  ASSUME IInv,
         NewSegment \/ FindFull \/ PostFull \/ ReadSegment \/ EndOfSegments \/ QueueUnderrun
         \/ ElementError
  PROVE  IInv'
<1>0. Slots \in Nat /\ Segments \in Nat /\ level \in 0..Slots /\ toCome \in 0..Segments
  BY PlayerAssumption DEF IInv, TypeInv
<1> DEFINE Posts(t) == Post(<<Message(t)>>)
<1>1. \A t \in PlainTypes \ {"EOS"} : Posts(t) => \E m : Plain(m) /\ Post(<<m>>)
  BY PlainMessages
<1> HIDE DEF Posts
<1>2. CASE NewSegment
  <2>1. bufUnchanged /\ races' = races /\ level' \in 0..Slots /\ toCome' \in 0..Segments
    BY <1>0, <1>2 DEF NewSegment, bounds
  <2>2. Posts("RESUME")
    BY <1>2 DEF NewSegment, Posts
  <2> QED BY <1>1, <2>1, <2>2, BufferKeeps DEF PlainTypes
<1>3. CASE FindFull
  <2>1. bufUnchanged /\ races' = races /\ level' \in 0..Slots /\ toCome' \in 0..Segments /\ bus' = bus
    BY <1>0, <1>3 DEF FindFull, bounds
  <2> QED BY <2>1, BufferKeeps
<1>4. CASE PostFull
  <2>1. bufUnchanged /\ races' = races /\ level' \in 0..Slots /\ toCome' \in 0..Segments
    BY <1>0, <1>4 DEF PostFull, bounds
  <2>2. Posts("FULL")
    BY <1>4 DEF PostFull, Posts
  <2> QED BY <1>1, <2>1, <2>2, BufferKeeps DEF PlainTypes
<1>5. CASE ReadSegment
  <2>1. bufUnchanged /\ races' = races /\ level' \in 0..Slots /\ toCome' \in 0..Segments
    BY <1>0, <1>5 DEF ReadSegment, bounds
  <2>2. Posts("NOT_FULL")
    BY <1>5 DEF ReadSegment, Posts
  <2> QED BY <1>1, <2>1, <2>2, BufferKeeps DEF PlainTypes
<1>6. CASE EndOfSegments
  <2>1. bufUnchanged /\ races' = races /\ level' \in 0..Slots /\ toCome' \in 0..Segments
    BY <1>0, <1>6 DEF EndOfSegments, bounds
  <2>2. Posts("HLS_EOS")
    BY <1>6 DEF EndOfSegments, Posts
  <2> QED BY <1>1, <2>1, <2>2, BufferKeeps DEF PlainTypes
<1>7. CASE QueueUnderrun
  <2>1. bufUnchanged /\ races' = races /\ level' \in 0..Slots /\ toCome' \in 0..Segments
    BY <1>0, <1>7 DEF QueueUnderrun, bufVars
  <2>2. Posts("STALL")
    BY <1>7 DEF QueueUnderrun, Posts
  <2> QED BY <1>1, <2>1, <2>2, BufferKeeps DEF PlainTypes
<1>8. CASE ElementError
  <2>1. bufUnchanged /\ races' = races /\ level' \in 0..Slots /\ toCome' \in 0..Segments
    BY <1>0, <1>8 DEF ElementError, bufVars
  <2>2. Posts("ERROR")
    BY <1>8 DEF ElementError, Posts
  <2> QED BY <1>1, <2>1, <2>2, BufferKeeps DEF PlainTypes
<1> QED BY <1>2, <1>3, <1>4, <1>5, <1>6, <1>7, <1>8

(***************************************************************************)
(* The calls of the user that do not touch the pipeline.                   *)
(***************************************************************************)
LEMMA CallKeeps ==
  ASSUME IInv, NEW op \in Ops, Call(op)
  PROVE  IInv'
<1>1. op \in UserLabels /\ op \notin {"seekPlay", "stopping", "internalPause", "pausing"}
  BY PlayerAssumption DEF UserLabels, Call
<1>2. /\ UNCHANGED <<m_PlayerState, m_PlayerPendingState, m_StallOnPause, status, m_fRate, pipeVars,
                     level, toCome, msg, races>>
      /\ pc' = [pc EXCEPT !["user"] = op] /\ then' = "idle" /\ status # "UNKNOWN" /\ pc["user"] = "idle"
  BY DEF Call, userVars, player, rateVars, bufVars, Goto
<1>3. pc'["user"] = op
  BY <1>2 DEF IInv, TypeInv
<1>4. UserInv'
  BY <1>1, <1>2, <1>3 DEF UserInv
<1>5. ~AboutToPause /\ m_fRate' \in {0, 1}
  BY <1>2 DEF AboutToPause, IInv, TypeInv
<1> QED BY <1>1, <1>2, <1>4, <1>5, UserMoves

LEMMA PlayKeeps ==
  ASSUME IInv, NEW t \in {"user", "bus"}, Play(t)
  PROVE  IInv'
<1>1. /\ UNCHANGED <<m_PlayerState, m_PlayerPendingState, m_StallOnPause, status, m_fRate, pipeVars,
                     level, toCome, msg, races, then>> /\ pc[t] = "play"
  BY DEF Play, player, rateVars, bufVars, bounds
<1>2. CASE t = "user"
  <2>1. PICK l \in {"playing", then} : pc' = [pc EXCEPT !["user"] = l]
    BY <1>2 DEF Play, Goto, Return
  <2>2. then \in {"idle", "seek", "rate0set"} /\ l \in UserLabels /\ pc'["user"] = l
    BY <2>1 DEF IInv, TypeInv, UserLabels
  <2>3. UserInv'
    BY <1>1, <1>2, <2>1, <2>2 DEF IInv, UserInv
  <2>4. ~AboutToPause /\ m_fRate' \in {0, 1}
    BY <1>1, <1>2 DEF AboutToPause, IInv, TypeInv
  <2> QED BY <1>1, <2>1, <2>2, <2>3, <2>4, UserMoves
<1>3. CASE t = "bus"
  <2>1. PICK l \in {"playing", "idle"} : pc' = [pc EXCEPT !["bus"] = l]
    BY <1>3 DEF Play, Goto, Return
  <2> QED BY <1>1, <1>3, <2>1, BusMoves DEF BusLabels
<1> QED BY <1>2, <1>3

LEMMA InternalPauseKeeps ==
  ASSUME IInv, NEW t \in {"user", "bus"}, InternalPause(t)
  PROVE  IInv'
<1>1. /\ UNCHANGED <<m_PlayerState, m_PlayerPendingState, m_StallOnPause, status, m_fRate, pipeVars,
                     level, toCome, msg, races, then>> /\ pc[t] = "internalPause"
  BY DEF InternalPause, player, rateVars, bufVars, bounds
<1>2. CASE t = "user"
  <2>1. PICK l \in {"pausing", then} : pc' = [pc EXCEPT !["user"] = l]
                                       /\ (l # "pausing" => m_PlayerState \in {"Finished", "Error"})
    BY <1>2 DEF InternalPause, ReadyToPause, Goto, Return
  <2>2. then \in {"idle", "seek", "rate0set"} /\ l \in UserLabels /\ pc'["user"] = l
    BY <2>1 DEF IInv, TypeInv, UserLabels
  <2>3. UserInv'
    BY <1>1, <1>2, <2>1, <2>2 DEF IInv, UserInv
  <2>4. m_fRate' \in {0, 1} /\ (m_PlayerState \in Still \union {"Ready"} /\ AboutToPause => AboutToPause')
    BY <1>1, <2>1, <2>2 DEF AboutToPause, IInv, TypeInv, Still
  <2> QED BY <1>1, <2>1, <2>2, <2>3, <2>4, UserMoves
<1>3. CASE t = "bus"
  <2>1. PICK l \in {"pausing", "idle"} : pc' = [pc EXCEPT !["bus"] = l]
    BY <1>3 DEF InternalPause, Goto, Return
  <2> QED BY <1>1, <1>3, <2>1, BusMoves DEF BusLabels
<1> QED BY <1>2, <1>3

\* SetPlaying and SetPaused at rate 0 leave the pipeline alone.
LEMMA RateZeroKeeps ==
  ASSUME IInv, NEW t \in {"user", "bus"}, m_fRate = 0, SetPlaying(t) \/ SetPaused(t)
  PROVE  IInv'
<1>1. /\ UNCHANGED <<m_PlayerState, m_PlayerPendingState, m_StallOnPause, status, m_fRate, pipeVars,
                     level, toCome, msg, races, then>> /\ pc[t] \in {"playing", "pausing"}
      /\ Return(t)
  BY DEF SetPlaying, SetPaused, player, bufVars, bounds
<1>2. CASE t = "user"
  <2>1. pc' = [pc EXCEPT !["user"] = then]
    BY <1>1, <1>2 DEF Goto, Return
  <2>2. then \in {"idle", "seek", "rate0set"} /\ then \in UserLabels /\ pc'["user"] = then
    BY <2>1 DEF IInv, TypeInv, UserLabels
  <2>3. UserInv'
    BY <1>1, <1>2, <2>1, <2>2 DEF IInv, UserInv
  <2>4. ~AboutToPause /\ m_fRate' \in {0, 1}
    BY <1>1 DEF AboutToPause
  <2> QED BY <1>1, <2>1, <2>2, <2>3, <2>4, UserMoves
<1>3. CASE t = "bus"
  <2>1. pc' = [pc EXCEPT !["bus"] = "idle"]
    BY <1>1, <1>3 DEF Goto, Return
  <2> QED BY <1>1, <1>3, <2>1, BusMoves DEF BusLabels
<1> QED BY <1>2, <1>3

LEMMA UserKeeps ==
  ASSUME IInv,
         Stop \/ Pause \/ Seek \/ SeekResume \/ SetRateZero \/ SetRateZeroDone \/ SetRateDone
  PROVE  IInv'
<1>1. UNCHANGED <<m_PlayerState, m_PlayerPendingState, m_StallOnPause, status, pipeVars,
                  level, toCome, msg, races>>
  BY DEF Stop, Pause, Seek, SeekResume, SetRateZero, SetRateZeroDone, SetRateDone,
         userVars, player, bufVars, bounds
<1>2. then \in {"idle", "seek", "rate0set"} /\ m_fRate \in {0, 1} /\ pc["user"] \in UserLabels
  BY DEF IInv, TypeInv
<1>3. \E l \in UserLabels : pc' = [pc EXCEPT !["user"] = l]
        /\ then' \in {"idle", "rate0set", then} /\ m_fRate' \in {0, 1}
        /\ pc["user"] \notin {"idle", "internalPause", "pausing"}
        /\ (l = "seekPlay" => m_PlayerPendingState # "Stopped")
        /\ (l = "stopping" => m_fRate' # 0)
        /\ (l \in {"internalPause", "pausing"} => then' = "idle")
  <2>1. CASE Stop
    BY <1>2, <2>1 DEF Stop, Goto, UserLabels
  <2>3. CASE Pause
    BY <1>2, <2>3 DEF Pause, Goto, UserLabels, rateVars
  <2>4. CASE Seek
    BY <1>2, <2>4 DEF Seek, Goto, UserLabels, rateVars
  <2>5. CASE SeekResume
    BY <1>2, <2>5 DEF SeekResume, Goto, UserLabels, userVars, rateVars
  <2>6. CASE SetRateZero
    BY <1>2, <2>6 DEF SetRateZero, Goto, UserLabels
  <2>7. CASE SetRateZeroDone
    BY <1>2, <2>7 DEF SetRateZeroDone, Goto, UserLabels
  <2>8. CASE SetRateDone
    BY <1>2, <2>8 DEF SetRateDone, Goto, UserLabels, rateVars
  <2> QED BY <2>1, <2>3, <2>4, <2>5, <2>6, <2>7, <2>8
<1>4. PICK l \in UserLabels : pc' = [pc EXCEPT !["user"] = l]
        /\ then' \in {"idle", "rate0set", then} /\ m_fRate' \in {0, 1}
        /\ pc["user"] \notin {"idle", "internalPause", "pausing"}
        /\ (l = "seekPlay" => m_PlayerPendingState # "Stopped")
        /\ (l = "stopping" => m_fRate' # 0)
        /\ (l \in {"internalPause", "pausing"} => then' = "idle")
  BY <1>3
<1>5. pc'["user"] = l
  BY <1>4 DEF IInv, TypeInv
<1>6. UserInv'
  BY <1>1, <1>4, <1>5 DEF IInv, UserInv
<1>7. ~AboutToPause
  BY <1>4 DEF AboutToPause
<1> QED BY <1>1, <1>2, <1>4, <1>6, <1>7, UserMoves

-----------------------------------------------------------------------------
(***************************************************************************)
(* Changes of the pipeline.                                                *)
(***************************************************************************)
LEMMA MessagesOK ==
  ASSUME NEW p, PipeOK(p)
  PROVE  /\ \A d : \A s \in {PAUSED, PLAYING} : SetStateMessages(p, s, d) \in Seq(Messages)
         /\ LostStateMessages(p) \in Seq(Messages)
         /\ p.sinks = "waiting" => AsyncDoneMessages(p) \in Seq(Messages)
         /\ p.task = "continue" => ContinueMessages(p) \in Seq(Messages)
<1> USE DEF VOID, NULL, READY, PAUSED, PLAYING
<1>0. \A a, b, c \in 0..4 : <<StateChanged(a, b, c)>> \in Seq(Messages)
  BY Changed
<1>1. ASSUME NEW s \in {PAUSED, PLAYING}, NEW d PROVE SetStateMessages(p, s, d) \in Seq(Messages)
  <2>1. GetNext(Start(p, s), s) \in 0..4
    BY TypedFields, GetNextRange DEF Start
  <2>2. Step(p, s).state = p.state /\ Step(p, s).next = GetNext(Start(p, s), s)
    BY Fields DEF Step
  <2>3. p.state \in 0..4
    BY TypedFields
  <2>4. <<StateChanged(p.state, GetNext(Start(p, s), s), 0)>> \in Seq(Messages)
    BY <1>0, <2>1, <2>3
  <2>5. CommitMessages(Step(p, s)) \in Seq(Messages)
    BY <2>2, <2>4 DEF CommitMessages
  <2>6. <<StateChanged(1, 2, s)>> \in Seq(Messages)
    BY <1>0
  <2> QED BY <2>5, <2>6 DEF SetStateMessages
<1>2. LostStateMessages(p) \in Seq(Messages)
  <2>1. Min2(p.state, PAUSED) \in 0..4
    BY TypedFields DEF Min2
  <2>2. <<StateChanged(Min2(p.state, PAUSED), Min2(p.state, PAUSED), Min2(p.state, PAUSED))>> \in Seq(Messages)
    BY <1>0, <2>1
  <2> QED BY <2>2 DEF LostStateMessages
<1>3. ASSUME p.sinks = "waiting" PROVE AsyncDoneMessages(p) \in Seq(Messages)
  <2>1. PipeOK(AsyncDone(p))
    BY <1>3, AsyncDoneOK
  <2>2. AsyncDone(p).pending \in 0..4
    BY <2>1, TypedFields
  <2>3. p.state \in 0..4 /\ p.next \in 0..4
    BY TypedFields
  <2>4. <<StateChanged(p.state, p.next, AsyncDone(p).pending)>> \in Seq(Messages)
    BY <1>0, <2>2, <2>3
  <2> QED BY <2>4 DEF AsyncDoneMessages
<1>4. ASSUME p.task = "continue" PROVE ContinueMessages(p) \in Seq(Messages)
  <2>1. p.state \in 0..4 /\ GetNext(p.state, p.pending) \in 0..4
    BY <1>4, TypedFields, GetNextRange
  <2>2. <<StateChanged(p.state, GetNext(p.state, p.pending), 0)>> \in Seq(Messages)
    BY <1>0, <2>1
  <2> QED BY <2>2 DEF ContinueMessages
<1> QED BY <1>1, <1>2, <1>3, <1>4

\* What a call of gst_element_set_state does.
LEMMA SetPipelineFacts ==
  ASSUME TypeInv, NEW s \in {PAUSED, PLAYING}, NEW race, SetPipeline(s, race)
  PROVE  /\ PipeOK(pipe') /\ bus' \in Seq(Messages) /\ flushing' = FALSE
         /\ races \subseteq races' /\ race \subseteq races' /\ (OnTime' => OnTime /\ pipe.state # NULL)
         /\ \E d, ms : /\ pipe' = SetState(pipe, s, d) /\ ms = SetStateMessages(pipe, s, d)
                       /\ ms \in Seq(Messages) /\ bus' = bus \o ms
<1>1. PICK d \in BOOLEAN : pipe' = SetState(pipe, s, d) /\ bus' = bus \o SetStateMessages(pipe, s, d)
  BY DEF SetPipeline
<1>2. PipeOK(pipe') /\ SetStateMessages(pipe, s, d) \in Seq(Messages)
  BY <1>1, SetStateOK, MessagesOK DEF TypeInv
<1>3. bus' \in Seq(Messages)
  BY <1>1, <1>2 DEF TypeInv
<1>4. /\ flushing' = FALSE /\ races \subseteq races' /\ race \subseteq races'
      /\ OnTime' => OnTime /\ pipe.state # NULL
  BY DEF SetPipeline, If, OnTime
<1> QED BY <1>1, <1>2, <1>3, <1>4

\* A request to play, seen from the states it can find.
LEMMA PlayFacts ==
  ASSUME TypeInv, NEW race, SetPipeline(PLAYING, race), OnTime', pipe \in Shapes \ {Fresh}
  PROVE  /\ pipe # Torn /\ pipe' \in Shapes /\ pipe' \notin {Torn, Fresh, Paused, Seeking}
         /\ \/ pipe = Paused /\ pipe' = Playing /\ bus' = bus \o <<StateChanged(PAUSED, PLAYING, VOID)>>
            \/ pipe # Paused /\ bus' = bus /\ (pipe' = Playing => pipe = Playing)
<1>1. PICK d, ms : /\ pipe' = SetState(pipe, PLAYING, d) /\ ms = SetStateMessages(pipe, PLAYING, d)
                   /\ bus' = bus \o ms
  BY SetPipelineFacts
<1>2. pipe # Torn
  BY SetPipelineFacts, ShapeFacts
<1>3. pipe \in Shapes \ {Torn, Fresh}
  BY <1>2
<1>4. CASE pipe = Paused
  <2>1. pipe' = Playing /\ ms = <<StateChanged(PAUSED, PLAYING, VOID)>>
    BY <1>1, <1>3, <1>4, PlayShapes
  <2> QED BY <1>1, <1>2, <1>4, <2>1, ShapeFacts DEF Shapes
<1>5. CASE pipe # Paused
  <2>1. ms = <<>> /\ bus' = bus
    <3>1. ms = <<>>
      BY <1>1, <1>3, <1>5, PlayShapes
    <3> QED BY <1>1, <3>1 DEF TypeInv
  <2>2. pipe' = IF pipe \in {Seeking, Seeking4} THEN Replay ELSE IF pipe = Pausing THEN Pausing4 ELSE pipe
    BY <1>1, <1>3, <1>5, PlayShapes
  <2>3. Replay \in ToPlay /\ Seeking4 \in ToPlay
    BY DEF ToPlay
  <2>4. pipe' \in Shapes /\ pipe' \notin {Torn, Fresh, Paused, Seeking} /\ (pipe' = Playing => pipe = Playing)
    BY <1>3, <1>5, <2>2, <2>3, ShapeFacts DEF Shapes
  <2> QED BY <1>2, <1>5, <2>1, <2>4
<1> QED BY <1>4, <1>5

\* The line with a change to PLAYING at its end.
LEMMA PlayPosted ==
  ASSUME NEW q \in Seq(Messages), NEW r, r = q \o <<StateChanged(PAUSED, PLAYING, VOID)>>
  PROVE  /\ r \in Seq(Messages) /\ Some(r, Voids) /\ Answered(r, Pauses, Plays)
         /\ Some(r, Firsts) <=> Some(q, Firsts)
         /\ Some(r, Strange) <=> Some(q, Strange)
         /\ Some(r, Ends) <=> Some(q, Ends)
         /\ Some(r, Plays)
         /\ AnsweredBefore(q, Pauses, Plays, Ends) => AnsweredBefore(r, Pauses, Plays, Ends)
         /\ Preceded(q, Plays, Ends) => Preceded(r, Plays, Ends)
<1> DEFINE m == StateChanged(PAUSED, PLAYING, VOID)
<1>1. m \in Messages /\ m \in Voids /\ m \in Plays /\ m \notin Ends
  BY Changed DEF PAUSED, PLAYING, VOID
<1>2. m \notin Pauses /\ m \notin Firsts /\ m \notin Strange
  BY <1>1, Subsets
<1>0. r = q \o <<m>>
  OBVIOUS
<1> HIDE DEF m
<1>3. /\ r \in Seq(Messages)
      /\ \A A, B, E :
           /\ Some(r, A) <=> Some(q, A) \/ m \in A
           /\ m \in B /\ m \notin A => Answered(r, A, B)
           /\ AnsweredBefore(q, A, B, E) /\ (m \in E => Answered(q, A, B)) => AnsweredBefore(r, A, B, E)
           /\ Preceded(q, B, E) /\ (m \in E => Some(q, B)) => Preceded(r, B, E)
  BY <1>0, <1>1, AppendSome
<1> QED BY <1>1, <1>2, <1>3

\* A pause of the pipeline at the end of the line.
LEMMA PausePosted ==
  ASSUME NEW q \in Seq(Messages), NEW s \in {READY, PAUSED, PLAYING}
  PROVE  LET r == q \o <<StateChanged(s, PAUSED, VOID)>> IN
         /\ r \in Seq(Messages) /\ Some(r, Voids)
         /\ Some(r, Plays) <=> Some(q, Plays)
         /\ Some(r, Strange) <=> Some(q, Strange)
         /\ Some(r, Ends) <=> Some(q, Ends)
         /\ Some(r, Firsts) <=> Some(q, Firsts) \/ s = READY
         /\ Some(r, Leaves) <=> Some(q, Leaves) \/ s = PLAYING
         /\ ~Some(q, Voids) => AtMostOne(r, Voids)
         /\ Answered(q, Plays, Leaves) \/ s = PLAYING => Answered(r, Plays, Leaves)
         /\ AnsweredBefore(q, Pauses, Plays, Ends) => AnsweredBefore(r, Pauses, Plays, Ends)
         /\ Preceded(q, Plays, Ends) => Preceded(r, Plays, Ends)
<1> DEFINE m == StateChanged(s, PAUSED, VOID)
           r == q \o <<m>>
<1>1. /\ m \in Messages /\ m \in Voids /\ m \in Pauses /\ m \notin Ends
      /\ (m \in Leaves <=> s = PLAYING) /\ (m \in Firsts <=> s = READY)
  BY Changed DEF READY, PAUSED, PLAYING, VOID
<1>2. m \notin Plays /\ m \notin Strange
  BY <1>1, Subsets
<1> HIDE DEF m
<1>3. /\ r \in Seq(Messages)
      /\ \A A, B, E :
           /\ Some(r, A) <=> Some(q, A) \/ m \in A
           /\ AtMostOne(q, A) /\ (m \in A => ~Some(q, A)) => AtMostOne(r, A)
           /\ Answered(q, A, B) /\ m \notin A => Answered(r, A, B)
           /\ m \in B /\ m \notin A => Answered(r, A, B)
           /\ AnsweredBefore(q, A, B, E) /\ (m \in E => Answered(q, A, B)) => AnsweredBefore(r, A, B, E)
           /\ Preceded(q, B, E) /\ (m \in E => Some(q, B)) => Preceded(r, B, E)
  BY <1>1, AppendSome
<1> HIDE DEF r
<1>4. ~Some(q, Voids) => AtMostOne(q, Voids)
  BY DEF Some, AtMostOne
<1> QED BY <1>1, <1>2, <1>3, <1>4 DEF r, m

\* A step that asks the pipeline to play.
LEMMA PlayingCore ==
  ASSUME IInv, NEW race, SetPipeline(PLAYING, race),
         UNCHANGED <<m_PlayerState, m_PlayerPendingState, m_StallOnPause, status, msg>>,
         pc'["bus"] = "update" <=> pc["bus"] = "update",
         pc'["bus"] = "error" <=> pc["bus"] = "error",
         OnTime => status # "UNKNOWN",
         NoPlay' => ~(m_PlayerPendingState = "Stopped" /\ m_PlayerState \in Still),
         m_PlayerState \in Still \union {"Ready"} /\ AboutToPause => AboutToPause'
  PROVE  Core'
<1> SUFFICES ASSUME OnTime' PROVE Core'
  BY DEF Core, PipeInv, EarlyInv, StopInv, SettleInv, PlaysInv, StatusInv, Clean, NoPlay, NoSeek
<1>1. races \subseteq races' /\ OnTime /\ flushing' = FALSE /\ bus' \in Seq(Messages)
  BY SetPipelineFacts DEF IInv
<1>2. pipe \in Shapes \ {Fresh}
  BY <1>1 DEF IInv, Core, PipeInv, EarlyInv
<1>3. /\ pipe # Torn /\ pipe' \in Shapes /\ pipe' \notin {Torn, Fresh, Paused, Seeking}
      /\ \/ pipe = Paused /\ pipe' = Playing /\ bus' = bus \o <<StateChanged(PAUSED, PLAYING, VOID)>>
         \/ pipe # Paused /\ bus' = bus /\ (pipe' = Playing => pipe = Playing)
  BY <1>2, PlayFacts DEF IInv
<1>4. Line \in Seq(Messages)
  BY LineType DEF IInv
<1>5. \/ pipe' = Playing /\ Line' = Line \o <<StateChanged(PAUSED, PLAYING, VOID)>>
      \/ Line' = Line /\ (pipe' = Playing => pipe = Playing)
  <2>1. <<StateChanged(PAUSED, PLAYING, VOID)>> \in Seq(Messages)
    BY Changed DEF PAUSED, PLAYING, VOID
  <2> QED BY <1>3, <2>1, LinePosted, LineSame DEF IInv
<1>6. /\ Some(Line', Firsts) <=> Some(Line, Firsts)
      /\ Some(Line', Strange) <=> Some(Line, Strange)
      /\ pipe' = Playing /\ pipe # Playing => Some(Line', Voids) /\ Answered(Line', Pauses, Plays)
      /\ pipe = Playing => Line' = Line \/ (Some(Line', Voids) /\ Answered(Line', Pauses, Plays))
      /\ AnsweredBefore(Line, Pauses, Plays, Ends) => AnsweredBefore(Line', Pauses, Plays, Ends)
      /\ Preceded(Line, Plays, Ends) => Preceded(Line', Plays, Ends)
  BY <1>4, <1>5, PlayPosted
<1>7. PipeInv'
  BY <1>1, <1>3, <1>6 DEF IInv, Core, PipeInv
<1>8. EarlyInv'
  BY <1>1, <1>3, <1>6 DEF IInv, Core, EarlyInv
<1>9. StopInv' /\ SettleInv'
  BY <1>3 DEF StopInv, SettleInv
<1>10. PlaysInv'
  BY <1>1, <1>6 DEF IInv, Core, PlaysInv, NoPlay
<1>11. StatusInv'
  BY <1>1, <1>6 DEF IInv, Core, StatusInv, Clean, NoPlay, OnTime
<1> QED BY <1>7, <1>8, <1>9, <1>10, <1>11 DEF Core

\* Where Return takes the two threads.
LEMMA Returns ==
  ASSUME IInv, NEW t \in {"user", "bus"}, Return(t), pc[t] \in {"playing", "pausing"}
  PROVE  /\ pc' \in [{"user", "bus"} -> UserLabels \union BusLabels]
         /\ pc'["user"] \in UserLabels /\ pc'["bus"] \in BusLabels
         /\ t = "user" => pc'["bus"] = pc["bus"] /\ pc'["user"] = then
         /\ t = "bus" => pc'["bus"] = "idle" /\ pc["bus"] \in {"playing", "pausing"} /\ pc'["user"] = pc["user"]
         /\ then \in {"idle", "seek", "rate0set"}
         /\ OnTime => status # "UNKNOWN"
         /\ pc'["bus"] = "update" <=> pc["bus"] = "update"
         /\ pc'["bus"] = "error" <=> pc["bus"] = "error"
<1>1. pc' = [pc EXCEPT ![t] = IF t = "bus" THEN "idle" ELSE then]
  BY DEF Return, Goto
<1>2. /\ pc \in [{"user", "bus"} -> UserLabels \union BusLabels]
      /\ pc["user"] \in UserLabels /\ pc["bus"] \in BusLabels /\ then \in {"idle", "seek", "rate0set"}
  BY DEF IInv, TypeInv
<1>3. then \in UserLabels /\ "idle" \in BusLabels
  BY <1>2 DEF UserLabels, BusLabels
<1>4. OnTime => status # "UNKNOWN"
  BY DEF IInv, UserInv, Core, EarlyInv
<1> QED BY <1>1, <1>2, <1>3, <1>4

LEMMA ReturnUser ==
  ASSUME IInv, NEW t \in {"user", "bus"}, Return(t), pc[t] \in {"playing", "pausing"},
         UNCHANGED <<m_PlayerPendingState, status, m_fRate, then>>
  PROVE  UserInv'
BY Returns DEF IInv, UserInv

LEMMA SetPlayingKeeps ==
  ASSUME IInv, NEW t \in {"user", "bus"}, SetPlaying(t), m_fRate # 0
  PROVE  IInv'
<1>1. /\ pc[t] = "playing" /\ SetPipeline(PLAYING, PlayRace) /\ Return(t)
      /\ UNCHANGED <<m_PlayerState, m_PlayerPendingState, m_StallOnPause, status, m_fRate, level, toCome,
                     then, msg>>
  BY DEF SetPlaying, player, bufVars
<1>2. PipeOK(pipe') /\ bus' \in Seq(Messages) /\ PlayRace \subseteq races'
  BY <1>1, SetPipelineFacts DEF IInv
<1>3. TypeInv'
  BY <1>1, <1>2, Returns DEF IInv, TypeInv, PS!Statuses
<1>4. UserInv'
  BY <1>1, ReturnUser
<1>5. NoPlay' => ~(m_PlayerPendingState = "Stopped" /\ m_PlayerState \in Still)
  BY <1>2 DEF NoPlay, PlayRace, If, Still
<1>6. AboutToPause => AboutToPause'
  BY <1>1, Returns DEF AboutToPause
<1>7. Core'
  BY <1>1, <1>5, <1>6, Returns, PlayingCore
<1> QED BY <1>3, <1>4, <1>7 DEF IInv

LEMMA SeekPlayKeeps ==
  ASSUME IInv, SeekPlay
  PROVE  IInv'
<1>1. /\ pc["user"] = "seekPlay" /\ SetPipeline(PLAYING, {}) /\ pc' = [pc EXCEPT !["user"] = "idle"]
      /\ UNCHANGED <<m_PlayerState, m_PlayerPendingState, m_StallOnPause, status, m_fRate, level, toCome,
                     then, msg>>
  BY DEF SeekPlay, player, bufVars, Goto, rateVars
<1>2. PipeOK(pipe') /\ bus' \in Seq(Messages)
  BY <1>1, SetPipelineFacts DEF IInv
<1>3. /\ pc' \in [{"user", "bus"} -> UserLabels \union BusLabels] /\ pc'["user"] = "idle"
      /\ pc'["bus"] = pc["bus"] /\ "idle" \in UserLabels
  BY <1>1 DEF IInv, TypeInv, UserLabels
<1>4. TypeInv'
  BY <1>1, <1>2, <1>3 DEF IInv, TypeInv, PS!Statuses
<1>5. UserInv'
  BY <1>1, <1>3 DEF IInv, UserInv
<1>6. ~AboutToPause /\ status # "UNKNOWN" /\ m_PlayerPendingState # "Stopped"
  BY <1>1 DEF AboutToPause, IInv, UserInv
<1>7. Core'
  BY <1>1, <1>3, <1>6, PlayingCore
<1> QED BY <1>4, <1>5, <1>7 DEF IInv

\* A request to pause, seen from the states it can find.
LEMMA PauseFacts ==
  ASSUME TypeInv, NEW race, SetPipeline(PAUSED, race), OnTime', pipe \in Shapes \ {Fresh}
  PROVE  /\ pipe # Torn
         /\ \/ pipe \in {Paused, Seeking} /\ pipe' = pipe /\ bus' = bus
            \/ pipe' = Pausing /\ bus' = bus
            \/ pipe \in ToPlay /\ pipe' = Seeking /\ bus' = bus
            \/ pipe \in ToPlay /\ pipe' = Paused /\ bus' = bus \o <<StateChanged(PAUSED, PAUSED, VOID)>>
            \/ pipe = Playing /\ pipe' = Paused /\ bus' = bus \o <<StateChanged(PLAYING, PAUSED, VOID)>>
<1>1. PICK d, ms : /\ pipe' = SetState(pipe, PAUSED, d) /\ ms = SetStateMessages(pipe, PAUSED, d)
                   /\ bus' = bus \o ms
  BY SetPipelineFacts
<1>2. pipe # Torn
  BY SetPipelineFacts, ShapeFacts
<1>3. ms = <<>> => bus' = bus
  BY <1>1 DEF TypeInv
<1>4. CASE pipe \in {Paused, Seeking}
  BY <1>1, <1>2, <1>3, <1>4, PauseRests
<1>5. CASE pipe \in {Pausing, Pausing4}
  BY <1>1, <1>2, <1>3, <1>5, PausePausing
<1>6. CASE pipe = Playing
  BY <1>1, <1>2, <1>3, <1>6, PausePlaying
<1>7. CASE pipe \in ToPlay
  BY <1>1, <1>2, <1>3, <1>7, PauseGoing
<1> QED BY <1>2, <1>4, <1>5, <1>6, <1>7 DEF Shapes

\* The changes that PauseRace and StopRace look at are those of the line.
LEMMA UnhandledVoids ==
  ASSUME TypeInv
  PROVE  /\ Unhandled # {} <=> Some(Line, Voids)
         /\ Some(Line, Plays) => \E m \in Unhandled : m.new = PLAYING
<1>1. bus \in Seq(Messages) /\ Line \in Seq(Messages)
  BY LineType DEF TypeInv
<1>2. \A m \in Messages : m.type = "STATE_CHANGED" <=> m \in Changes
  BY DEF Messages, Changes, PlainTypes
<1>3. \A m \in Messages : m.type = "STATE_CHANGED" /\ m.pending = VOID <=> m \in Voids
  BY <1>2 DEF Voids
<1>4. {bus[i] : i \in DOMAIN bus} = {bus[i] : i \in 1 .. Len(bus)} /\ \A i \in 1 .. Len(bus) : bus[i] \in Messages
  BY <1>1
<1>5. \A m : m \in Unhandled <=> m \in Voids /\ (m = msg \/ \E i \in 1 .. Len(bus) : m = bus[i])
  <2>1. CASE pc["bus"] = "update"
    <3>1. msg \in Messages /\ msg \in Voids
      BY <2>1, Subsets DEF TypeInv
    <3> QED BY <1>3, <1>4, <3>1 DEF Unhandled
  <2>2. CASE pc["bus"] # "update"
    <3>1. msg.type = "none"
      BY <2>2 DEF TypeInv, Message
    <3>2. msg \notin Voids
      BY <3>1 DEF Voids, Changes
    <3> QED BY <1>3, <1>4, <3>1, <3>2 DEF Unhandled
  <2> QED BY <2>1, <2>2
<1>6. \A A : A \subseteq Voids => (Some(Line, A) <=> \E m \in Unhandled : m \in A)
  <2> SUFFICES ASSUME NEW A, A \subseteq Voids PROVE Some(Line, A) <=> \E m \in Unhandled : m \in A
    OBVIOUS
  <2>1. CASE pc["bus"] = "update"
    <3>1. Some(Line, A) <=> msg \in A \/ Some(bus, A)
      <4>1. Line # <<>> /\ Head(Line) = msg /\ Tail(Line) = bus
        BY <2>1, LineType
      <4>2. Some(Line, A) <=> Head(Line) \in A \/ Some(Tail(Line), A)
        BY <1>1, <4>1, TailSome
      <4> QED BY <4>1, <4>2
    <3> QED BY <1>5, <3>1 DEF Some
  <2>2. CASE pc["bus"] # "update"
    <3>1. msg.type = "none"
      BY <2>2 DEF TypeInv, Message
    <3>2. msg \notin Voids
      BY <3>1 DEF Voids, Changes
    <3>3. Line = bus
      BY <2>2 DEF Line
    <3> QED BY <1>5, <3>2, <3>3 DEF Some
  <2> QED BY <2>1, <2>2
<1>7. Plays \subseteq Voids /\ \A m \in Plays : m.new = PLAYING
  BY Subsets DEF Plays
<1>8. Some(Line, Plays) <=> \E m \in Unhandled : m \in Plays
  BY <1>6, <1>7
<1>9. Some(Line, Voids) <=> \E m \in Unhandled : m \in Voids
  BY <1>6
<1> QED BY <1>5, <1>7, <1>8, <1>9

\* A step that asks the pipeline to pause.
LEMMA PausingCore ==
  ASSUME IInv, NEW t, SetPipeline(PAUSED, PauseRace(t)),
         UNCHANGED <<m_PlayerState, m_PlayerPendingState, m_StallOnPause, status, msg>>,
         pc'["bus"] = "update" <=> pc["bus"] = "update",
         pc'["bus"] = "error" <=> pc["bus"] = "error",
         OnTime => status # "UNKNOWN"
  PROVE  Core'
<1> SUFFICES ASSUME OnTime' PROVE Core'
  BY DEF Core, PipeInv, EarlyInv, StopInv, SettleInv, PlaysInv, StatusInv, Clean, NoPlay, NoSeek
<1>0. PauseRace(t) \subseteq races' /\ races \subseteq races'
  BY SetPipelineFacts DEF IInv
<1>1. OnTime /\ flushing' = FALSE /\ status # "UNKNOWN"
  BY SetPipelineFacts DEF IInv
<1>2. pipe \in Shapes \ {Fresh}
  BY <1>1 DEF IInv, Core, PipeInv, EarlyInv
<1>3. /\ pipe # Torn
      /\ \/ pipe \in {Paused, Seeking} /\ pipe' = pipe /\ bus' = bus
         \/ pipe' = Pausing /\ bus' = bus
         \/ pipe \in ToPlay /\ pipe' = Seeking /\ bus' = bus
         \/ pipe \in ToPlay /\ pipe' = Paused /\ bus' = bus \o <<StateChanged(PAUSED, PAUSED, VOID)>>
         \/ pipe = Playing /\ pipe' = Paused /\ bus' = bus \o <<StateChanged(PLAYING, PAUSED, VOID)>>
  BY <1>2, PauseFacts DEF IInv
<1>4. Line \in Seq(Messages) /\ \A s \in {PAUSED, PLAYING} : <<StateChanged(s, PAUSED, VOID)>> \in Seq(Messages)
  BY LineType, Changed DEF IInv, PAUSED, PLAYING, VOID
<1>5. /\ bus' = bus => Line' = Line
      /\ \A s \in {PAUSED, PLAYING} : bus' = bus \o <<StateChanged(s, PAUSED, VOID)>>
                                        => Line' = Line \o <<StateChanged(s, PAUSED, VOID)>>
  BY <1>4, LinePosted, LineSame DEF IInv
\* a pause during a seek
<1>6. NoSeek' /\ pipe \in ToPlay => ~Some(Line, Voids) /\ Requested
  <2>1. pipe \in ToPlay => pipe.state = PAUSED /\ pipe.target = PLAYING
    BY <1>2, ShapeFacts
  <2>2. m_PlayerPendingState \in {"Unknown", "Paused", "Stopped"}
    BY DEF IInv, TypeInv
  <2> QED BY <1>0, <2>1, <2>2, UnhandledVoids DEF NoSeek, PauseRace, If, IInv, Requested
<1>7. ~Some(Line, Voids) => ~Some(Line, Plays) /\ Answered(Line, Plays, Leaves)
  <2>1. ~Some(Line, Voids) => ~Some(Line, Plays)
    BY Subsets DEF Some
  <2> QED BY <2>1, NoneAnswered
<1>8. Requested <=> Requested'
  BY DEF Requested
<1>13. /\ Some(Line', Plays) <=> Some(Line, Plays)
       /\ AnsweredBefore(Line, Pauses, Plays, Ends) => AnsweredBefore(Line', Pauses, Plays, Ends)
       /\ Preceded(Line, Plays, Ends) => Preceded(Line', Plays, Ends)
  <2>1. CASE bus' = bus
    BY <1>5, <2>1
  <2>2. CASE \E s \in {PAUSED, PLAYING} : bus' = bus \o <<StateChanged(s, PAUSED, VOID)>>
    <3>1. PICK s \in {PAUSED, PLAYING} : Line' = Line \o <<StateChanged(s, PAUSED, VOID)>>
      BY <1>5, <2>2
    <3> QED BY <1>4, <3>1, PausePosted
  <2> QED BY <1>3, <2>1, <2>2 DEF PAUSED, PLAYING
<1>14. pipe' # Playing /\ pipe'.target # PLAYING => StatusInv'
  BY <1>0, <1>13 DEF IInv, Core, StatusInv, Clean, NoPlay, OnTime
<1>9. CASE pipe \in {Paused, Seeking} /\ pipe' = pipe /\ bus' = bus
  <2>1. Line' = Line
    BY <1>5, <1>9
  <2>2. PipeInv'
    BY <1>1, <1>3, <1>9, <2>1 DEF IInv, Core, PipeInv
  <2>3. EarlyInv'
    BY <1>1, <1>9, <2>1 DEF IInv, Core, EarlyInv
  <2>4. pipe'.target # PLAYING /\ pipe' # Playing
    BY <1>2, <1>9, ShapeFacts
  <2>5. SettleInv'
    BY <1>0, <1>1, <1>8, <1>9, <2>1 DEF IInv, Core, SettleInv, NoSeek, OnTime
  <2> QED BY <1>14, <2>2, <2>3, <2>4, <2>5 DEF Core, StopInv, PlaysInv
<1>10. CASE pipe' = Pausing /\ bus' = bus
  <2>1. Line' = Line
    BY <1>5, <1>10
  <2>2. Pausing \in Shapes /\ Pausing \notin {Torn, Fresh, Paused, Playing, Seeking} /\ Pausing.target # PLAYING
    BY ShapeFacts DEF Shapes
  <2>3. PipeInv'
    BY <1>1, <1>3, <1>10, <2>1, <2>2 DEF IInv, Core, PipeInv
  <2>4. EarlyInv'
    BY <1>1, <1>10, <2>1, <2>2 DEF IInv, Core, EarlyInv
  <2> QED BY <1>10, <1>14, <2>2, <2>3, <2>4 DEF Core, StopInv, SettleInv, PlaysInv
<1>11. CASE pipe \in ToPlay /\ pipe' = Seeking /\ bus' = bus
  <2>1. Line' = Line
    BY <1>5, <1>11
  <2>2. Seeking \in Shapes /\ Seeking \notin {Torn, Fresh, Paused, Playing} /\ Seeking.target # PLAYING
    BY ShapeFacts DEF Shapes
  <2>3. PipeInv'
    BY <1>1, <1>3, <1>11, <2>1, <2>2 DEF IInv, Core, PipeInv
  <2>4. EarlyInv'
    BY <1>1, <1>11, <2>1, <2>2 DEF IInv, Core, EarlyInv
  <2>5. SettleInv'
    BY <1>6, <1>7, <1>8, <1>11, <2>1, <2>2 DEF SettleInv
  <2> QED BY <1>11, <1>14, <2>2, <2>3, <2>4, <2>5 DEF Core, StopInv, PlaysInv
<1>12. CASE \E s \in {PAUSED, PLAYING} :
              /\ pipe' = Paused /\ bus' = bus \o <<StateChanged(s, PAUSED, VOID)>>
              /\ s = PAUSED => pipe \in ToPlay
  <2>1. PICK s \in {PAUSED, PLAYING} :
              /\ pipe' = Paused /\ bus' = bus \o <<StateChanged(s, PAUSED, VOID)>>
              /\ s = PAUSED => pipe \in ToPlay
    BY <1>12
  <2>2. Line' = Line \o <<StateChanged(s, PAUSED, VOID)>>
    BY <1>5, <2>1
  <2>3. /\ Some(Line', Voids)
        /\ Some(Line', Strange) <=> Some(Line, Strange)
        /\ Some(Line', Firsts) <=> Some(Line, Firsts)
        /\ Some(Line', Leaves) <=> Some(Line, Leaves) \/ s = PLAYING
        /\ Answered(Line, Plays, Leaves) \/ s = PLAYING => Answered(Line', Plays, Leaves)
    <3>1. s # READY
      BY DEF READY, PAUSED, PLAYING
    <3> QED BY <1>4, <2>2, <3>1, PausePosted
  <2>4. Paused \in Shapes /\ Paused \notin {Torn, Fresh, Playing, Seeking} /\ Paused.target # PLAYING
    BY ShapeFacts DEF Shapes
  <2>5. PipeInv'
    BY <1>1, <1>3, <2>1, <2>3, <2>4 DEF IInv, Core, PipeInv
  <2>6. EarlyInv'
    BY <1>1, <2>1, <2>3, <2>4 DEF IInv, Core, EarlyInv
  <2>7. SettleInv'
    BY <1>6, <1>7, <1>8, <2>1, <2>3, <2>4 DEF SettleInv
  <2> QED BY <1>14, <2>1, <2>4, <2>5, <2>6, <2>7 DEF Core, StopInv, PlaysInv
<1> QED BY <1>3, <1>9, <1>10, <1>11, <1>12 DEF PAUSED, PLAYING

LEMMA SetPausedKeeps ==
  ASSUME IInv, NEW t \in {"user", "bus"}, SetPaused(t), m_fRate # 0
  PROVE  IInv'
<1>1. /\ pc[t] = "pausing" /\ SetPipeline(PAUSED, PauseRace(t)) /\ Return(t)
      /\ UNCHANGED <<m_PlayerState, m_PlayerPendingState, m_StallOnPause, status, m_fRate, level, toCome,
                     then, msg>>
  BY DEF SetPaused, player, bufVars
<1>2. PipeOK(pipe') /\ bus' \in Seq(Messages) 
  BY <1>1, SetPipelineFacts DEF IInv
<1>3. TypeInv'
  BY <1>1, <1>2, Returns DEF IInv, TypeInv, PS!Statuses
<1>4. UserInv'
  BY <1>1, ReturnUser
<1>5. Core'
  BY <1>1, Returns, PausingCore
<1> QED BY <1>3, <1>4, <1>5 DEF IInv

\* Finish, on the timer of the media pulse.
LEMMA PulseKeeps ==
  ASSUME IInv, pulse # "idle" => status # "UNKNOWN", PulseStep
  PROVE  IInv'
<1>1. UNCHANGED <<m_PlayerState, m_PlayerPendingState, m_StallOnPause, status, m_fRate,
                  level, toCome, pc, then, msg>>
  BY DEF PulseStep, Finish, FinishPause, FinishPaused, player, rateVars, bufVars
<1>2. CASE UNCHANGED <<pipeVars, races>>
  <2>1. UNCHANGED <<pipe, bus, flushing>>
    BY <1>2 DEF pipeVars
  <2> QED BY <1>1, <1>2, <2>1 DEF IInv, TypeInv, UserInv, Core, PipeInv, EarlyInv, StopInv,
             SettleInv, PlaysInv, StatusInv, Line, OnTime, Clean, NoSeek, NoPlay, Requested,
             AboutToPause, PS!Statuses
<1>3. CASE FinishPaused /\ m_fRate # 0
  <2>1. SetPipeline(PAUSED, PauseRace("pulse")) /\ pulse # "idle"
    BY <1>3 DEF FinishPaused
  <2>2. PipeOK(pipe') /\ bus' \in Seq(Messages)
    BY <2>1, SetPipelineFacts DEF IInv
  <2>3. TypeInv'
    BY <1>1, <2>2 DEF IInv, TypeInv, PS!Statuses
  <2>4. UserInv'
    BY <1>1 DEF IInv, UserInv
  <2>5. Core'
    BY <1>1, <2>1, PausingCore
  <2> QED BY <2>3, <2>4, <2>5 DEF IInv
<1> QED BY <1>2, <1>3 DEF PulseStep, Finish, FinishPause, FinishPaused, bounds

\* A message of the pipeline about a change that is not complete.
LEMMA PartialPosted ==
  ASSUME NEW q \in Seq(Messages), NEW a \in 0..4, NEW b \in 0..4, NEW c \in 1..4
  PROVE  Keeps(q, q \o <<StateChanged(a, b, c)>>)
<1>1. Plain(StateChanged(a, b, c))
  BY Changed DEF Plain
<1> QED BY <1>1, KeepsAppend

\* A flushing seek.
LEMMA FlushKeeps ==
  ASSUME IInv, FlushPipeline, pipe.state # NULL, status # "UNKNOWN",
         UNCHANGED <<m_PlayerState, m_PlayerPendingState, m_StallOnPause, status, races, msg>>,
         pc'["bus"] = pc["bus"], ~AboutToPause
  PROVE  /\ PipeOK(pipe') /\ bus' \in Seq(Messages) /\ level' \in 0..Slots /\ toCome' \in 0..Segments
         /\ Core'
<1>1. PipeOK(pipe') /\ LostStateMessages(pipe) \in Seq(Messages) /\ bus \in Seq(Messages)
  BY LostStateOK, MessagesOK DEF IInv, TypeInv, FlushPipeline
<1>2. bus' \in Seq(Messages) /\ level' \in 0..Slots /\ toCome' \in 0..Segments
  BY <1>1, PlayerAssumption DEF FlushPipeline, Post
<1>3. ASSUME OnTime PROVE Core'
  <2>1. pipe \in Shapes \ {Torn, Fresh} /\ ~flushing
    BY <1>3, ShapeFacts DEF IInv, Core, PipeInv, EarlyInv
  <2>2. bus' = bus \o LostStateMessages(pipe) /\ flushing' = flushing /\ pipe' = LostState(pipe)
    BY <2>1 DEF FlushPipeline, Post
  <2>3. Line' = Line \o LostStateMessages(pipe) /\ Line \in Seq(Messages)
    BY <1>1, <2>2, LinePosted, LineType DEF IInv
  <2>4. Keeps(Line, Line')
    <3>1. CASE pipe \in {Paused, Playing}
      <4>1. LostStateMessages(pipe) = <<StateChanged(PAUSED, PAUSED, PAUSED)>>
        BY <2>1, <3>1, LostShapes
      <4>2. Keeps(Line, Line \o <<StateChanged(PAUSED, PAUSED, PAUSED)>>)
        <5>1. PAUSED \in 0..4 /\ PAUSED \in 1..4
          BY DEF PAUSED
        <5> QED BY <2>3, <5>1, PartialPosted
      <4> QED BY <2>3, <4>1, <4>2
    <3>2. CASE pipe \notin {Paused, Playing}
      <4>1. LostStateMessages(pipe) = <<>>
        BY <2>1, <3>2, LostShapes
      <4> QED BY <2>3, <4>1, KeepsSelf
    <3> QED BY <3>1, <3>2
  <2>5. /\ pipe' \in Shapes /\ pipe' \notin {Torn, Fresh, Paused, Playing}
        /\ pipe' = Seeking => pipe \in {Paused, Seeking}
        /\ pipe'.target = PLAYING => pipe.target = PLAYING
    <3>1. /\ pipe = Paused => pipe' = Seeking
          /\ pipe = Playing => pipe' = Seeking4
          /\ pipe = Goes => pipe' = GoesLost
          /\ pipe \notin {Paused, Playing, Goes} => pipe' = pipe
      BY <2>1, <2>2, LostShapes
    <3>2. Seeking4 \in ToPlay /\ Goes \in ToPlay /\ GoesLost \in ToPlay
      BY DEF ToPlay
    <3>3. pipe' \in Shapes
      BY <2>1, <3>1, <3>2 DEF Shapes
    <3> QED BY <2>1, <3>1, <3>2, <3>3, ShapeFacts
  <2>6. PipeInv'
    BY <2>1, <2>2, <2>4, <2>5, <1>3 DEF IInv, Core, PipeInv, Keeps, OnTime
  <2>7. EarlyInv'
    BY <1>3, <2>4, <2>5 DEF IInv, Core, EarlyInv, Keeps, OnTime
  <2>8. StopInv' /\ PlaysInv'
    BY <2>5 DEF IInv, Core, StopInv, PlaysInv, NoPlay, OnTime
  <2>9. Requested <=> Requested'
    BY DEF Requested
  <2>10. SettleInv'
    BY <2>4, <2>5, <2>9 DEF IInv, Core, SettleInv, NoSeek, OnTime, Keeps
  <2>11. StatusInv'
    BY <2>4, <2>5 DEF IInv, Core, StatusInv, Clean, NoPlay, OnTime, Keeps
  <2> QED BY <2>6, <2>7, <2>8, <2>10, <2>11 DEF Core
<1>4. ~OnTime => Core'
  BY DEF Core, PipeInv, EarlyInv, StopInv, SettleInv, PlaysInv, StatusInv, Clean, NoPlay, NoSeek,
     OnTime
<1> QED BY <1>1, <1>2, <1>3, <1>4

LEMMA SeekKeeps ==
  ASSUME IInv, SeekPipeline \/ SetRate
  PROVE  IInv'
<1>1. /\ UNCHANGED <<m_PlayerState, m_PlayerPendingState, m_StallOnPause, status, races, msg, then>>
      /\ pc["user"] \in {"seekPipeline", "rate1"}
  BY DEF SeekPipeline, SetRate, player, bounds
<1>2. ~AboutToPause /\ status # "UNKNOWN"
  BY <1>1 DEF AboutToPause, IInv, UserInv
<1>3. PICK l \in {"idle", "seekResume", "rate1done"} : pc' = [pc EXCEPT !["user"] = l]
  BY DEF SeekPipeline, SetRate, Goto
<1>4. m_fRate' \in {0, 1}
  BY DEF IInv, TypeInv, SeekPipeline, SetRate, rateVars
<1>5. /\ pc'["user"] = l /\ pc'["bus"] = pc["bus"] /\ l \in UserLabels
      /\ pc' \in [{"user", "bus"} -> UserLabels \union BusLabels]
  BY <1>3 DEF IInv, TypeInv, UserLabels
<1>6. UserInv'
  BY <1>1, <1>2, <1>5 DEF UserInv
<1>7. CASE UNCHANGED <<pipeVars, bufVars>>
  <2>1. UNCHANGED <<pipeVars, level, toCome>> /\ then \in {"idle", "seek", "rate0set"}
    BY <1>7 DEF bufVars, IInv, TypeInv
  <2> QED BY <1>1, <1>2, <1>3, <1>4, <1>5, <1>6, <2>1, UserMoves
<1>8. CASE pipe.state # NULL /\ FlushPipeline
  <2>1. /\ PipeOK(pipe') /\ bus' \in Seq(Messages) /\ level' \in 0..Slots /\ toCome' \in 0..Segments
        /\ Core'
    BY <1>1, <1>2, <1>5, <1>8, FlushKeeps
  <2>2. TypeInv'
    BY <1>1, <1>4, <1>5, <2>1 DEF IInv, TypeInv, PS!Statuses
  <2> QED BY <1>6, <2>1, <2>2 DEF IInv
<1> QED BY <1>7, <1>8 DEF SeekPipeline, SetRate

LEMMA PairOf ==
  ASSUME NEW S, NEW a \in S, NEW v \in S
  PROVE  <<a>> \o <<v>> = <<a, v>>
<1> DEFINE x == <<a>> \o <<v>>
           y == <<a, v>>
<1>1. x \in Seq(S) /\ y \in Seq(S)
  OBVIOUS
<1>2. Len(x) = 2 /\ Len(y) = 2 /\ \A i \in 1 .. 2 : x[i] = y[i]
  BY <1>1
<1> HIDE DEF x, y
<1>3. x = y
  BY <1>1, <1>2, SeqEqual
<1> QED BY <1>3 DEF x, y

LEMMA SinksPosted ==
  ASSUME NEW q \in Seq(Messages)
  PROVE  LET pre == <<Message("AUDIO_SINK_READY"), Message("VIDEO_SINK_READY")>>
         IN pre \in Seq(Messages) /\ Keeps(q, q \o pre)
<1> DEFINE a == Message("AUDIO_SINK_READY")
           v == Message("VIDEO_SINK_READY")
<1>1. Plain(a) /\ Plain(v)
  BY PlainMessages DEF PlainTypes
<1>2. a \in Messages /\ v \in Messages
  BY <1>1 DEF Plain
<1> HIDE DEF a, v
<1>3. Keeps(q, q \o <<a>>) /\ q \o <<a>> \in Seq(Messages)
  BY <1>1, <1>2, KeepsAppend
<1>4. Keeps(q \o <<a>>, (q \o <<a>>) \o <<v>>)
  BY <1>1, <1>3, KeepsAppend
<1>5. <<a, v>> \in Seq(Messages) /\ (q \o <<a>>) \o <<v>> = q \o <<a, v>>
  <2>1. <<a>> \in Seq(Messages) /\ <<v>> \in Seq(Messages) /\ <<a, v>> \in Seq(Messages)
    BY <1>2
  <2>2. <<a>> \o <<v>> = <<a, v>>
    BY <1>2, PairOf
  <2>3. (q \o <<a>>) \o <<v>> = q \o (<<a>> \o <<v>>)
    BY <2>1
  <2> QED BY <2>1, <2>2, <2>3
<1>6. Keeps(q, q \o <<a, v>>)
  BY <1>3, <1>4, <1>5, KeepsTrans
<1> QED BY <1>5, <1>6 DEF a, v

LEMMA PrerollKeeps ==
  ASSUME IInv, Preroll
  PROVE  IInv'
<1> DEFINE pre == IF m_PlayerState = "Unknown"
                  THEN <<Message("AUDIO_SINK_READY"), Message("VIDEO_SINK_READY")>> ELSE <<>>
           am == AsyncDoneMessages(pipe)
<1>1. /\ UNCHANGED <<m_PlayerState, m_PlayerPendingState, m_StallOnPause, status, m_fRate, flushing,
                     level, toCome, pc, then, races, msg>>
      /\ pipe.sinks = "waiting" /\ pipe' = AsyncDone(pipe) /\ Post(pre \o am)
  BY DEF Preroll, player, rateVars, bufVars, bounds
<1>2. Line \in Seq(Messages) /\ bus \in Seq(Messages)
  BY LineType DEF IInv, TypeInv
<1>3. PipeOK(pipe') /\ am \in Seq(Messages)
  BY <1>1, AsyncDoneOK, MessagesOK DEF IInv, TypeInv
<1>4. pre \in Seq(Messages) /\ Keeps(Line, Line \o pre)
  <2>1. CASE m_PlayerState = "Unknown"
    <3> DEFINE two == <<Message("AUDIO_SINK_READY"), Message("VIDEO_SINK_READY")>>
    <3>1. pre = two
      BY <2>1
    <3>2. two \in Seq(Messages) /\ Keeps(Line, Line \o two)
      BY <1>2, SinksPosted
    <3> HIDE DEF pre, two
    <3> QED BY <3>1, <3>2
  <2>2. CASE m_PlayerState # "Unknown"
    <3>1. pre = <<>> /\ pre \in Seq(Messages) /\ Line \o pre = Line
      BY <1>2, <2>2
    <3>2. Keeps(Line, Line)
      BY <1>2, KeepsSelf
    <3> HIDE DEF pre
    <3> QED BY <3>1, <3>2
  <2> QED BY <2>1, <2>2
<1> HIDE DEF pre, am
<1>5. pre \o am \in Seq(Messages) /\ bus' \in Seq(Messages)
  BY <1>1, <1>2, <1>3, <1>4 DEF Post
<1>6. TypeInv'
  BY <1>1, <1>3, <1>5 DEF IInv, TypeInv, PS!Statuses
<1>7. UserInv'
  BY <1>1 DEF IInv, UserInv
<1>8. ASSUME OnTime PROVE Core'
  <2>1. pipe \in Shapes /\ pipe # Torn
    BY <1>1, <1>8, ShapeFacts DEF IInv, Core, PipeInv
  <2>2. ~flushing /\ bus' = bus \o (pre \o am)
    BY <1>1, <1>8, <2>1 DEF IInv, Core, PipeInv, Post
  <2> DEFINE q == Line \o pre
  <2>3. q \in Seq(Messages) /\ Keeps(Line, q) /\ Line' = q \o am
    <3>1. Line' = Line \o (pre \o am)
      BY <1>1, <1>5, <2>2, LinePosted DEF IInv
    <3> QED BY <1>2, <1>3, <1>4, <3>1
  <2> HIDE DEF q
  <2>4. /\ OnTime' /\ (NoSeek' => NoSeek) /\ (NoPlay' => NoPlay) /\ (Requested <=> Requested')
        /\ (AboutToPause <=> AboutToPause') /\ (Clean' => Clean)
    BY <1>1, <1>8 DEF OnTime, NoSeek, NoPlay, Clean, Requested, AboutToPause
  <2>5. CASE pipe \in {Fresh, Seeking, Pausing}
    <3>1. pipe' = Paused /\ am = <<StateChanged(pipe.state, PAUSED, VOID)>>
      BY <1>1, <2>1, <2>5, DoneShapes DEF am
    <3>2. /\ pipe.state \in {READY, PAUSED, PLAYING} /\ (pipe.state = READY => pipe = Fresh)
          /\ (pipe.state = PLAYING <=> pipe = Pausing)
      BY <2>5, ShapeFacts DEF READY, PAUSED, PLAYING
    <3>3. /\ Some(Line', Voids)
          /\ Some(Line', Plays) <=> Some(q, Plays)
          /\ Some(Line', Strange) <=> Some(q, Strange)
          /\ Some(Line', Ends) <=> Some(q, Ends)
          /\ Some(Line', Firsts) <=> Some(q, Firsts) \/ pipe.state = READY
          /\ Some(Line', Leaves) <=> Some(q, Leaves) \/ pipe.state = PLAYING
          /\ ~Some(q, Voids) => AtMostOne(Line', Voids)
          /\ Answered(q, Plays, Leaves) \/ pipe.state = PLAYING => Answered(Line', Plays, Leaves)
          /\ AnsweredBefore(q, Pauses, Plays, Ends) => AnsweredBefore(Line', Pauses, Plays, Ends)
          /\ Preceded(q, Plays, Ends) => Preceded(Line', Plays, Ends)
      BY <2>3, <3>1, <3>2, PausePosted
    <3>4. Paused \in Shapes /\ Paused \notin {Torn, Fresh, Playing, Seeking} /\ Paused.target # PLAYING
      BY ShapeFacts DEF Shapes
    <3>5. PipeInv'
      BY <1>1, <1>8, <2>1, <2>2, <2>3, <3>1, <3>3, <3>4 DEF IInv, Core, PipeInv, Keeps
    <3>6. EarlyInv'
      BY <1>1, <1>8, <2>1, <2>3, <2>5, <3>1, <3>2, <3>3, <3>4, ShapeFacts DEF IInv, Core,
         EarlyInv, Keeps
    <3>7. SettleInv'
      <4>1. pipe = Fresh => ~Some(q, Plays) /\ m_PlayerState = "Unknown" /\ Answered(q, Plays, Leaves)
        BY <1>8, <2>3, NoneAnswered, ShapeFacts DEF IInv, Core, EarlyInv, PipeInv, Keeps
      <4>2. NoSeek' /\ pipe = Seeking => /\ Answered(q, Plays, Leaves)
                                         /\ Some(q, Leaves) \/ (m_PlayerState = "Playing" => Requested)
        BY <2>3, <2>4 DEF IInv, Core, SettleInv, Keeps
      <4> QED BY <1>1, <2>4, <2>5, <3>2, <3>3, <4>1, <4>2 DEF SettleInv
    <3>8. StatusInv'
      BY <1>1, <2>3, <2>4, <3>1, <3>3, <3>4 DEF IInv, Core, StatusInv, Keeps
    <3> QED BY <3>1, <3>4, <3>5, <3>6, <3>7, <3>8 DEF Core, StopInv, PlaysInv
  <2>6. CASE pipe \notin {Fresh, Seeking, Pausing}
    <3>1. /\ pipe \in ToPlay \union {Pausing4} /\ pipe' = Goes
          /\ \/ am = <<>>
             \/ \E s \in {PAUSED, PLAYING} : am = <<StateChanged(s, PAUSED, PLAYING)>>
      BY <1>1, <2>1, <2>6, DoneShapes DEF am
    <3>2. Keeps(q, Line')
      <4>1. CASE am = <<>>
        BY <2>3, <4>1, KeepsSelf
      <4>2. CASE \E s \in {PAUSED, PLAYING} : am = <<StateChanged(s, PAUSED, PLAYING)>>
        <5>1. PICK s \in {PAUSED, PLAYING} : am = <<StateChanged(s, PAUSED, PLAYING)>>
          BY <4>2
        <5>2. s \in 0..4 /\ PAUSED \in 0..4 /\ PLAYING \in 1..4
          BY DEF PAUSED, PLAYING
        <5> QED BY <2>3, <5>1, <5>2, PartialPosted
      <4> QED BY <3>1, <4>1, <4>2
    <3>3. Keeps(Line, Line')
      BY <2>3, <3>2, KeepsTrans
    <3>4. Goes \in ToPlay /\ Goes \in Shapes /\ Goes \notin {Torn, Fresh, Paused, Playing, Seeking}
      BY ShapeFacts DEF ToPlay, Shapes
    <3>5. pipe.target = PLAYING
      BY <2>1, <3>1, ShapeFacts
    <3>6. PipeInv'
      BY <1>1, <1>8, <2>1, <2>2, <3>1, <3>3, <3>4 DEF IInv, Core, PipeInv, Keeps
    <3>7. status # "UNKNOWN"
      BY <1>8, <2>1, <3>1, ShapeFacts DEF IInv, Core, EarlyInv
    <3>8. EarlyInv'
      BY <1>1, <1>8, <3>1, <3>3, <3>4, <3>7 DEF IInv, Core, EarlyInv, Keeps
    <3>9. StopInv'
      BY <1>1, <2>4, <3>5 DEF IInv, Core, StopInv
    <3>10. StatusInv'
      BY <1>1, <2>4, <3>1, <3>3, <3>4, <3>5 DEF IInv, Core, StatusInv, Keeps
    <3> QED BY <3>1, <3>4, <3>6, <3>8, <3>9, <3>10 DEF Core, SettleInv, PlaysInv
  <2> QED BY <2>5, <2>6
<1>9. ~OnTime => Core'
  BY <1>1 DEF Core, PipeInv, EarlyInv, StopInv, SettleInv, PlaysInv, StatusInv, Clean, NoPlay,
     NoSeek, OnTime
<1> QED BY <1>6, <1>7, <1>8, <1>9 DEF IInv

LEMMA ContinueKeeps ==
  ASSUME IInv, ContinueState
  PROVE  IInv'
<1>1. /\ UNCHANGED <<m_PlayerState, m_PlayerPendingState, m_StallOnPause, status, m_fRate, flushing,
                     level, toCome, pc, then, races, msg>>
      /\ pipe.task = "continue" /\ pipe' = Continue(pipe) /\ Post(ContinueMessages(pipe))
  BY DEF ContinueState, player, rateVars, bufVars, bounds
<1>2. Line \in Seq(Messages) /\ bus \in Seq(Messages)
  BY LineType DEF IInv, TypeInv
<1>3. PipeOK(pipe') /\ ContinueMessages(pipe) \in Seq(Messages)
  BY <1>1, ContinueOK, MessagesOK DEF IInv, TypeInv
<1>4. bus' \in Seq(Messages)
  BY <1>1, <1>2, <1>3 DEF Post
<1>5. TypeInv'
  BY <1>1, <1>3, <1>4 DEF IInv, TypeInv, PS!Statuses
<1>6. UserInv'
  BY <1>1 DEF IInv, UserInv
<1>7. ASSUME OnTime PROVE Core'
  <2>1. pipe \in Shapes /\ pipe # Torn
    BY <1>1, <1>7, ShapeFacts DEF IInv, Core, PipeInv
  <2>2. ~flushing /\ bus' = bus \o ContinueMessages(pipe)
    BY <1>1, <1>7, <2>1 DEF IInv, Core, PipeInv, Post
  <2>3. Line' = Line \o ContinueMessages(pipe)
    BY <1>1, <1>3, <2>2, LinePosted DEF IInv
  <2>4. /\ pipe \in {Goes, GoesLost} /\ pipe' \in {Playing, Waits4}
        /\ pipe' = Playing => Line' = Line \o <<StateChanged(PAUSED, PLAYING, VOID)>>
        /\ pipe' # Playing => Line' = Line
    <3>1. \/ pipe = Goes /\ pipe' = Playing /\ ContinueMessages(pipe) = <<StateChanged(PAUSED, PLAYING, VOID)>>
          \/ pipe = GoesLost /\ pipe' = Waits4 /\ ContinueMessages(pipe) = <<>>
      BY <1>1, <2>1, ContinueShapes
    <3>2. Waits4 # Playing
      BY ShapeFacts DEF ToPlay
    <3>3. ContinueMessages(pipe) = <<>> => Line' = Line
      BY <1>2, <2>3
    <3> QED BY <2>3, <3>1, <3>2, <3>3
  <2>5. /\ Some(Line', Firsts) <=> Some(Line, Firsts)
        /\ Some(Line', Strange) <=> Some(Line, Strange)
        /\ pipe' = Playing => Some(Line', Voids) /\ Answered(Line', Pauses, Plays)
        /\ AnsweredBefore(Line, Pauses, Plays, Ends) => AnsweredBefore(Line', Pauses, Plays, Ends)
        /\ Preceded(Line, Plays, Ends) => Preceded(Line', Plays, Ends)
    BY <1>2, <2>4, PlayPosted
  <2>6. Goes \in ToPlay /\ GoesLost \in ToPlay /\ Waits4 \in ToPlay
    BY DEF ToPlay
  <2>7. /\ pipe \in ToPlay /\ pipe' \in Shapes /\ pipe' \notin {Torn, Fresh, Paused, Seeking}
        /\ pipe.target = PLAYING /\ status # "UNKNOWN"
    <3>1. pipe \in ToPlay /\ pipe' \in Shapes /\ pipe' \notin {Torn, Fresh, Paused, Seeking}
      BY <2>4, <2>6, ShapeFacts DEF Shapes
    <3> QED BY <1>7, <2>1, <3>1, ShapeFacts DEF IInv, Core, EarlyInv
  <2>8. PipeInv'
    BY <1>1, <1>7, <2>1, <2>2, <2>5, <2>7 DEF IInv, Core, PipeInv
  <2>9. EarlyInv'
    BY <1>1, <1>7, <2>5, <2>7 DEF IInv, Core, EarlyInv
  <2>10. StopInv'
    BY <1>1, <2>7 DEF IInv, Core, StopInv, NoPlay, OnTime, AboutToPause
  <2>11. StatusInv'
    BY <1>1, <2>5, <2>7 DEF IInv, Core, StatusInv, Clean, NoPlay, OnTime
  <2> QED BY <2>5, <2>7, <2>8, <2>9, <2>10, <2>11 DEF Core, SettleInv, PlaysInv
<1>8. ~OnTime => Core'
  BY <1>1 DEF Core, PipeInv, EarlyInv, StopInv, SettleInv, PlaysInv, StatusInv, Clean, NoPlay,
     NoSeek, OnTime
<1> QED BY <1>5, <1>6, <1>7, <1>8 DEF IInv

\* The end of the stream at the end of the line.
LEMMA EosPosted ==
  ASSUME NEW q \in Seq(Messages)
  PROVE  LET r == q \o <<Message("EOS")>> IN
         /\ r \in Seq(Messages) /\ <<Message("EOS")>> \in Seq(Messages)
         /\ Some(r, Voids) <=> Some(q, Voids)
         /\ Some(r, Plays) <=> Some(q, Plays)
         /\ Some(r, Strange) <=> Some(q, Strange)
         /\ Some(r, Firsts) <=> Some(q, Firsts)
         /\ Answered(q, Pauses, Plays) => Answered(r, Pauses, Plays)
         /\ AnsweredBefore(q, Pauses, Plays, Ends) /\ Answered(q, Pauses, Plays)
              => AnsweredBefore(r, Pauses, Plays, Ends)
         /\ Preceded(q, Plays, Ends) /\ Some(q, Plays) => Preceded(r, Plays, Ends)
<1> DEFINE m == Message("EOS")
           r == q \o <<m>>
<1>1. m \in Messages /\ m \notin Voids
  BY Ended DEF PlainTypes
<1>2. m \notin Plays /\ m \notin Pauses /\ m \notin Firsts /\ m \notin Strange
  BY <1>1, Subsets
<1> HIDE DEF m
<1>3. /\ r \in Seq(Messages) /\ <<m>> \in Seq(Messages)
      /\ \A A, B, E :
           /\ Some(r, A) <=> Some(q, A) \/ m \in A
           /\ Answered(q, A, B) /\ m \notin A => Answered(r, A, B)
           /\ AnsweredBefore(q, A, B, E) /\ (m \in E => Answered(q, A, B)) => AnsweredBefore(r, A, B, E)
           /\ Preceded(q, B, E) /\ (m \in E => Some(q, B)) => Preceded(r, B, E)
  BY <1>1, AppendSome
<1> HIDE DEF r
<1> QED BY <1>1, <1>2, <1>3 DEF r, m

LEMMA SinksEosKeeps ==
  ASSUME IInv, SinksEos
  PROVE  IInv'
<1>1. /\ UNCHANGED <<m_PlayerState, m_PlayerPendingState, m_StallOnPause, status, m_fRate, pipe, flushing,
                     level, toCome, pc, then, races, msg>>
      /\ pipe.state = PLAYING /\ pipe.sinks = "prerolled" /\ Post(<<Message("EOS")>>)
  BY DEF SinksEos, bufUnchanged, player, rateVars, bufVars, bounds
<1>2. Line \in Seq(Messages) /\ bus \in Seq(Messages)
  BY LineType DEF IInv, TypeInv
<1>3. bus' \in Seq(Messages)
  BY <1>1, <1>2, EosPosted DEF Post
<1>4. TypeInv'
  BY <1>1, <1>3 DEF IInv, TypeInv, PS!Statuses
<1>5. UserInv'
  BY <1>1 DEF IInv, UserInv
<1>6. ASSUME OnTime PROVE Core'
  <2>1. pipe = Playing /\ pipe # Torn
    BY <1>1, <1>6, ShapeFacts DEF IInv, Core, PipeInv
  <2>2. ~flushing /\ bus' = bus \o <<Message("EOS")>>
    BY <1>1, <1>6, <2>1 DEF IInv, Core, PipeInv, Post
  <2>3. Line' = Line \o <<Message("EOS")>>
    <3>1. <<Message("EOS")>> \in Seq(Messages)
      BY <1>2, EosPosted
    <3> QED BY <1>1, <2>2, <3>1, LinePosted DEF IInv
  <2>4. /\ Some(Line', Voids) <=> Some(Line, Voids)
        /\ Some(Line', Strange) <=> Some(Line, Strange)
        /\ Some(Line', Firsts) <=> Some(Line, Firsts)
        /\ Answered(Line, Pauses, Plays) => Answered(Line', Pauses, Plays)
        /\ AnsweredBefore(Line, Pauses, Plays, Ends) /\ Answered(Line, Pauses, Plays)
             => AnsweredBefore(Line', Pauses, Plays, Ends)
        /\ Preceded(Line, Plays, Ends) /\ Some(Line, Plays) => Preceded(Line', Plays, Ends)
    BY <1>2, <2>3, EosPosted
  <2>5. PipeInv'
    BY <1>1, <1>6, <2>1, <2>2, <2>4 DEF IInv, Core, PipeInv
  <2>6. status # "UNKNOWN"
    BY <1>6, <2>1, ShapeFacts DEF IInv, Core, EarlyInv
  <2>7. EarlyInv'
    BY <1>1, <1>6, <2>4, <2>6 DEF IInv, Core, EarlyInv
  <2>8. StopInv'
    BY <1>1 DEF IInv, Core, StopInv, NoPlay, OnTime, AboutToPause
  <2>9. SettleInv'
    BY <1>1, <2>1, ShapeFacts DEF SettleInv
  <2>10. PlaysInv'
    BY <1>1, <2>4 DEF IInv, Core, PlaysInv, NoPlay, OnTime, AboutToPause
  <2>11. StatusInv'
    <3>1. Clean' => Clean /\ NoPlay
      BY <1>1 DEF Clean, NoPlay, OnTime
    <3>2. pipe.target = PLAYING
      BY <2>1, ShapeFacts DEF Shapes
    <3>3. Clean' => Answered(Line, Pauses, Plays)
      BY <2>1, <3>1 DEF IInv, Core, PlaysInv
    <3>4. Some(Line, Voids) /\ Answered(Line, Pauses, Plays) => Some(Line, Plays)
      <4>1. ~Some(Line, Strange)
        BY <1>6 DEF IInv, Core, PipeInv
      <4> QED BY <4>1, Subsets DEF Some, Answered
    <3> QED BY <1>1, <2>1, <2>4, <3>1, <3>2, <3>3, <3>4 DEF IInv, Core, StatusInv
  <2> QED BY <2>5, <2>7, <2>8, <2>9, <2>10, <2>11 DEF Core
<1>7. ~OnTime => Core'
  BY <1>1 DEF Core, PipeInv, EarlyInv, StopInv, SettleInv, PlaysInv, StatusInv, Clean, NoPlay,
     NoSeek, OnTime
<1> QED BY <1>4, <1>5, <1>6, <1>7 DEF IInv

\* What UpdatePlayerState makes of the state, case by case.
LEMMA UpdatedFields ==
  ASSUME NEW old, NEW new,
         m_PlayerPendingState \in {"Unknown", "Paused", "Stopped"}
  PROVE  LET u == Updated(old, new)
             s == u.state
             p == u.pending
             m == m_PlayerState
             r == m_PlayerPendingState
         IN /\ m = "Unknown" =>
                 p = r /\ ~u.silent /\ s = IF new = PAUSED /\ old \in {READY, PAUSED} THEN "Ready" ELSE m
            /\ m = "Ready" =>
                 p = r /\ ~u.silent /\ s = IF old # PAUSED THEN m ELSE IF new = PLAYING THEN "Playing"
                                           ELSE IF new = READY THEN "Unknown" ELSE m
            /\ m = "Playing" => 
                 /\ ~u.silent
                 /\ ~(new = PAUSED /\ old \in {PAUSED, PLAYING}) => s = m /\ p = r
                 /\ new = PAUSED /\ old \in {PAUSED, PLAYING} =>
                      /\ p = "Unknown"
                      /\ r # "Unknown" => s = r
                      /\ r = "Unknown" => s = IF m_StallOnPause THEN "Stalled"
                                              ELSE IF old = PLAYING THEN "Finished" ELSE "Playing"
            /\ m = "Paused" =>
                 /\ ~u.silent
                 /\ old # PAUSED => s = m /\ p = r
                 /\ old = PAUSED /\ r = "Stopped" => s = "Stopped" /\ p = "Unknown"
                 /\ old = PAUSED /\ r # "Stopped" =>
                      p = r /\ s = IF new = PLAYING THEN "Playing" ELSE IF new = READY THEN "Unknown" ELSE m
            /\ m = "Stopped" =>
                 /\ ~u.silent
                 /\ old # PAUSED => s = m /\ p = r
                 /\ old = PAUSED /\ new = PAUSED =>
                      IF r = "Paused" THEN s = "Paused" /\ p = "Unknown" ELSE s = m /\ p = r
                 /\ old = PAUSED /\ new # PAUSED =>
                      p = r /\ s = IF new = PLAYING THEN "Playing" ELSE IF new = READY THEN "Unknown" ELSE m
            /\ m = "Stalled" =>
                 /\ ~u.silent
                 /\ old # PAUSED => s = m /\ p = r
                 /\ old = PAUSED /\ new = PLAYING => s = "Playing" /\ p = r
                 /\ old = PAUSED /\ new = PAUSED =>
                      IF r # "Unknown" THEN s = r /\ p = "Unknown" ELSE s = m /\ p = r
                 /\ old = PAUSED /\ new \notin {PAUSED, PLAYING} => s = m /\ p = r
            /\ m = "Finished" =>
                 /\ new = PAUSED /\ r = "Stopped" => s = "Stopped" /\ p = "Unknown" /\ ~u.silent
                 /\ new = PAUSED /\ r # "Stopped" => s = (IF old = PAUSED THEN "Paused" ELSE m) /\ p = r /\ ~u.silent
                 /\ new = PLAYING => /\ s = IF old = PAUSED THEN "Playing" ELSE m
                                     /\ p = r /\ (old = PAUSED => u.silent)
                 /\ new \notin {PAUSED, PLAYING} => s = m /\ p = r
            /\ m = "Error" => s = m /\ p = r /\ ~u.silent
<1> DEFINE u == Updated(old, new)
<1>0. PAUSED # PLAYING /\ PAUSED # READY /\ PLAYING # READY
  BY DEF PAUSED, PLAYING, READY
<1>1. CASE m_PlayerState = "Unknown"
  BY <1>0, <1>1 DEF Updated, Same
<1>2. CASE m_PlayerState = "Ready"
  BY <1>0, <1>2 DEF Updated, Same, Followed
<1>3. CASE m_PlayerState = "Playing"
  BY <1>0, <1>3 DEF Updated, Same, UpdatePlaying, PausedWhilePlaying
<1>4. CASE m_PlayerState = "Paused"
  BY <1>0, <1>4 DEF Updated, Same, Honour, Followed
<1>5. CASE m_PlayerState = "Stopped"
  BY <1>0, <1>5 DEF Updated, Same, Honour, Followed
<1>6. CASE m_PlayerState = "Stalled"
  BY <1>0, <1>6 DEF Updated, Same, Honour
<1>7. CASE m_PlayerState = "Finished"
  BY <1>0, <1>7 DEF Updated, Same, UpdateFinished
<1>8. CASE m_PlayerState = "Error"
  BY <1>0, <1>8 DEF Updated, Same
<1> QED BY <1>1, <1>2, <1>3, <1>4, <1>5, <1>6, <1>7, <1>8

\* What it makes of a completed change that the bus thread has in hand.
LEMMA UpdatedTable ==
  ASSUME TypeInv
  PROVE  LET u == Updated(msg.old, msg.new) IN
         /\ u.state \in PlayerStates /\ u.pending \in {m_PlayerPendingState, "Unknown"}
         /\ u.state = "Stalled" /\ m_PlayerState # "Stalled" =>
              m_PlayerState = "Playing" /\ u.pending = "Unknown" /\ msg.new = PAUSED
         /\ u.pending = "Stopped" /\ u.state \in Still =>
              m_PlayerState \in Still /\ m_PlayerPendingState = "Stopped"
         /\ msg \in Plays \/ msg \in Pauses =>
              /\ u.state = "Unknown" => m_PlayerState = "Unknown"
              /\ u.state = "Error" => m_PlayerState = "Error"
              /\ m_PlayerState = "Unknown" =>
                   u.state = "Unknown" \/ (u.state = "Ready" /\ ~u.silent)
         /\ msg \in Pauses /\ u.state = "Playing" =>
              m_PlayerState = "Playing" /\ msg \notin Leaves /\ (msg \in Firsts \/ ~Requested)
         /\ msg \in Plays /\ u.state \in Still \union {"Ready"} =>
              m_PlayerState = "Paused" /\ m_PlayerPendingState = "Stopped"
<1> DEFINE u == Updated(msg.old, msg.new)
<1> USE DEF READY, PAUSED, PLAYING
<1>1. /\ msg \in Plays => msg.old = 3 /\ msg.new = 4
      /\ msg \in Pauses => msg.old \in {2, 3, 4} /\ msg.new = 3
      /\ msg \in Pauses => ((msg \in Leaves <=> msg.old = 4) /\ (msg \in Firsts <=> msg.old = 2))
  BY DEF Plays, Pauses, Leaves, Firsts
<1>2. m_PlayerState \in PlayerStates /\ m_PlayerPendingState \in {"Unknown", "Paused", "Stopped"}
  BY DEF TypeInv
<1> USE <1>1, <1>2 DEF PlayerStates, Still, Requested
<1>3. CASE m_PlayerState \in {"Unknown", "Error"}
  <2>1. /\ u.state \in {"Unknown", "Ready", "Error"} /\ u.pending = m_PlayerPendingState /\ ~u.silent
        /\ u.state = "Error" <=> m_PlayerState = "Error"
        /\ u.state = "Ready" => msg.new = 3
    BY <1>3, UpdatedFields
  <2> HIDE DEF u
  <2> QED BY <1>3, <2>1 DEF u
<1>4. CASE m_PlayerState = "Ready"
  <2>1. /\ u.state \in {"Ready", "Playing", "Unknown"} /\ u.pending = m_PlayerPendingState
        /\ u.state = "Unknown" => msg.new = 2
        /\ u.state = "Playing" => msg.new = 4
        /\ msg.old = 3 /\ msg.new = 4 => u.state = "Playing"
    BY <1>4, UpdatedFields
  <2> HIDE DEF u
  <2> QED BY <1>4, <2>1 DEF u
<1>5. CASE m_PlayerState = "Playing"
  <2>1. /\ u.state \in {"Playing", "Finished", "Stalled", "Paused", "Stopped"}
        /\ u.pending \in {m_PlayerPendingState, "Unknown"}
        /\ u.state # "Playing" => u.pending = "Unknown" /\ msg.new = 3
        /\ u.state = "Playing" /\ msg.new = 3 =>
             msg.old # 4 /\ (msg.old = 3 => m_PlayerPendingState = "Unknown" /\ ~m_StallOnPause)
    BY <1>5, UpdatedFields
  <2> HIDE DEF u
  <2> QED BY <1>5, <2>1 DEF u
<1>6. CASE m_PlayerState = "Paused"
  <2>1. /\ u.state \in {"Paused", "Stopped", "Playing", "Unknown"}
        /\ u.pending \in {m_PlayerPendingState, "Unknown"}
        /\ u.state = "Unknown" => msg.new = 2
        /\ u.state = "Playing" => msg.new = 4
        /\ msg.old = 3 /\ msg.new = 4 => u.state = "Playing" \/ m_PlayerPendingState = "Stopped"
    BY <1>6, UpdatedFields
  <2> HIDE DEF u
  <2> QED BY <1>6, <2>1 DEF u
<1>7. CASE m_PlayerState = "Stopped"
  <2>1. /\ u.state \in {"Paused", "Stopped", "Playing", "Unknown"}
        /\ u.pending \in {m_PlayerPendingState, "Unknown"}
        /\ u.state = "Unknown" => msg.new = 2
        /\ u.state = "Playing" => msg.new = 4
        /\ msg.old = 3 /\ msg.new = 4 => u.state = "Playing"
    BY <1>7, UpdatedFields
  <2> HIDE DEF u
  <2> QED BY <1>7, <2>1 DEF u
<1>8. CASE m_PlayerState = "Stalled"
  <2>1. /\ u.state \in {"Paused", "Stopped", "Playing", "Stalled"}
        /\ u.pending \in {m_PlayerPendingState, "Unknown"}
        /\ u.state = "Playing" => msg.new = 4
        /\ msg.old = 3 /\ msg.new = 4 => u.state = "Playing"
    BY <1>8, UpdatedFields
  <2> HIDE DEF u
  <2> QED BY <1>8, <2>1 DEF u
<1>9. CASE m_PlayerState = "Finished"
  <2>1. /\ u.state \in {"Paused", "Stopped", "Playing", "Finished"}
        /\ u.pending \in {m_PlayerPendingState, "Unknown"}
        /\ u.state = "Playing" => msg.new = 4
        /\ u.pending = "Stopped" => u.state \in {"Playing", "Finished"}
        /\ msg.old = 3 /\ msg.new = 4 => u.state = "Playing"
    BY <1>9, UpdatedFields
  <2> HIDE DEF u
  <2> QED BY <1>9, <2>1 DEF u
<1> QED BY <1>3, <1>4, <1>5, <1>6, <1>7, <1>8, <1>9

\* The status changes with the state, along the table of PlayerStatus.
LEMMA UpdatedShows ==
  ASSUME TypeInv, UpdatePlayerState, msg \in Plays \/ msg \in Pauses, m_PlayerState # "Error",
         Shows(m_PlayerState, status)
  PROVE  Shows(m_PlayerState', status') /\ (status' # status => PS!Change)
<1> DEFINE u == Updated(msg.old, msg.new)
           s == u.state
<1> USE DEF READY, PAUSED, PLAYING
<1>1. /\ msg.old \in {2, 3, 4} /\ msg.new \in {3, 4} /\ (msg.new = 4 => msg.old = 3)
  BY DEF Plays, Pauses
<1>2. m_PlayerState \in PlayerStates /\ m_PlayerPendingState \in {"Unknown", "Paused", "Stopped"}
  BY DEF TypeInv
<1>3. /\ m_PlayerState' = s
      /\ status' = IF s # m_PlayerState /\ ~u.silent THEN StatusOf(s) ELSE status
  BY DEF UpdatePlayerState
<1>4. /\ m_PlayerState = "Unknown" => s \in {"Unknown", "Ready"} /\ ~u.silent
      /\ m_PlayerState = "Ready" => s \in {"Ready", "Playing"} /\ ~u.silent
      /\ m_PlayerState = "Playing" => s \in {"Playing", "Paused", "Stopped", "Stalled", "Finished"} /\ ~u.silent
      /\ m_PlayerState = "Paused" => s \in {"Paused", "Stopped", "Playing"} /\ ~u.silent
      /\ m_PlayerState = "Stopped" => s \in {"Paused", "Stopped", "Playing"} /\ ~u.silent
      /\ m_PlayerState = "Stalled" => s \in {"Stalled", "Paused", "Stopped", "Playing"} /\ ~u.silent
      /\ m_PlayerState = "Finished" =>
           s \in {"Finished", "Paused", "Stopped", "Playing"} /\ (s \in {"Paused", "Stopped"} => ~u.silent)
           /\ (s = "Playing" => u.silent)
  BY <1>1, <1>2, UpdatedFields
<1> HIDE DEF u, s
<1>5. Shows(m_PlayerState', status')
  BY <1>2, <1>3, <1>4 DEF Shows, StatusOf, PlayerStates
<1>6. status' # status => <<status, status'>> \in PS!Table
  BY <1>2, <1>3, <1>4 DEF Shows, StatusOf, PlayerStates, PS!Table
<1>7. status' # status => status' \in PS!Statuses
  BY <1>2, <1>3, <1>4 DEF Shows, StatusOf, PlayerStates, PS!Statuses
<1> QED BY <1>5, <1>6, <1>7 DEF PS!Change

LEMMA UpdateKeeps ==
  ASSUME IInv, UpdatePlayerState
  PROVE  IInv'
<1> DEFINE u == Updated(msg.old, msg.new)
<1>1. /\ pc["bus"] = "update" /\ pc' = [pc EXCEPT !["bus"] = "idle"] /\ msg' = Message("none")
      /\ m_PlayerState' = u.state /\ m_PlayerPendingState' = u.pending
      /\ status' = IF u.state # m_PlayerState /\ ~u.silent THEN StatusOf(u.state) ELSE status
      /\ IF Restarts(u.state) /\ m_fRate # 0
         THEN SetPipeline(PLAYING, {}) ELSE UNCHANGED <<pipeVars, bounds>>
      /\ UNCHANGED <<level, toCome, then, m_fRate>>
  BY DEF UpdatePlayerState, Goto, keepRest, bufVars
<1>2. /\ u.state \in PlayerStates /\ u.pending \in {m_PlayerPendingState, "Unknown"}
      /\ u.state = "Stalled" /\ m_PlayerState # "Stalled" =>
           m_PlayerState = "Playing" /\ u.pending = "Unknown" /\ msg.new = PAUSED
      /\ u.pending = "Stopped" /\ u.state \in Still =>
           m_PlayerState \in Still /\ m_PlayerPendingState = "Stopped"
      /\ msg \in Plays \/ msg \in Pauses =>
           /\ u.state = "Unknown" => m_PlayerState = "Unknown"
           /\ u.state = "Error" => m_PlayerState = "Error"
           /\ m_PlayerState = "Unknown" =>
                u.state = "Unknown" \/ (u.state = "Ready" /\ ~u.silent)
      /\ msg \in Pauses /\ u.state = "Playing" =>
           m_PlayerState = "Playing" /\ msg \notin Leaves /\ (msg \in Firsts \/ ~Requested)
      /\ msg \in Plays /\ u.state \in Still \union {"Ready"} =>
           m_PlayerState = "Paused" /\ m_PlayerPendingState = "Stopped"
  BY UpdatedTable DEF IInv
<1> HIDE DEF u
<1>3. /\ status \in PS!Statuses /\ status' \in PS!Statuses
      /\ status' # status => status' = StatusOf(u.state) /\ u.state \notin {"Finished", "Unknown"}
      /\ status' = "UNKNOWN" => status = "UNKNOWN"
      /\ m_PlayerState = "Unknown" /\ u.state = "Ready" /\ ~u.silent => status' = "READY"
  <2>1. status \in PS!Statuses
    BY DEF IInv, TypeInv
  <2> QED BY <1>1, <1>2, <2>1 DEF PS!Statuses, StatusOf, PlayerStates
<1>4. PipeOK(pipe') /\ bus' \in Seq(Messages) /\ races \subseteq races'
  <2>1. CASE Restarts(u.state) /\ m_fRate # 0
    BY <1>1, <2>1, SetPipelineFacts DEF IInv
  <2>2. CASE ~(Restarts(u.state) /\ m_fRate # 0)
    BY <1>1, <2>2 DEF IInv, TypeInv, pipeVars, bounds
  <2> QED BY <2>1, <2>2
<1>5. /\ pc' \in [{"user", "bus"} -> UserLabels \union BusLabels]
      /\ pc'["bus"] = "idle" /\ pc'["user"] = pc["user"] /\ "idle" \in BusLabels
  BY <1>1 DEF IInv, TypeInv, BusLabels
<1>6. TypeInv'
  BY <1>1, <1>2, <1>3, <1>4, <1>5 DEF IInv, TypeInv
<1>7. UserInv'
  BY <1>1, <1>2, <1>3, <1>5 DEF IInv, UserInv
<1>8. ASSUME OnTime' PROVE Core'
  <2>1. OnTime /\ msg \in Messages /\ msg \in Voids /\ bus \in Seq(Messages)
    BY <1>1, <1>4, <1>8, LineType DEF IInv, TypeInv, OnTime
  <2>2. Line \in Seq(Messages) /\ Line # <<>> /\ Head(Line) = msg /\ Tail(Line) = bus /\ Line' = bus'
    BY <1>1, <1>5, LineType DEF IInv, Line
  <2>3. \A A, B, E :
          /\ Some(Line, A) <=> msg \in A \/ Some(bus, A)
          /\ AtMostOne(Line, A) => AtMostOne(bus, A) /\ (msg \in A => ~Some(bus, A))
          /\ Answered(Line, A, B) => Answered(bus, A, B) /\ (msg \in A => Some(bus, B))
          /\ AnsweredBefore(Line, A, B, E) =>
               AnsweredBefore(bus, A, B, E) /\ (msg \in A => Preceded(bus, B, E))
    BY <2>2, TailSome
  <2>4. /\ pipe \in Shapes /\ pipe # Torn /\ ~flushing /\ m_PlayerState # "Error" /\ msg \notin Strange
        /\ ~Some(bus, Strange)
    BY <1>1, <2>1, <2>3 DEF IInv, Core, PipeInv
  <2>5. (msg \in Plays \/ msg \in Pauses) /\ (msg \in Plays <=> msg \notin Pauses)
    BY <2>1, <2>4, Subsets
  <2>6. /\ pipe # Fresh /\ (status = "UNKNOWN" => pipe = Paused) /\ ~Some(bus, Firsts)
        /\ status = "UNKNOWN" => m_PlayerState = "Unknown"
        /\ m_PlayerState = "Unknown" => status = "UNKNOWN"
        /\ status = "UNKNOWN" => ~Some(bus, Voids) /\ msg \notin Plays /\ ~Some(bus, Ends) /\ ~Some(bus, Plays)
        /\ msg \in Firsts => status = "UNKNOWN"
    <3>1. Some(Line, Voids) /\ (Some(bus, Firsts) => Some(bus, Voids))
      BY <2>1, <2>3, Subsets DEF Some
    <3>2. status = "UNKNOWN" => pipe = Paused /\ AtMostOne(Line, Voids)
      BY <2>1, <2>4, <3>1 DEF IInv, Core, EarlyInv
    <3>3. status = "UNKNOWN" => ~Some(bus, Voids)
      BY <2>1, <2>3, <3>2
    <3>4. Some(bus, Firsts) => status = "UNKNOWN"
      BY <2>1, <2>3 DEF IInv, Core, EarlyInv
    <3>5. pipe = Fresh => status = "UNKNOWN"
      BY <2>1 DEF IInv, Core, EarlyInv
    <3>6. pipe # Fresh
      BY <3>2, <3>5, ShapeFacts
    <3> QED BY <2>1, <2>3, <2>4, <3>1, <3>2, <3>3, <3>4, <3>6 DEF IInv, Core, EarlyInv
  <2>7. /\ AboutToPause => AboutToPause'
        /\ (NoPlay' => NoPlay) /\ (NoSeek' => NoSeek) /\ (Clean' => Clean /\ NoPlay)
    BY <1>1, <1>4, <1>5 DEF AboutToPause, Clean, NoPlay, NoSeek, OnTime
  \* what remains on the bus
  <2>8. /\ NoSeek /\ pipe \in {Paused, Seeking} =>
             Answered(bus, Plays, Leaves) /\ (u.state = "Playing" => Some(bus, Leaves) /\ Some(bus, Voids))
        /\ NoPlay /\ pipe = Playing =>
             /\ Answered(bus, Pauses, Plays) /\ (msg \in Pauses => Some(bus, Voids))
             /\ ~Some(bus, Voids) /\ u.state \in Still \union {"Ready"} => AboutToPause
    <3>1. /\ Some(bus, Leaves) => Some(bus, Voids)
          /\ Some(bus, Plays) => Some(bus, Voids)
      BY Subsets DEF Some
    <3>2. ASSUME NoSeek, pipe \in {Paused, Seeking}
          PROVE  Answered(bus, Plays, Leaves) /\ (u.state = "Playing" => Some(bus, Leaves))
      <4>1. /\ Answered(Line, Plays, Leaves)
            /\ Some(Line, Leaves) \/ (m_PlayerState = "Playing" => Requested)
        BY <3>2 DEF IInv, Core, SettleInv
      <4>2. Answered(bus, Plays, Leaves) /\ (msg \in Plays => Some(bus, Leaves))
        BY <2>3, <4>1
      <4>3. Some(Line, Leaves) <=> msg \in Leaves \/ Some(bus, Leaves)
        BY <2>3
      <4> QED BY <1>2, <2>5, <2>6, <4>1, <4>2, <4>3
    <3>3. ASSUME NoPlay, pipe = Playing
          PROVE  /\ Answered(bus, Pauses, Plays) /\ (msg \in Pauses => Some(bus, Plays))
                 /\ ~Some(bus, Voids) /\ u.state \in Still \union {"Ready"} => AboutToPause
      <4>1. Answered(Line, Pauses, Plays)
        BY <3>3 DEF IInv, Core, PlaysInv
      <4>2. Answered(bus, Pauses, Plays) /\ (msg \in Pauses => Some(bus, Plays))
        BY <2>3, <4>1
      <4>3. pipe.target = PLAYING
        BY <2>4, <3>3, ShapeFacts
      <4>4. m_PlayerPendingState = "Stopped" /\ m_PlayerState = "Paused" => AboutToPause
        BY <3>3, <4>3 DEF IInv, Core, StopInv, Still
      <4> QED BY <1>2, <2>5, <3>1, <4>2, <4>4
    <3> QED BY <3>1, <3>2, <3>3
  <2>11. ASSUME Clean
         PROVE  /\ Shows(u.state, status')
                /\ AnsweredBefore(bus, Pauses, Plays, Ends)
                /\ u.state \notin {"Playing", "Finished"} => msg \in Pauses /\ Preceded(bus, Plays, Ends)
                /\ u.pending = "Stopped" /\ u.state \in Still => pipe.target # PLAYING /\ ~Some(bus, Plays)
    <3>1. /\ Shows(m_PlayerState, status)
          /\ m_PlayerPendingState = "Stopped" /\ m_PlayerState \in Still =>
               pipe.target # PLAYING /\ ~Some(Line, Plays)
          /\ AnsweredBefore(Line, Pauses, Plays, Ends)
      BY <2>11 DEF IInv, Core, StatusInv
    <3>2. Shows(u.state, status')
      BY <1>1, <2>4, <2>5, <3>1, UpdatedShows DEF IInv
    <3>3. Some(Line, Plays) <=> msg \in Plays \/ Some(bus, Plays)
      BY <2>3
    <3>4. AnsweredBefore(bus, Pauses, Plays, Ends) /\ (msg \in Pauses => Preceded(bus, Plays, Ends))
      BY <2>3, <3>1
    <3>5. u.state \notin {"Playing", "Finished"} => msg \in Pauses
      BY <1>2, <2>4, <2>5, <2>6, <3>1, <3>3 DEF PlayerStates, Still
    <3> QED BY <1>2, <3>1, <3>2, <3>3, <3>4, <3>5
  <2>9. CASE ~(Restarts(u.state) /\ m_fRate # 0)
    <3>1. UNCHANGED <<pipe, bus, flushing>>
      BY <1>1, <2>9 DEF pipeVars
    <3>2. PipeInv'
      BY <1>1, <1>2, <1>5, <2>2, <2>4, <2>5, <3>1 DEF PipeInv
    <3>3. EarlyInv'
      <4>1. status' = "UNKNOWN" => AtMostOne(bus, Voids)
        BY <1>3, <2>6 DEF Some, AtMostOne
      <4> QED BY <1>1, <1>2, <1>3, <1>5, <2>2, <2>5, <2>6, <3>1, <4>1, ShapeFacts DEF EarlyInv
    <3>4. StopInv'
      BY <1>1, <1>2, <2>7, <3>1 DEF IInv, Core, StopInv
    <3>5. SettleInv'
      BY <1>1, <2>2, <2>7, <2>8, <3>1 DEF SettleInv
    <3>6. PlaysInv'
      BY <1>1, <2>2, <2>7, <2>8, <3>1 DEF PlaysInv
    <3>7. StatusInv'
      BY <1>1, <2>2, <2>7, <2>8, <2>11, <3>1 DEF StatusInv
    <3> QED BY <3>2, <3>3, <3>4, <3>5, <3>6, <3>7 DEF Core
  <2>10. CASE Restarts(u.state) /\ m_fRate # 0
    <3>1. u.state = "Stalled" /\ m_PlayerState = "Playing" /\ u.pending = "Unknown" /\ msg.new = PAUSED
      BY <1>2, <2>10 DEF Restarts
    <3>2. msg \in Pauses /\ status # "UNKNOWN" /\ status' # "UNKNOWN"
      <4>1. msg \notin Plays
        BY <3>1 DEF Plays, PAUSED, PLAYING
      <4> QED BY <1>3, <2>5, <2>6, <3>1, <4>1
    <3>3. /\ pipe' \in Shapes /\ pipe' \notin {Torn, Fresh, Paused, Seeking}
          /\ \/ pipe' = Playing /\ bus' = bus \o <<StateChanged(PAUSED, PLAYING, VOID)>>
             \/ bus' = bus /\ (pipe' = Playing => pipe = Playing)
          /\ flushing' = FALSE
      BY <1>1, <1>8, <2>4, <2>6, <2>10, PlayFacts, SetPipelineFacts DEF IInv
    <3>4. /\ ~Some(bus', Firsts) /\ ~Some(bus', Strange)
          /\ NoPlay /\ pipe' = Playing => Some(bus', Voids) /\ Answered(bus', Pauses, Plays)
          /\ AnsweredBefore(bus, Pauses, Plays, Ends) => AnsweredBefore(bus', Pauses, Plays, Ends)
          /\ Preceded(bus, Plays, Ends) => Preceded(bus', Plays, Ends)
      <4>1. CASE pipe' = Playing /\ bus' = bus \o <<StateChanged(PAUSED, PLAYING, VOID)>>
        BY <2>1, <2>4, <2>6, <4>1, PlayPosted
      <4>2. CASE bus' = bus /\ (pipe' = Playing => pipe = Playing)
        BY <2>4, <2>6, <2>8, <3>2, <4>2
      <4> QED BY <3>3, <4>1, <4>2
    <3>5. PipeInv'
      BY <1>1, <1>5, <2>2, <3>1, <3>3, <3>4 DEF PipeInv
    <3>6. EarlyInv'
      BY <1>1, <2>2, <3>1, <3>2, <3>3, <3>4 DEF EarlyInv
    <3>7. StopInv' /\ SettleInv'
      BY <1>1, <3>1, <3>3 DEF StopInv, SettleInv
    <3>8. PlaysInv'
      BY <2>2, <2>7, <3>4 DEF PlaysInv
    <3>9. StatusInv'
      BY <1>1, <2>2, <2>7, <2>11, <3>1, <3>4 DEF StatusInv
    <3> QED BY <3>5, <3>6, <3>7, <3>8, <3>9 DEF Core
  <2> QED BY <2>9, <2>10
<1>9. ~OnTime' => Core'
  BY DEF Core, PipeInv, EarlyInv, StopInv, SettleInv, PlaysInv, StatusInv, Clean, NoPlay, NoSeek
<1> QED BY <1>6, <1>7, <1>8, <1>9 DEF IInv

-----------------------------------------------------------------------------
(***************************************************************************)
(* The requests of Stop and Pause, and the other callbacks.                *)
(***************************************************************************)
LEMMA StopRequestKeeps ==
  ASSUME IInv, StopRequest
  PROVE  IInv'
<1>1. /\ pc["user"] = "stopping" /\ m_PlayerPendingState' = "Stopped" /\ races \subseteq races'
      /\ then' = "seek" /\ pc' = [pc EXCEPT !["user"] = "internalPause"]
      /\ UNCHANGED <<m_PlayerState, status, m_fRate, pipe, bus, flushing, level, toCome, msg>>
  BY DEF StopRequest, Goto, rateVars, pipeVars, bufVars
<1>2. /\ pc' \in [{"user", "bus"} -> UserLabels \union BusLabels] /\ "internalPause" \in UserLabels
      /\ pc'["bus"] = pc["bus"] /\ pc'["user"] = "internalPause"
  BY <1>1 DEF IInv, TypeInv, UserLabels
<1>3. Line' = Line
  BY <1>1, <1>2, LineSame
<1>4. m_fRate' # 0 /\ status # "UNKNOWN"
  BY <1>1 DEF IInv, UserInv
<1>5. AboutToPause' /\ Requested'
  BY <1>1, <1>2, <1>4 DEF AboutToPause, Requested
<1>6. TypeInv'
  BY <1>1, <1>2 DEF IInv, TypeInv, PS!Statuses
<1>7. UserInv'
  BY <1>1, <1>2, <1>4 DEF UserInv
<1>8. PipeInv' /\ EarlyInv'
  BY <1>1, <1>2, <1>3 DEF IInv, Core, PipeInv, EarlyInv, OnTime
<1>9. SettleInv'
  BY <1>1, <1>3, <1>5 DEF IInv, Core, SettleInv, NoSeek, OnTime
<1>10. StopInv' /\ PlaysInv'
  BY <1>1, <1>3, <1>5 DEF IInv, Core, StopInv, PlaysInv, NoPlay, OnTime
<1>11. StatusInv'
  <2>1. Clean' => Clean /\ (m_PlayerState \in Still => pipe.target # PLAYING /\ ~Some(Line, Plays))
    BY <1>1, UnhandledVoids DEF StopRequest, StopRace, If, Clean, NoPlay, OnTime, Still, IInv
  <2> QED BY <1>1, <1>3, <2>1 DEF IInv, Core, StatusInv
<1> QED BY <1>6, <1>7, <1>8, <1>9, <1>10, <1>11 DEF IInv, Core

LEMMA PauseRequestKeeps ==
  ASSUME IInv, PauseRequest
  PROVE  IInv'
<1>1. /\ pc["user"] = "pauseRequest" /\ races' = races
      /\ UNCHANGED <<m_StallOnPause, m_fRate, pipe, bus, flushing, level, toCome, then, msg>>
  BY DEF PauseRequest, rateVars, pipeVars, bufVars, bounds
<1>2. /\ ~AboutToPause /\ status # "UNKNOWN" /\ then \in {"idle", "seek", "rate0set"}
      /\ then \in UserLabels /\ "internalPause" \in UserLabels
  BY <1>1 DEF AboutToPause, IInv, UserInv, TypeInv, UserLabels
<1>3. CASE m_PlayerState \in {"Stopped", "Stalled"}
  <2>1. /\ m_PlayerState' = "Paused" /\ status' = "PAUSED" /\ pc' = [pc EXCEPT !["user"] = then]
        /\ m_PlayerPendingState' = m_PlayerPendingState
    BY <1>3 DEF PauseRequest, StatusOf, Goto
  <2>2. /\ pc' \in [{"user", "bus"} -> UserLabels \union BusLabels]
        /\ pc'["bus"] = pc["bus"] /\ pc'["user"] = then
    BY <1>2, <2>1 DEF IInv, TypeInv
  <2>3. Line' = Line
    BY <1>1, <2>2, LineSame
  <2>4. TypeInv'
    BY <1>1, <1>2, <2>1, <2>2 DEF IInv, TypeInv, PS!Statuses, PlayerStates
  <2>5. UserInv'
    BY <1>2, <2>1, <2>2 DEF UserInv
  <2>6. PipeInv'
    BY <1>1, <1>3, <2>1, <2>2, <2>3 DEF IInv, Core, PipeInv, OnTime
  <2>7. EarlyInv'
    BY <1>1, <1>2, <2>1, <2>3 DEF IInv, Core, EarlyInv, OnTime
  <2>8. StopInv' /\ PlaysInv'
    BY <1>1, <1>2, <1>3, <2>1, <2>3 DEF IInv, Core, StopInv, PlaysInv, NoPlay, OnTime, Still
  <2>9. SettleInv'
    BY <1>1, <2>1, <2>3 DEF IInv, Core, SettleInv, NoSeek, OnTime
  <2>10. StatusInv'
    BY <1>1, <1>3, <2>1, <2>3 DEF IInv, Core, StatusInv, Shows, Clean, NoPlay, OnTime, Still
  <2> QED BY <2>4, <2>5, <2>6, <2>7, <2>8, <2>9, <2>10 DEF IInv, Core
<1>4. CASE m_PlayerState \notin {"Stopped", "Stalled"}
  <2>1. /\ m_PlayerPendingState' = "Paused" /\ pc' = [pc EXCEPT !["user"] = "internalPause"]
        /\ UNCHANGED <<m_PlayerState, status>>
    BY <1>4 DEF PauseRequest, Goto
  <2>2. /\ pc' \in [{"user", "bus"} -> UserLabels \union BusLabels]
        /\ pc'["bus"] = pc["bus"] /\ pc'["user"] = "internalPause"
    BY <1>2, <2>1 DEF IInv, TypeInv
  <2>3. Line' = Line /\ Requested'
    BY <1>1, <2>1, <2>2, LineSame DEF Requested
  <2>4. TypeInv'
    BY <1>1, <1>2, <2>1, <2>2 DEF IInv, TypeInv, PS!Statuses
  <2>5. UserInv'
    BY <1>2, <2>1, <2>2 DEF UserInv
  <2>6. PipeInv' /\ EarlyInv'
    BY <1>1, <2>1, <2>2, <2>3 DEF IInv, Core, PipeInv, EarlyInv, OnTime
  <2>7. SettleInv'
    BY <1>1, <2>1, <2>3 DEF IInv, Core, SettleInv, NoSeek, OnTime
  <2>8. StopInv' /\ PlaysInv'
    BY <1>1, <1>2, <2>1, <2>3 DEF IInv, Core, StopInv, PlaysInv, NoPlay, OnTime
  <2>9. StatusInv'
    BY <1>1, <2>1, <2>3 DEF IInv, Core, StatusInv, Clean, NoPlay, OnTime
  <2> QED BY <2>4, <2>5, <2>6, <2>7, <2>8, <2>9 DEF IInv, Core
<1> QED BY <1>3, <1>4

LEMMA ChangeTypes ==
  ASSUME NEW m \in Messages
  PROVE  (m.type = "STATE_CHANGED" <=> m \in Changes) /\ (m \in Voids => m.type = "STATE_CHANGED")
BY DEF Messages, Changes, Voids, PlainTypes

\* A callback that only takes its message and moves the bus thread.
LEMMA CallbackKeeps ==
  ASSUME IInv, SinkReady \/ BufferNotFull \/ HLSBufferResume \/ HLSBufferStall
  PROVE  IInv'
<1>1. /\ pc["bus"] = "idle" /\ bus # <<>> /\ Taken /\ Head(bus).type # "STATE_CHANGED"
      /\ UNCHANGED <<m_PlayerState, m_PlayerPendingState, m_StallOnPause, status, m_fRate,
                     level, toCome, then, msg, races>>
  BY DEF SinkReady, BufferNotFull, HLSBufferResume, HLSBufferStall, Handles, keepPlayer, keepRest,
         player, rateVars, bufVars, bounds
<1>2. Head(bus) \in Messages
  BY <1>1 DEF IInv, TypeInv
<1>3. Head(bus) \notin Voids
  BY <1>1, <1>2, ChangeTypes
<1>4. pc \in [{"user", "bus"} -> UserLabels \union BusLabels]
  BY DEF IInv, TypeInv
<1>5. \E l \in {"idle", "play", "stall"} :
        pc' = [pc EXCEPT !["bus"] = l] /\ (l # "idle" => m_PlayerState # "Unknown")
  <2>1. CASE SinkReady \/ BufferNotFull
    <3>1. pc' = [pc EXCEPT !["bus"] = "idle"]
      BY <1>1, <1>4, <2>1 DEF SinkReady, BufferNotFull
    <3> QED BY <3>1
  <2>2. CASE HLSBufferResume
    BY <2>2 DEF HLSBufferResume, Goto
  <2>3. CASE HLSBufferStall
    BY <2>3 DEF HLSBufferStall, Goto
  <2> QED BY <2>1, <2>2, <2>3
<1>6. PICK l \in BusLabels \ {"update", "error"} :
        pc' = [pc EXCEPT !["bus"] = l] /\ (l # "idle" => m_PlayerState # "Unknown")
  BY <1>5 DEF BusLabels
<1> QED BY <1>1, <1>3, <1>6, BusTakes

LEMMA SuspendKeeps ==
  ASSUME IInv, HLSBufferSuspend
  PROVE  IInv'
<1>1. /\ UNCHANGED <<m_PlayerState, m_PlayerPendingState, status, m_fRate, pipeVars,
                     level, toCome, then, msg, races>>
      /\ m_StallOnPause' /\ pc' = [pc EXCEPT !["bus"] = "internalPause"] /\ pc["bus"] = "stall"
  BY DEF HLSBufferSuspend, keepRest, rateVars, bufVars, bounds, Goto
<1> QED BY <1>1, BusMoves DEF BusLabels

LEMMA EosKeeps ==
  ASSUME IInv, BusEos
  PROVE  IInv'
<1>1. /\ pc["bus"] = "idle" /\ bus # <<>> /\ bus' = Tail(bus) /\ Head(bus).type = "EOS"
      /\ m_PlayerState' = "Finished"
      /\ UNCHANGED <<m_PlayerPendingState, m_StallOnPause, status, m_fRate, pipe, flushing,
                     level, toCome, pc, then, msg, races>>
  BY DEF BusEos, Handles, Taken, keepRest, rateVars, bufVars, bounds
<1>2. bus \in Seq(Messages) /\ bus' \in Seq(Messages) /\ Head(bus) \in Messages
  BY <1>1 DEF IInv, TypeInv
<1>3. Head(bus) \notin Voids /\ Head(bus) \in Ends
  <2>1. Head(bus) \in [type : PlainTypes]
    BY <1>1, <1>2 DEF Messages, Changes
  <2> QED BY <1>1, <1>2, <2>1, ChangeTypes DEF Ends, Message
<1>4. Line = bus /\ Line' = Tail(bus)
  BY <1>1, LineTaken DEF IInv
<1>5. Keeps(Line, Line') /\ Some(Line, Ends)
  BY <1>2, <1>3, <1>1, <1>4, KeepsTail
<1>6. TypeInv'
  BY <1>1, <1>2 DEF IInv, TypeInv, PS!Statuses, PlayerStates
<1>7. UserInv'
  BY <1>1 DEF IInv, UserInv
<1>8. OnTime => status # "UNKNOWN" /\ pipe # Torn /\ m_PlayerState # "Error"
  BY <1>1, <1>5 DEF IInv, Core, EarlyInv, PipeInv
<1>9. PipeInv'
  BY <1>1, <1>5, <1>8 DEF IInv, Core, PipeInv, Keeps, OnTime
<1>10. EarlyInv'
  BY <1>1, <1>5, <1>8 DEF IInv, Core, EarlyInv, Keeps, OnTime
<1>11. StopInv'
  BY <1>1 DEF StopInv, Still
<1>12. SettleInv'
  BY <1>1, <1>5 DEF IInv, Core, SettleInv, Keeps, NoSeek, OnTime
<1>13. PlaysInv'
  BY <1>1, <1>5 DEF IInv, Core, PlaysInv, Keeps, NoPlay, OnTime, Still
\* the end comes only after the player was told to play
<1>14. StatusInv'
  <2>1. Preceded(Line, Plays, Ends) => Head(bus) \notin Ends
    BY <1>1, <1>2, <1>4, TailSome
  <2>2. Clean => m_PlayerState \in {"Playing", "Finished"}
    BY <1>3, <2>1 DEF IInv, Core, StatusInv
  <2>3. Clean' => Clean /\ status' = "PLAYING" /\ AnsweredBefore(Line', Pauses, Plays, Ends)
    BY <1>1, <1>5, <2>2 DEF IInv, Core, StatusInv, Shows, Clean, NoPlay, OnTime, Keeps
  <2> QED BY <1>1, <2>3 DEF StatusInv, Shows, Still
<1> QED BY <1>6, <1>7, <1>9, <1>10, <1>11, <1>12, <1>13, <1>14 DEF IInv, Core

LEMMA ErrorKeeps ==
  ASSUME IInv, BusError
  PROVE  IInv'
<1>1. /\ pc["bus"] = "idle" /\ bus # <<>> /\ pc' = [pc EXCEPT !["bus"] = "error"]
      /\ IF m_PlayerState # "Error" THEN TearDown ELSE Taken
      /\ UNCHANGED <<m_PlayerState, m_PlayerPendingState, m_StallOnPause, status, m_fRate,
                     level, toCome, then, msg, races>>
  BY DEF BusError, Handles, keepPlayer, keepRest, player, rateVars, bufVars, bounds, Goto
<1>2. /\ pc' \in [{"user", "bus"} -> UserLabels \union BusLabels] /\ "error" \in BusLabels
      /\ pc'["user"] = pc["user"] /\ pc'["bus"] = "error"
  BY <1>1 DEF IInv, TypeInv, BusLabels
<1>3. PipeOK(Torn)
  <2>1. Fits(NULL, VOID, VOID, NULL, "SUCCESS", "prerolled", "none")
    BY DEF Fits, NULL, VOID
  <2> QED BY <2>1, PipeTyped DEF Torn
<1>4. /\ bus' \in Seq(Messages) /\ PipeOK(pipe')
      /\ m_PlayerState # "Error" => pipe' = Torn /\ bus' = <<>> /\ flushing'
  <2>1. bus \in Seq(Messages) /\ PipeOK(pipe)
    BY DEF IInv, TypeInv
  <2>2. CASE m_PlayerState # "Error"
    BY <1>1, <1>3, <2>2 DEF TearDown, Down, Torn
  <2>3. CASE m_PlayerState = "Error"
    BY <1>1, <2>1, <2>3 DEF Taken
  <2> QED BY <2>2, <2>3
<1>5. TypeInv'
  BY <1>1, <1>2, <1>4 DEF IInv, TypeInv, PS!Statuses
<1>6. UserInv'
  BY <1>1, <1>2 DEF IInv, UserInv
<1>7. ASSUME OnTime' PROVE Core'
  <2>1. OnTime /\ m_PlayerState # "Error"
    BY <1>1, <1>7 DEF IInv, Core, PipeInv, OnTime
  <2>2. pipe' = Torn /\ bus' = <<>> /\ flushing' /\ Line' = <<>>
    BY <1>2, <1>4, <2>1 DEF Line
  <2>3. \A A, B, E : /\ ~Some(<<>>, A) /\ AtMostOne(<<>>, A)
                     /\ AnsweredBefore(<<>>, A, B, E) /\ Preceded(<<>>, B, E)
    BY EmptySome
  <2>4. PipeInv'
    BY <1>2, <2>2, <2>3 DEF PipeInv, Shapes
  <2>5. EarlyInv'
    BY <1>1, <1>2, <2>1, <2>2, <2>3, ShapeFacts DEF IInv, Core, EarlyInv
  <2>6. StopInv' /\ SettleInv' /\ PlaysInv'
    BY <2>2, ShapeFacts DEF StopInv, SettleInv, PlaysInv, NULL, PLAYING
  <2>7. StatusInv'
    BY <1>1, <2>2, <2>3, ShapeFacts DEF IInv, Core, StatusInv, Clean, NoPlay, OnTime, NULL, PLAYING
  <2> QED BY <2>4, <2>5, <2>6, <2>7 DEF Core
<1>8. ~OnTime' => Core'
  BY DEF Core, PipeInv, EarlyInv, StopInv, SettleInv, PlaysInv, StatusInv, Clean, NoPlay, NoSeek
<1> QED BY <1>5, <1>6, <1>7, <1>8 DEF IInv

LEMMA ErrorStateKeeps ==
  ASSUME IInv, BusErrorState
  PROVE  IInv'
<1>1. /\ pc["bus"] = "error" /\ pc' = [pc EXCEPT !["bus"] = "idle"]
      /\ m_PlayerState' = "Error" /\ status' \in {"HALTED", status}
      /\ UNCHANGED <<m_PlayerPendingState, m_StallOnPause, m_fRate, pipe, bus, flushing,
                     level, toCome, then, msg, races>>
  BY DEF BusErrorState, StatusOf, Goto, keepRest, rateVars, pipeVars, bufVars, bounds
<1>2. /\ pc' \in [{"user", "bus"} -> UserLabels \union BusLabels] /\ "idle" \in BusLabels
      /\ pc'["user"] = pc["user"] /\ pc'["bus"] = "idle"
  BY <1>1 DEF IInv, TypeInv, BusLabels
<1>3. TypeInv'
  BY <1>1, <1>2 DEF IInv, TypeInv, PS!Statuses, PlayerStates
<1>4. UserInv'
  BY <1>1, <1>2 DEF IInv, UserInv
<1>5. ASSUME OnTime' PROVE Core'
  <2>1. OnTime
    BY <1>1, <1>5 DEF OnTime
  <2>2. pipe' = Torn /\ bus' = <<>> /\ flushing' /\ Line' = <<>>
    BY <1>1, <1>2, <2>1 DEF IInv, Core, PipeInv, Line
  <2>3. \A A, B, E : /\ ~Some(<<>>, A) /\ AtMostOne(<<>>, A)
                     /\ AnsweredBefore(<<>>, A, B, E) /\ Preceded(<<>>, B, E)
    BY EmptySome
  <2>4. PipeInv'
    BY <1>1, <1>2, <2>2, <2>3 DEF PipeInv, Shapes
  <2>5. EarlyInv'
    BY <1>1, <1>2, <2>2, <2>3, ShapeFacts DEF EarlyInv
  <2>6. StopInv' /\ SettleInv' /\ PlaysInv'
    BY <2>2, ShapeFacts DEF StopInv, SettleInv, PlaysInv, NULL, PLAYING
  <2>7. StatusInv'
    BY <1>1, <2>2, <2>3, ShapeFacts DEF StatusInv, Shows, Still
  <2> QED BY <2>4, <2>5, <2>6, <2>7 DEF Core
<1>6. ~OnTime' => Core'
  BY DEF Core, PipeInv, EarlyInv, StopInv, SettleInv, PlaysInv, StatusInv, Clean, NoPlay, NoSeek
<1> QED BY <1>3, <1>4, <1>5, <1>6 DEF IInv

\* A message about the pipeline: the player follows it, or it is dropped.
LEMMA ChangedKeeps ==
  ASSUME IInv, PipelineStateChanged
  PROVE  IInv'
<1> DEFINE h == Head(bus)
           r == Tail(bus)
<1>1. /\ pc["bus"] = "idle" /\ bus # <<>> /\ Taken /\ bus' = r /\ h.type = "STATE_CHANGED"
      /\ UNCHANGED <<m_PlayerState, m_PlayerPendingState, m_StallOnPause, status, m_fRate, pipe, flushing,
                     level, toCome, then, races>>
      /\ IF Follows(h) THEN msg' = h /\ pc' = [pc EXCEPT !["bus"] = "update"] ELSE UNCHANGED <<msg, pc>>
  BY DEF PipelineStateChanged, Handles, Taken, keepPlayer, keepRest, player, rateVars, bufVars,
     bounds, Goto
<1>2. bus \in Seq(Messages) /\ h \in Messages /\ h \in Changes /\ r \in Seq(Messages)
  BY <1>1, TailAt, ChangeTypes DEF IInv, TypeInv
<1>3. pc \in [{"user", "bus"} -> UserLabels \union BusLabels] /\ pc["user"] \in UserLabels
  BY DEF IInv, TypeInv
<1>4. OnTime => pipe # Torn /\ m_PlayerState # "Error"
  BY <1>1 DEF IInv, Core, PipeInv
<1>5. (Requested <=> Requested') /\ (pc'["user"] = pc["user"] => (AboutToPause <=> AboutToPause'))
  BY <1>1 DEF Requested, AboutToPause
<1>6. CASE Follows(h)
  <2>1. /\ msg' = h /\ pc'["bus"] = "update" /\ pc'["user"] = pc["user"] /\ h \in Voids
        /\ pc' \in [{"user", "bus"} -> UserLabels \union BusLabels] /\ "update" \in BusLabels
    BY <1>1, <1>2, <1>3, <1>6 DEF Follows, Voids, BusLabels
  <2>2. Line' = Line
    BY <1>1, <2>1, LineInHand DEF IInv
  <2>3. Keeps(Line, Line')
    BY <2>2, LineType, KeepsSelf DEF IInv
  <2>4. TypeInv'
    BY <1>1, <1>2, <2>1 DEF IInv, TypeInv, PS!Statuses
  <2>5. UserInv'
    BY <1>1, <2>1 DEF IInv, UserInv
  <2>6. Core'
    BY <1>1, <1>4, <1>5, <2>1, <2>3, CoreKept DEF IInv
  <2> QED BY <2>4, <2>5, <2>6 DEF IInv
<1>7. CASE ~Follows(h) /\ h \notin Voids
  <2>1. UNCHANGED <<msg, pc>> /\ pc' = [pc EXCEPT !["bus"] = "idle"] /\ "idle" \in BusLabels \ {"update", "error"}
    BY <1>1, <1>3, <1>7 DEF BusLabels
  <2> QED BY <1>1, <1>7, <2>1, BusTakes
<1>8. CASE ~Follows(h) /\ h \in Voids
  <2>1. UNCHANGED <<msg, pc>>
    BY <1>1, <1>8
  <2>2. Line = bus /\ Line' = r
    BY <1>1, <2>1, LineTaken DEF IInv
  <2>3. TypeInv'
    BY <1>1, <1>2, <2>1 DEF IInv, TypeInv, PS!Statuses
  <2>4. UserInv'
    BY <1>1, <2>1 DEF IInv, UserInv
  <2>5. ASSUME OnTime PROVE Core'
    <3>1. \A A, B, E :
            /\ Some(Line, A) <=> h \in A \/ Some(r, A)
            /\ AtMostOne(Line, A) => AtMostOne(r, A)
            /\ Answered(Line, A, B) => Answered(r, A, B) /\ (h \in A => Some(r, B))
            /\ AnsweredBefore(Line, A, B, E) => AnsweredBefore(r, A, B, E) /\ (h \in A => Preceded(r, B, E))
      BY <1>1, <1>2, <2>2, TailSome
    <3>2. h \notin Strange /\ ~Some(r, Strange)
      BY <2>5, <3>1 DEF IInv, Core, PipeInv
    <3>3. h \in Plays \/ h \in Pauses
      BY <1>8, <3>2, Subsets
    <3> HIDE DEF h, r
    <3>4. m_PlayerState # "Unknown" => h \in Pauses /\ h \notin Leaves /\ ~Requested
      <4>1. m_PlayerState # "Unknown" => h.old = h.new
        BY <1>8 DEF Follows, Voids
      <4>2. m_PlayerState # "Unknown" /\ h.new = PAUSED => ~Requested
        BY <1>8, <4>1 DEF Follows, Voids, Requested
      <4> QED BY <3>3, <4>1, <4>2 DEF Plays, Pauses, Leaves, PAUSED, PLAYING
    <3>5. (Some(r, Leaves) => Some(r, Voids)) /\ (Some(r, Plays) => Some(r, Voids))
      BY Subsets DEF Some
    <3>6. OnTime' /\ (NoPlay' => NoPlay) /\ (NoSeek' => NoSeek) /\ (Clean' => Clean /\ NoPlay)
      BY <1>1, <2>5 DEF OnTime, NoPlay, NoSeek, Clean
    <3>7. PipeInv'
      BY <1>1, <1>4, <2>1, <2>2, <2>5, <3>2 DEF IInv, Core, PipeInv
    <3>8. EarlyInv'
      BY <1>1, <2>1, <2>2, <2>5, <3>1 DEF IInv, Core, EarlyInv
    <3>9. StopInv'
      BY <1>1, <1>5, <2>1, <3>6 DEF IInv, Core, StopInv
    <3>10. SettleInv'
      <4>1. NoSeek /\ pipe \in {Paused, Seeking} =>
              Answered(r, Plays, Leaves) /\ (m_PlayerState = "Playing" => Some(r, Leaves))
        BY <3>1, <3>4 DEF IInv, Core, SettleInv
      <4> QED BY <1>1, <2>2, <3>5, <3>6, <4>1 DEF SettleInv
    <3>11. PlaysInv'
      <4>1. pipe = Playing => m_PlayerState # "Unknown"
        BY <2>5, ShapeFacts DEF IInv, Core, EarlyInv
      <4>2. NoPlay /\ pipe = Playing => Answered(r, Pauses, Plays) /\ Some(r, Plays)
        BY <3>1, <3>4, <4>1 DEF IInv, Core, PlaysInv
      <4> QED BY <1>1, <2>2, <3>5, <3>6, <4>2 DEF PlaysInv
    <3>12. StatusInv'
      <4>1. m_PlayerState = "Unknown" => ~Some(r, Ends) /\ pipe # Playing
        BY <2>5, <3>1, ShapeFacts DEF IInv, Core, EarlyInv
      <4>2. ~Some(r, Ends) => Preceded(r, Plays, Ends)
        BY DEF Some, Preceded
      <4>3. Clean => /\ AnsweredBefore(r, Pauses, Plays, Ends)
                     /\ h \in Pauses => Preceded(r, Plays, Ends)
        BY <3>1 DEF IInv, Core, StatusInv
      <4>4. NoPlay /\ pipe = Playing /\ h \in Pauses => Some(r, Plays)
        BY <3>1 DEF IInv, Core, PlaysInv
      <4>5. Some(r, Plays) => Some(Line, Plays)
        BY <3>1
      <4> QED BY <1>1, <2>2, <3>4, <3>5, <3>6, <4>1, <4>2, <4>3, <4>4, <4>5 DEF IInv, Core,
                 StatusInv
    <3> QED BY <3>7, <3>8, <3>9, <3>10, <3>11, <3>12 DEF Core
  <2>6. ~OnTime => Core'
    BY <1>1 DEF Core, PipeInv, EarlyInv, StopInv, SettleInv, PlaysInv, StatusInv, Clean, NoPlay,
       NoSeek, OnTime
  <2> QED BY <2>3, <2>4, <2>5, <2>6 DEF IInv
<1> QED BY <1>6, <1>7, <1>8

-----------------------------------------------------------------------------
LEMMA IInvInit ==
  ASSUME Init
  PROVE  IInv
<1>1. /\ m_PlayerState = "Unknown" /\ m_PlayerPendingState = "Unknown" /\ ~m_StallOnPause
      /\ m_fRate = 1 /\ status = "UNKNOWN" /\ races = {} /\ bus = <<>> /\ flushing = FALSE
      /\ toCome = Segments /\ level = 0 /\ then = "idle" /\ msg = Message("none")
      /\ pc = [t \in {"user", "bus"} |-> "idle"]
  BY DEF Init
<1>2. pipe \in {Fresh, Seeking}
  BY DEF Init, Fresh, Seeking
<1>3. PipeOK(pipe)
  <2>1. /\ Fits(READY, PAUSED, PAUSED, PAUSED, "ASYNC", "waiting", "none")
        /\ Fits(PAUSED, PAUSED, PAUSED, PAUSED, "ASYNC", "waiting", "none")
    BY DEF Fits, READY, PAUSED
  <2> QED BY <1>2, <2>1, PipeTyped DEF Fresh, Seeking
<1>4. Line = <<>> /\ pc["bus"] = "idle" /\ pc["user"] = "idle"
  BY <1>1 DEF Line
<1>5. \A A, B, E : /\ ~Some(<<>>, A) /\ AtMostOne(<<>>, A) /\ Answered(<<>>, A, B)
                   /\ AnsweredBefore(<<>>, A, B, E) /\ Preceded(<<>>, B, E)
  BY EmptySome
<1>6. TypeInv
  BY <1>1, <1>3, <1>4, PlayerAssumption DEF TypeInv, PlayerStates, PS!Statuses, UserLabels,
     BusLabels
<1>7. UserInv
  BY <1>4 DEF UserInv
<1>8. PipeInv
  BY <1>1, <1>2, <1>4, <1>5, ShapeFacts DEF PipeInv, Shapes
<1>9. EarlyInv
  BY <1>1, <1>2, <1>4, <1>5 DEF EarlyInv
<1>10. StopInv /\ SettleInv /\ PlaysInv
  BY <1>1, <1>2, <1>4, <1>5, ShapeFacts DEF StopInv, SettleInv, PlaysInv
<1>11. StatusInv
  BY <1>1, <1>2, <1>4, <1>5, ShapeFacts DEF StatusInv, Shows, Still
<1> QED BY <1>6, <1>7, <1>8, <1>9, <1>10, <1>11 DEF IInv, Core

LEMMA IInvStutter ==
  ASSUME IInv, UNCHANGED vars
  PROVE  IInv'
<1>1. UNCHANGED <<m_PlayerState, m_PlayerPendingState, m_StallOnPause, status, m_fRate, pipe, bus, flushing,
                  level, toCome, pc, then, msg, races>>
  BY DEF vars, player, rateVars, pipeVars, bufVars, bounds
<1> QED BY <1>1 DEF IInv, TypeInv, UserInv, Core, PipeInv, EarlyInv, StopInv, SettleInv, PlaysInv,
           StatusInv, Line,
             OnTime, Clean, NoSeek, NoPlay, Requested, AboutToPause, PS!Statuses

\* The steps that set the status.
LEMMA StatusMoves ==
  ASSUME [Next]_vars, status' # status
  PROVE  PauseRequest \/ BusErrorState \/ UpdatePlayerState
<1>1. ASSUME NEW t \in {"user", "bus"}
      PROVE  ~(Play(t) \/ SetPlaying(t) \/ InternalPause(t) \/ SetPaused(t))
  BY DEF Play, SetPlaying, InternalPause, SetPaused, player
<1>2. ~PipelineStep /\ ~BufferStep /\ ~QueueUnderrun /\ ~ElementError
  BY DEF PipelineStep, BufferStep, Preroll, ContinueState, NewSegment, FindFull, PostFull,
     ReadSegment, EndOfSegments, SinksEos, QueueUnderrun, ElementError, bufUnchanged, player
<1>3. (\A op \in Ops : ~Call(op)) /\ ~(UNCHANGED vars)
  BY DEF Call, userVars, player, vars
<1>4. UserStep => PauseRequest
  BY <1>1 DEF UserStep, Stop, StopRequest, Pause, Seek, SeekPipeline, SeekResume, SeekPlay,
         SetRateZero, SetRateZeroDone, SetRate, SetRateDone, userVars, player
<1>5. BusStep => BusErrorState \/ UpdatePlayerState
  BY <1>1 DEF BusStep, SinkReady, PipelineStateChanged, BusEos, BusError, HLSBufferStall,
         HLSBufferSuspend, HLSBufferResume, BufferNotFull, keepPlayer, player
<1>6. ~PulseStep
  BY DEF PulseStep, Finish, FinishPause, FinishPaused, player
<1> QED BY <1>2, <1>3, <1>4, <1>5, <1>6 DEF Next

\* The timer is started by Java, which waits for the player to be READY.
PulseInv == pulse # "idle" => status # "UNKNOWN"

LEMMA PulseInvNext ==
  ASSUME IInv, PulseInv, [Next]_vars
  PROVE  PulseInv'
<1>1. status # "UNKNOWN" => status' # "UNKNOWN"
  <2>1. m_PlayerState \in PlayerStates
    BY DEF IInv, TypeInv
  <2>2. CASE UpdatePlayerState
    <3>1. m_PlayerState' \in PlayerStates
      <4>1. IInv'
        BY <2>2, UpdateKeeps
      <4> QED BY <4>1 DEF IInv, TypeInv
    <3>2. status' \in {StatusOf(m_PlayerState'), status}
      BY <2>2 DEF UpdatePlayerState
    <3> QED BY <3>1, <3>2 DEF StatusOf, PlayerStates
  <2>3. CASE PauseRequest \/ BusErrorState
    BY <2>3 DEF PauseRequest, BusErrorState, StatusOf
  <2>4. CASE status' = status
    BY <2>4
  <2> QED BY <2>2, <2>3, <2>4, StatusMoves
<1>2. pulse' = pulse \/ PulseStep
  <2>1. ASSUME NEW t \in {"user", "bus"}, Play(t) \/ SetPlaying(t) \/ InternalPause(t) \/ SetPaused(t)
        PROVE  pulse' = pulse
    BY <2>1 DEF Play, SetPlaying, InternalPause, SetPaused
  <2>2. CASE PipelineStep \/ BufferStep \/ QueueUnderrun \/ ElementError
    BY <2>2 DEF PipelineStep, BufferStep, Preroll, ContinueState, NewSegment, FindFull, PostFull,
       ReadSegment, EndOfSegments, SinksEos, QueueUnderrun, ElementError, bufUnchanged
  <2>3. CASE (\E op \in Ops : Call(op)) \/ UNCHANGED vars
    BY <2>3 DEF Call, userVars, vars
  <2>4. CASE UserStep
    BY <2>1, <2>4 DEF UserStep, Stop, StopRequest, Pause, PauseRequest, Seek, SeekPipeline,
       SeekResume, SeekPlay, SetRateZero, SetRateZeroDone, SetRate, SetRateDone, userVars
  <2>5. CASE BusStep
    BY <2>1, <2>5 DEF BusStep, SinkReady, PipelineStateChanged, UpdatePlayerState, BusEos, BusError,
       BusErrorState, HLSBufferStall, HLSBufferSuspend, HLSBufferResume, BufferNotFull
  <2> QED BY <2>2, <2>3, <2>4, <2>5 DEF Next
<1>3. PulseStep /\ pulse' # "idle" => status # "UNKNOWN"
  BY DEF PulseInv, PulseStep, Finish, FinishPause, FinishPaused
<1> QED BY <1>1, <1>2, <1>3 DEF PulseInv

LEMMA IInvNext ==
  ASSUME IInv, PulseInv, [Next]_vars
  PROVE  IInv'
<1>1. CASE UNCHANGED vars
  BY <1>1, IInvStutter
<1>2. CASE PipelineStep
  BY <1>2, PrerollKeeps, ContinueKeeps DEF PipelineStep
<1>3. CASE BufferStep \/ QueueUnderrun \/ ElementError
  BY <1>3, BufferSteps, SinksEosKeeps DEF BufferStep
<1>4. CASE \E op \in Ops : Call(op)
  BY <1>4, CallKeeps
<1>5. ASSUME NEW t \in {"user", "bus"}, Play(t) \/ SetPlaying(t) \/ InternalPause(t) \/ SetPaused(t)
      PROVE  IInv'
  BY <1>5, PlayKeeps, SetPlayingKeeps, InternalPauseKeeps, SetPausedKeeps, RateZeroKeeps
<1>6. CASE UserStep
  <2>1. CASE Stop \/ Pause \/ Seek \/ SeekResume \/ SetRateZero \/ SetRateZeroDone \/ SetRateDone
    BY <2>1, UserKeeps
  <2>2. CASE StopRequest \/ PauseRequest
    BY <2>2, StopRequestKeeps, PauseRequestKeeps
  <2>3. CASE SeekPipeline \/ SetRate \/ SeekPlay
    BY <2>3, SeekKeeps, SeekPlayKeeps
  <2> QED BY <1>5, <1>6, <2>1, <2>2, <2>3 DEF UserStep
<1>7. CASE BusStep
  <2>1. CASE SinkReady \/ BufferNotFull \/ HLSBufferResume \/ HLSBufferStall \/ HLSBufferSuspend
    BY <2>1, CallbackKeeps, SuspendKeeps
  <2>2. CASE PipelineStateChanged \/ UpdatePlayerState
    BY <2>2, ChangedKeeps, UpdateKeeps
  <2>3. CASE BusEos \/ BusError \/ BusErrorState
    BY <2>3, EosKeeps, ErrorKeeps, ErrorStateKeeps
  <2> QED BY <1>5, <1>7, <2>1, <2>2, <2>3 DEF BusStep
<1>8. CASE PulseStep
  BY <1>8, PulseKeeps DEF PulseInv
<1> QED BY <1>1, <1>2, <1>3, <1>4, <1>6, <1>7, <1>8 DEF Next

LEMMA IInvAgrees ==
  ASSUME IInv
  PROVE  PlayerInv
<1>1. TypeOK
  BY DEF IInv, TypeInv, TypeOK, PipeOK
<1>2. ASSUME Quiet, races \intersect {"late", "seek", "play"} = {}
      PROVE  /\ m_PlayerState = "Playing" => pipe.state = PLAYING
             /\ m_PlayerState \in {"Ready", "Paused", "Stopped", "Stalled"} => pipe.state = PAUSED
             /\ m_PlayerState = "Error" => pipe.state = NULL
  <2>1. OnTime /\ NoSeek /\ NoPlay
    BY <1>2 DEF OnTime, NoSeek, NoPlay
  <2>2. pc["user"] = "idle" /\ pc["bus"] = "idle" /\ Line = <<>> /\ ~AboutToPause
    BY <1>2 DEF Quiet, Line, AboutToPause
  <2>3. \A A : ~Some(Line, A)
    BY <2>2, EmptySome
  <2>4. pipe \in {Torn, Paused, Playing} /\ (pipe = Torn <=> m_PlayerState = "Error")
    BY <1>2, <2>1, <2>2, ShapeFacts DEF Quiet, IInv, Core, PipeInv
  <2>5. pipe = Paused => m_PlayerState # "Playing"
    BY <2>1, <2>3 DEF IInv, Core, SettleInv
  <2>6. pipe = Playing => m_PlayerState \notin Still \union {"Ready"}
    BY <2>1, <2>2, <2>3 DEF IInv, Core, PlaysInv
  <2> QED BY <2>4, <2>5, <2>6, ShapeFacts DEF Still
<1> QED BY <1>1, <1>2 DEF PlayerInv, Agrees

\* UpdatePlayerState, SetPlayerState and the calls that make requests: for any
\* stream, any number of calls and faults, and any interleaving of the calls,
\* the callbacks and the changes of the pipeline, a player with no call, no
\* message and no change under way reports the state its pipeline is in, unless
\* a call came too late or was overtaken (races).
THEOREM PlayerAgreesWithPipeline == Spec => []PlayerInv
<1>1. Init => IInv /\ PulseInv
  BY IInvInit DEF Init, PulseInv
<1>2. IInv /\ PulseInv /\ [Next]_vars => IInv' /\ PulseInv'
  BY IInvNext, PulseInvNext
<1>3. IInv => PlayerInv
  BY IInvAgrees
<1> QED BY <1>1, <1>2, <1>3, PTL DEF Spec

\* What a step does to the status.
LEMMA StatusStep ==
  ASSUME IInv, [Next]_vars, races \intersect {"late", "play", "stop"} = {}, status' # status
  PROVE  PS!Change
<1>1. Clean /\ OnTime
  BY DEF Clean, NoPlay, OnTime
<1>2. Shows(m_PlayerState, status)
  BY <1>1 DEF IInv, Core, StatusInv
<1>3. CASE PauseRequest
  <2>1. m_PlayerState \in {"Stopped", "Stalled"} /\ status' = "PAUSED"
    BY <1>3 DEF PauseRequest, StatusOf
  <2> QED BY <1>2, <2>1 DEF PS!Change, PS!Table, PS!Statuses, Shows
<1>4. CASE BusErrorState
  <2>1. status' = "HALTED"
    BY <1>4 DEF BusErrorState, StatusOf
  <2> QED BY <2>1 DEF PS!Change, PS!Statuses
<1>5. CASE UpdatePlayerState
  <2>1. msg \in Voids /\ pc["bus"] = "update"
    BY <1>5 DEF UpdatePlayerState, IInv, TypeInv
  <2>2. Line \in Seq(Messages) /\ Line # <<>> /\ Head(Line) = msg
    BY <2>1, LineType DEF IInv
  <2>3. m_PlayerState # "Error" /\ ~Some(Line, Strange)
    BY <1>1, <2>1 DEF IInv, Core, PipeInv
  <2>4. Some(Line, Strange) <=> Head(Line) \in Strange \/ Some(Tail(Line), Strange)
    BY <2>2, TailSome
  <2>5. msg \in Plays \/ msg \in Pauses
    BY <2>1, <2>2, <2>3, <2>4, Subsets
  <2> QED BY <1>2, <1>5, <2>3, <2>5, UpdatedShows DEF IInv
<1> QED BY <1>3, <1>4, <1>5, StatusMoves

\* SetPlayerState and the events it sends: the status of MediaPlayer starts as
\* UNKNOWN and every change of it is one of those its documentation lists, for
\* any number of calls, stalls, errors and ends of the stream, unless a call
\* came too late, or a stop met a play that was under way (races).
THEOREM StatusFollowsTable == Spec => StatusTable
<1>1. Init => IInv /\ PulseInv /\ PS!Init
  BY IInvInit DEF Init, PS!Init, PulseInv
<1>2. IInv /\ PulseInv /\ [Next]_vars => IInv' /\ PulseInv'
  BY IInvNext, PulseInvNext
<1>3. IInv /\ [Next]_vars => [races \intersect {"late", "play", "stop"} = {} => PS!Change]_status
  BY StatusStep
<1> QED BY <1>1, <1>2, <1>3, PTL DEF Spec, StatusTable

(***************************************************************************)
(* The disposal of the player.                                             *)
(***************************************************************************)
DisposeUserLabels ==
  {"idle", "stopping", "lock", "sourceStore", "sourceTest", "disposed", "free", "delete"}
DisposeBusLabels ==
  {"idle", "pop", "enter", "enterError", "error", "tearDown", "setState", "handle", "exit",
   "unref", "unrefStore", "unrefTest", "notify"}
DisposeStreamLabels == {"idle", "enter", "callback", "exit", "ended"}

DisposeTypeInv ==
  /\ m_DisposeLock \in {"none"} \union Threads /\ stateLock \in {"none", "user", "bus"}
  /\ m_bIsDisposed \in BOOLEAN /\ m_bFreeMe \in BOOLEAN /\ freed \in 0..2
  /\ refs \in 0..2 /\ attached \in BOOLEAN /\ loaded \in [{"user", "bus"} -> 0..2]
  /\ down \in BOOLEAN /\ gone \in BOOLEAN
  /\ restarted \in BOOLEAN /\ overlapped \in BOOLEAN /\ misused \in BOOLEAN
  /\ at \in [Threads -> DisposeUserLabels \union DisposeBusLabels \union DisposeStreamLabels]
  /\ at["user"] \in DisposeUserLabels /\ at["bus"] \in DisposeBusLabels /\ at["stream"] \in DisposeStreamLabels

\* Dispose has dropped the source's reference and has let go of the lock.
Disposed == at["user"] \in {"free", "delete"} \/ gone

\* Each lock is held exactly at the positions between its Enter and its Exit.
LockInv ==
  /\ m_DisposeLock = "user" <=> at["user"] \in {"sourceStore", "sourceTest", "disposed"}
  /\ m_DisposeLock = "bus" <=> at["bus"] \in {"error", "tearDown", "setState", "handle", "exit"}
  /\ m_DisposeLock = "stream" <=> at["stream"] \in {"callback", "exit"}
  /\ stateLock = "user" <=> at["user"] = "stopping"
  /\ stateLock = "bus" <=> at["bus"] = "tearDown"

\* How far Dispose is, as the flags tell it; the streaming thread has ended when
\* Dispose takes the lock, unless a handler has started the pipeline again.
PhaseInv ==
  /\ gone => at["user"] = "idle"
  /\ attached <=> at["user"] \in {"stopping", "lock"} \/ (at["user"] = "idle" /\ ~gone)
  /\ m_bIsDisposed <=> Disposed
  /\ ~restarted /\ (~attached \/ at["user"] = "lock") => down /\ at["stream"] = "ended"
  /\ m_bIsDisposed => /\ at["bus"] \notin {"error", "tearDown", "setState", "handle"}
                      /\ at["stream"] # "callback"

\* The bus thread holds a reference to the callback.
Dispatching ==
  at["bus"] \in {"pop", "enter", "enterError", "error", "tearDown", "setState", "handle", "exit",
                 "unref", "unrefStore"}

\* While the source is attached, the count is that of the references.
AttachedInv ==
  attached => /\ refs = IF Dispatching THEN 2 ELSE 1
              /\ at["bus"] \in {"unrefStore", "unrefTest"} => loaded["bus"] = 2
              /\ at["bus"] # "notify" /\ ~m_bFreeMe /\ freed = 0

\* Dispose has loaded the count: if the bus thread held no reference it never
\* will, else Dispose does not find zero unless the two decrements overlap.
DroppingInv ==
  at["user"] = "sourceStore" =>
    /\ at["bus"] # "notify" /\ ~m_bFreeMe /\ freed = 0
    /\ \/ loaded["user"] = 1 /\ refs = 1 /\ at["bus"] \in {"idle", "unrefTest"}
       \/ loaded["user"] = 2 /\ refs = 2 /\ Dispatching
       \/ loaded["user"] = 2 /\ refs = 1 /\ at["bus"] \in {"idle", "unrefTest"} /\ overlapped
    /\ at["bus"] \in {"unrefStore", "unrefTest"} => loaded["bus"] = 2 /\ overlapped

\* Dispose has stored the count: the bus thread's decrement is still to come, or
\* was over when Dispose's began, or the two overlap.
TestingInv ==
  at["user"] = "sourceTest" =>
    /\ ~m_bFreeMe /\ freed = 0
    /\ ~overlapped => \/ loaded["user"] = 1 /\ refs = 0 /\ at["bus"] = "idle"
                      \/ /\ loaded["user"] = 2 /\ refs = 1
                         /\ Dispatching /\ at["bus"] # "unrefStore"

\* The bus thread never loads zero, and both may have loaded the same count.
LoadedInv ==
  /\ Dispatching => refs >= 1
  /\ at["bus"] \in {"unrefStore", "unrefTest"} => loaded["bus"] >= 1

\* Dispose has let go of its reference: who found zero frees, or tells the other
\* one to.
DroppedInv ==
  (at["user"] = "disposed" \/ Disposed) /\ ~overlapped =>
    \/ /\ refs = 0 /\ at["bus"] = "idle"
       /\ \/ at["user"] \in {"disposed", "free"} /\ m_bFreeMe /\ freed = 0
          \/ (at["user"] = "delete" \/ gone) /\ freed = 1
          \/ at["user"] # "free" /\ m_bIsDisposed /\ ~m_bFreeMe /\ freed = 1
    \/ /\ refs = 0 /\ at["bus"] \in {"unrefTest", "notify"} /\ ~m_bFreeMe /\ freed = 0
       /\ at["bus"] = "unrefTest" => loaded["bus"] = 1
    \/ /\ refs = 1 /\ Dispatching /\ ~m_bFreeMe /\ freed = 0
       /\ at["bus"] = "unrefStore" => loaded["bus"] = 1

\* Dispose frees the content only if it was told to, and each thread frees it at
\* most once; who frees it a second time uses it.
FreeInv ==
  /\ ~m_bIsDisposed => freed = 0
  /\ at["user"] = "free" => m_bFreeMe
  /\ at["user"] = "free" /\ at["bus"] # "idle" => freed = 0
  /\ at["user"] = "free" \/ at["bus"] # "idle" => freed <= 1
  /\ freed > 1 => misused

\* Freed content is used only if the decrements overlap or the pipeline restarts.
MisuseInv == misused => overlapped \/ restarted

DisposeIInv ==
  /\ DisposeTypeInv /\ LockInv /\ PhaseInv /\ AttachedInv /\ DroppingInv /\ TestingInv /\ LoadedInv
  /\ DroppedInv /\ FreeInv /\ MisuseInv

LEMMA ContentInit == DisposeInit => DisposeIInv
<1> SUFFICES ASSUME DisposeInit PROVE DisposeIInv
  OBVIOUS
<1>1. at["user"] = "idle" /\ at["bus"] = "idle" /\ at["stream"] = "idle"
  BY DEF DisposeInit, Threads
<1>2. DisposeTypeInv
  <2>1. loaded \in [{"user", "bus"} -> 0..2]
    BY DEF DisposeInit
  <2>2. at \in [Threads -> DisposeUserLabels \union DisposeBusLabels \union DisposeStreamLabels]
    BY DEF DisposeInit, DisposeUserLabels
  <2>3. at["user"] \in DisposeUserLabels /\ at["bus"] \in DisposeBusLabels /\ at["stream"] \in DisposeStreamLabels
    BY <1>1 DEF DisposeUserLabels, DisposeBusLabels, DisposeStreamLabels
  <2>4. /\ m_DisposeLock \in {"none"} \union Threads /\ stateLock \in {"none", "user", "bus"}
        /\ freed \in 0..2 /\ refs \in 0..2
    BY DEF DisposeInit
  <2>5. /\ m_bIsDisposed \in BOOLEAN /\ m_bFreeMe \in BOOLEAN /\ attached \in BOOLEAN
        /\ down \in BOOLEAN /\ gone \in BOOLEAN
    BY Zenon DEF DisposeInit
  <2>6. restarted \in BOOLEAN /\ overlapped \in BOOLEAN /\ misused \in BOOLEAN
    BY Zenon DEF DisposeInit
  <2> QED BY <2>1, <2>2, <2>3, <2>4, <2>5, <2>6 DEF DisposeTypeInv
<1>3. LockInv /\ PhaseInv /\ FreeInv /\ MisuseInv
  BY <1>1 DEF DisposeInit, LockInv, PhaseInv, FreeInv, MisuseInv, Disposed
<1>4. AttachedInv /\ DroppingInv /\ TestingInv /\ LoadedInv /\ DroppedInv
  BY <1>1 DEF DisposeInit, AttachedInv, DroppingInv, TestingInv, LoadedInv, DroppedInv, Disposed, Dispatching
<1> QED BY <1>2, <1>3, <1>4 DEF DisposeIInv

\* What a use of the content, a load of the count and a restart record.
LEMMA UseStep ==
  Use => /\ misused' \in BOOLEAN /\ (misused' <=> misused \/ freed > 0)
         /\ UNCHANGED <<restarted, overlapped>>
  BY Zenon DEF Use

LEMMA LoadStep ==
  ASSUME NEW t, NEW other, Load(t, other)
  PROVE  /\ overlapped' \in BOOLEAN /\ (overlapped' <=> overlapped \/ Unreferencing(other))
         /\ loaded' = [loaded EXCEPT ![t] = refs]
         /\ UNCHANGED <<refs, restarted, misused>>
  BY Zenon DEF Load

LEMMA RestartStep == BusSetState => restarted' \in BOOLEAN /\ (restarted' <=> restarted \/ down)
  BY Zenon DEF BusSetState

LEMMA ContentStep == DisposeIInv /\ [DisposeNext]_disposeVars => DisposeIInv'
<1> SUFFICES ASSUME DisposeIInv, [DisposeNext]_disposeVars PROVE DisposeIInv'
  OBVIOUS
<1> USE DEF DisposeIInv, DisposeTypeInv, LockInv, PhaseInv, Disposed, Dispatching, AttachedInv, DroppingInv,
            TestingInv, LoadedInv, DroppedInv, FreeInv, MisuseInv, Threads, DisposeUserLabels,
            DisposeBusLabels, DisposeStreamLabels, content, callback, stopVars, history, counts, Move
<1>1. CASE PostMessage
  BY <1>1 DEF PostMessage
<1>2. CASE Signal
  BY <1>2 DEF Signal
<1>3. CASE on_pad_added
  BY <1>3, UseStep DEF on_pad_added, Enter
<1>4. CASE PadAddedExit
  BY <1>4, UseStep DEF PadAddedExit, Exit
<1>5. CASE BusDispatch
  BY <1>5 DEF BusDispatch
<1>6. CASE BusPop
  BY <1>6 DEF BusPop
<1>7. CASE BusEnter
  BY <1>7, UseStep DEF BusEnter, Enter
<1>8. CASE BusSetState
  BY <1>8, RestartStep DEF BusSetState
<1>9. CASE BusErrorLock
  BY <1>9 DEF BusErrorLock, StateLock
<1>10. CASE BusErrorDown
  BY <1>10 DEF BusErrorDown, StreamStopped
<1>11. CASE BusExit
  BY <1>11, UseStep DEF BusExit, Exit
<1>12. CASE BusUnref
  BY <1>12, LoadStep DEF BusUnref, Unreferencing
<1>13. CASE BusUnrefStore
  BY <1>13 DEF BusUnrefStore, Store
<1>14. CASE BusUnrefTest
  BY <1>14 DEF BusUnrefTest, CountsSeen
<1>15. CASE BusCallbackDestroyNotify
  BY <1>15, UseStep DEF BusCallbackDestroyNotify
<1>16. CASE DisposeStop
  BY <1>16 DEF DisposeStop, StateLock
<1>17. CASE DisposeStopped
  BY <1>17 DEF DisposeStopped, StreamStopped
<1>18. CASE DisposeSource
  <2>1. /\ overlapped' \in BOOLEAN /\ (overlapped' <=> overlapped \/ Unreferencing("bus"))
        /\ loaded' = [loaded EXCEPT !["user"] = refs] /\ attached' = FALSE
        /\ UNCHANGED <<refs, restarted, misused>>
    BY <1>18, LoadStep DEF DisposeSource
  <2>2. LockInv' /\ PhaseInv'
    BY <1>18, <2>1 DEF DisposeSource, Enter
  <2>3. DisposeTypeInv' /\ AttachedInv' /\ FreeInv' /\ MisuseInv'
    BY <1>18, <2>1 DEF DisposeSource, Enter
  <2>4. DroppingInv'
    BY <1>18, <2>1 DEF DisposeSource, Enter, Unreferencing
  <2>5. TestingInv' /\ LoadedInv' /\ DroppedInv'
    BY <1>18, <2>1 DEF DisposeSource, Enter, Unreferencing
  <2> QED BY <2>2, <2>3, <2>4, <2>5
<1>19. CASE DisposeUnref
  BY <1>19 DEF DisposeUnref, Store
<1>20. CASE DisposeUnrefTest
  <2>1. PICK n \in CountsSeen("user") : m_bFreeMe' = (m_bFreeMe \/ n = 0)
    BY <1>20 DEF DisposeUnrefTest
  <2>2. m_bFreeMe' \in BOOLEAN /\ (m_bFreeMe' <=> m_bFreeMe \/ n = 0)
    BY <2>1, Zenon
  <2> QED BY <1>20, <2>1, <2>2 DEF DisposeUnrefTest, CountsSeen
<1>21. CASE DisposeExit
  BY <1>21, UseStep DEF DisposeExit, Exit
<1>22. CASE DisposeFree
  BY <1>22, UseStep DEF DisposeFree
<1>23. CASE Delete
  BY <1>23 DEF Delete
<1>24. CASE UNCHANGED disposeVars
  BY <1>24 DEF disposeVars
<1> QED
  BY <1>1, <1>2, <1>3, <1>4, <1>5, <1>6, <1>7, <1>8, <1>9, <1>10, <1>11, <1>12, <1>13, <1>14,
     <1>15, <1>16, <1>17, <1>18, <1>19, <1>20, <1>21, <1>22, <1>23, <1>24, Zenon
  DEF DisposeNext, StreamStep, MainLoopStep, DisposeStep

\* Dispose, BusCallback and BusCallbackDestroyNotify: for any number of messages
\* and callbacks, and whether or not the count is read again, the content they
\* share is freed at most once, no thread is about to use it when it was freed, no
\* callback runs in a player that was deleted and its pipeline has stopped, but
\* for the two exceptions of ContentSafe: decrements that overlap, a pipeline that
\* a handler has started again.
THEOREM ContentIsSafe == DisposeSpec => []ContentInv
<1>1. DisposeIInv => ContentInv
  BY DEF DisposeIInv, DisposeTypeInv, LockInv, PhaseInv, Disposed, Dispatching, AttachedInv,
     DroppingInv, TestingInv, LoadedInv, DroppedInv, FreeInv, MisuseInv, Threads,
     DisposeUserLabels, DisposeBusLabels, DisposeStreamLabels, ContentInv, ContentTypeOK, ContentSafe
<1> QED BY ContentInit, ContentStep, <1>1, PTL DEF DisposeSpec
================================================================================
