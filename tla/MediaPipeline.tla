----------------------------- MODULE MediaPipeline -----------------------------
(***************************************************************************)
(* The player of an HLS stream, class CGstAudioPlaybackPipeline (with the  *)
(* streaming queue of CGstAVPlaybackPipeline), on a GStreamer pipeline     *)
(* (GstStates) and fed by the element hlsprogressbuffer.                   *)
(*                                                                         *)
(* Threads: the thread of the calls that Java makes ("user"), the timer of *)
(* the media pulse (pulse), which calls Finish, and the main loop that     *)
(* hands the messages of the pipeline's bus to BusCallback ("bus"). A step *)
(* ends where the code releases the state lock or calls into GStreamer.    *)
(* The pipeline changes its state, and the buffer fills and is read,       *)
(* concurrently. The buffer is reduced to the segments in it and the       *)
(* messages it posts (module HLSProgressBuffer has its threads); module    *)
(* PlayerDispose has the disposal of the player.                           *)
(***************************************************************************)
EXTENDS Integers, Sequences, FiniteSets, GstStates

CONSTANTS
  Segments,    \* the number of segments of the stream
  Slots,       \* NUM_OF_CACHED_SEGMENTS
  MaxOps,      \* bound on the calls
  Ops,         \* the calls of the user and of the timer ("finish")
  MaxFaults    \* bound on the underruns of the audio queue and the errors

ASSUME PlayerAssumption ==
  /\ Segments \in Nat \ {0} /\ Slots \in Nat \ {0} /\ MaxOps \in Nat /\ MaxFaults \in Nat
  /\ Ops \subseteq {"play", "pause", "stop", "seek", "finish", "rate0", "rate1"}

VARIABLES
  \* CGstAudioPlaybackPipeline
  m_PlayerState, m_PlayerPendingState, m_StallOnPause, m_bSeekInvoked, m_fRate,
  m_bResumePlayOnNonzeroRate, m_bHLSPBFull, m_bLastProgressValueEOS, sinksReady,
  \* the pipeline and its bus
  pipe, bus, flushing,
  \* the buffer: segments still to come and stored, whether the source waits
  \* for a slot, whether the end was announced, whether the sinks posted EOS
  toCome, level, source, ended, eosPosted,
  \* where the threads are, what the user's call continues with, the message
  \* in the hands of the bus thread, the local variable resume of SetRate
  pc, then, msg, resume,
  \* where the media-pulse timer is in Finish
  pulse,
  \* bounds and history: calls and faults so far, the status of the class
  \* MediaPlayer, and the races that have happened
  ops, faults, status, races

player == <<m_PlayerState, m_PlayerPendingState, m_StallOnPause, m_bSeekInvoked, status>>
rateVars == <<m_fRate, m_bResumePlayOnNonzeroRate, resume>>
bufFlags == <<m_bHLSPBFull, m_bLastProgressValueEOS>>
pipeVars == <<pipe, bus, flushing>>
bufVars == <<toCome, level, source, ended, eosPosted>>
bounds == <<ops, faults, races>>
vars == <<player, rateVars, bufFlags, sinksReady, pulse, pipeVars, bufVars,
          pc, then, msg, bounds>>

PlayerStates ==
  {"Unknown", "Ready", "Playing", "Paused", "Stopped", "Stalled", "Finished", "Error"}

Message(type) == [type |-> type]

Init ==
  /\ m_PlayerState = "Unknown" /\ m_PlayerPendingState = "Unknown"
  /\ m_StallOnPause = FALSE /\ m_bSeekInvoked = FALSE
  /\ m_fRate = 1 /\ m_bResumePlayOnNonzeroRate = FALSE /\ resume = FALSE
  /\ m_bHLSPBFull = FALSE /\ m_bLastProgressValueEOS = FALSE /\ sinksReady = {}
  \* the sinks are there, or have just been added to a pipeline that is PAUSED
  /\ \E s \in {READY, PAUSED} :
       pipe = Pipeline(s, PAUSED, PAUSED, PAUSED, "ASYNC", "waiting", "none")
  /\ bus = <<>> /\ flushing = FALSE
  /\ toCome = Segments /\ level = 0 /\ source = "runs" /\ ended = FALSE
  /\ eosPosted = FALSE
  /\ pc = [t \in {"user", "bus"} |-> "idle"] /\ then = "idle" /\ msg = Message("none")
  /\ pulse = "idle"
  /\ ops = 0 /\ faults = 0 /\ status = "UNKNOWN" /\ races = {}

\* gst_element_post_message: a flushing bus drops the messages.
Post(messages) == bus' = IF flushing THEN bus ELSE bus \o messages

Goto(t, label) == pc' = [pc EXCEPT ![t] = label]

\* Back from a procedure: the bus thread leaves its callback, the user's call goes on.
Return(t) == Goto(t, IF t = "bus" THEN "idle" ELSE then)

(***************************************************************************)
(* The pipeline.                                                           *)
(***************************************************************************)

\* Whether the sinks can get data, or learn that there is none.
HasData == level > 0 \/ ended

\* A race to be remembered.
If(condition, race) == IF condition THEN {race} ELSE {}

\* gst_element_set_state to PAUSED or PLAYING; a sink may lack data. It comes
\* too late ("late") if an error has torn the pipeline down.
SetPipeline(s, race) ==
  \E noData \in BOOLEAN :
    /\ pipe' = SetState(pipe, s, noData)
    /\ flushing' = FALSE
    /\ bus' = bus \o SetStateMessages(pipe, s, noData)
    /\ races' = races \union race \union If(pipe.state = NULL, "late")
    /\ UNCHANGED <<ops, faults>>

\* gst_element_set_state to NULL, which flushes the bus.
TearDown == pipe' = Down(pipe) /\ bus' = <<>> /\ flushing' = TRUE

\* All sinks have data: their own messages come first.
Preroll ==
  /\ pipe.sinks = "waiting" /\ HasData
  /\ pipe' = AsyncDone(pipe)
  /\ Post((IF m_PlayerState = "Unknown"
           THEN <<Message("AUDIO_SINK_READY"), Message("VIDEO_SINK_READY")>> ELSE <<>>)
          \o AsyncDoneMessages(pipe))
  /\ UNCHANGED <<player, rateVars, bufFlags, sinksReady, pulse, flushing, bufVars,
                 pc, then, bounds, msg>>

ContinueState ==
  /\ pipe.task = "continue"
  /\ pipe' = Continue(pipe)
  /\ Post(ContinueMessages(pipe))
  /\ UNCHANGED <<player, rateVars, bufFlags, sinksReady, pulse, flushing, bufVars,
                 pc, then, bounds, msg>>

(***************************************************************************)
(* The buffer and the queues behind it.                                    *)
(***************************************************************************)
bufUnchanged ==
  UNCHANGED <<player, rateVars, bufFlags, sinksReady, pulse, pipe, flushing,
              pc, then, msg>>

Consumes == pipe.state = PLAYING \/ pipe.sinks = "waiting"

\* A segment gets a slot, or the source is woken to use one: RESUME.
NewSegment ==
  /\ pipe.state # NULL /\ toCome > 0 /\ source = "runs" /\ level < Slots
  /\ toCome' = toCome - 1 /\ level' = level + 1
  /\ Post(<<Message("RESUME")>>)
  /\ UNCHANGED <<source, ended, eosPosted, bounds>> /\ bufUnchanged

\* No slot is free: the source posts FULL after it has released the lock,
FindFull ==
  /\ pipe.state # NULL /\ toCome > 0 /\ source = "runs" /\ level = Slots
  /\ source' = "full"
  /\ UNCHANGED <<toCome, level, ended, eosPosted, bus, bounds>> /\ bufUnchanged

\* and waits for the next slot to be freed.
PostFull ==
  /\ source = "full"
  /\ source' = IF level < Slots THEN "runs" ELSE "waits"
  /\ Post(<<Message("FULL")>>)
  /\ UNCHANGED <<toCome, level, ended, eosPosted, bounds>> /\ bufUnchanged

\* A segment was read to its end: NOT_FULL, and the waiting source is woken.
ReadSegment ==
  /\ Consumes /\ level > 0
  /\ level' = level - 1
  /\ source' = IF source = "waits" THEN "runs" ELSE source
  /\ Post(<<Message("NOT_FULL")>>)
  /\ UNCHANGED <<toCome, ended, eosPosted, bounds>> /\ bufUnchanged

EndOfSegments ==
  /\ pipe.state # NULL /\ toCome = 0 /\ ~ended
  /\ ended' = TRUE
  /\ Post(<<Message("HLS_EOS")>>)
  /\ UNCHANGED <<toCome, level, source, eosPosted, bounds>> /\ bufUnchanged

\* queue_underrun of the audio queue, which happens no more behind the EOS
QueueUnderrun ==
  /\ pipe.state = PLAYING /\ level = 0 /\ ~eosPosted /\ faults < MaxFaults
  /\ faults' = faults + 1
  /\ Post(<<Message("STALL")>>)
  /\ UNCHANGED <<bufVars, ops, races>> /\ bufUnchanged

\* The sinks have rendered everything.
SinksEos ==
  /\ pipe.state = PLAYING /\ pipe.sinks = "prerolled" /\ ended /\ level = 0 /\ ~eosPosted
  /\ eosPosted' = TRUE
  /\ Post(<<Message("EOS")>>)
  /\ UNCHANGED <<toCome, level, source, ended, bounds>> /\ bufUnchanged

\* An element reports an error it cannot go on from.
ElementError ==
  /\ faults < MaxFaults /\ pipe.state # NULL
  /\ faults' = faults + 1
  /\ Post(<<Message("ERROR")>>)
  /\ UNCHANGED <<bufVars, ops, races>> /\ bufUnchanged

(***************************************************************************)
(* Procedures of either thread: Play and InternalPause.                    *)
(***************************************************************************)

\* The changes of the pipeline that the bus thread has yet to handle.
Unhandled ==
  {m \in {msg} \union {bus[i] : i \in DOMAIN bus} :
     m.type = "STATE_CHANGED" /\ m.pending = VOID}

\* The test of Play, in the state lock.
ReadyToPlay ==
  \/ m_PlayerState \notin {"Finished", "Error", "Playing"}
  \/ m_PlayerState = "Playing" /\ (pipe.state = PAUSED \/ pipe.pending = PAUSED)

Play(t) ==
  /\ pc[t] = "play"
  /\ IF ReadyToPlay THEN Goto(t, "playing") ELSE Return(t)
  /\ UNCHANGED <<player, rateVars, bufFlags, sinksReady, pulse, pipeVars, bufVars,
                 then, bounds, msg>>

\* A player that does not play is Stopped at the end of the seek of Stop. A
\* play that comes before that overtakes the stop.
PlayRace ==
  If(m_PlayerPendingState = "Stopped" /\ m_PlayerState \in {"Paused", "Stopped", "Stalled"},
     "play")

SetPlaying(t) ==
  /\ pc[t] = "playing"
  /\ IF m_fRate = 0
     THEN m_bResumePlayOnNonzeroRate' = TRUE /\ UNCHANGED <<pipeVars, bounds>>
     ELSE SetPipeline(PLAYING, PlayRace) /\ UNCHANGED m_bResumePlayOnNonzeroRate
  /\ Return(t)
  /\ UNCHANGED <<player, m_fRate, resume, bufFlags, sinksReady, pulse, bufVars, then, msg>>

\* The test of InternalPause, in the state lock.
ReadyToPause ==
  /\ m_PlayerState # "Finished" \/ m_bSeekInvoked \/ m_PlayerPendingState = "Stopped"
  /\ m_PlayerState # "Error"

InternalPause(t) ==
  /\ pc[t] = "internalPause"
  /\ m_bSeekInvoked' = FALSE
  /\ IF ReadyToPause THEN Goto(t, "pausing") ELSE Return(t)
  /\ UNCHANGED <<m_PlayerState, m_PlayerPendingState, m_StallOnPause, status, rateVars,
                 bufFlags, sinksReady, pulse, pipeVars, bufVars, then, bounds, msg>>

\* A pause is told by its request (the pending state or m_StallOnPause), and
\* an earlier change that is yet to be handled takes the request for itself.
\* Without it, a pause during a seek is not noticed ("seek"), and that of
\* Finish is taken for a stall whose flag is set ("stall").
PauseRace(t) ==
  If(/\ pipe.state = PAUSED /\ pipe.target = PLAYING
     /\ Unhandled # {} \/ (m_PlayerPendingState = "Unknown" /\ ~m_StallOnPause), "seek")
  \union If(/\ t # "bus" /\ m_StallOnPause
            /\ Unhandled # {} \/ m_PlayerPendingState = "Unknown", "stall")

SetPaused(t) ==
  /\ pc[t] = "pausing"
  /\ IF m_fRate = 0
     THEN m_bResumePlayOnNonzeroRate' = FALSE /\ UNCHANGED <<pipeVars, bounds>>
     ELSE SetPipeline(PAUSED, PauseRace(t)) /\ UNCHANGED m_bResumePlayOnNonzeroRate
  /\ Return(t)
  /\ UNCHANGED <<player, m_fRate, resume, bufFlags, sinksReady, pulse, bufVars, then, msg>>

(***************************************************************************)
(* The calls of the user.                                                  *)
(***************************************************************************)

\* The status MediaPlayer derives from an event of the player; none is sent
\* for Unknown, and the end of the media leaves the status as it is.
StatusOf(state) ==
  CASE state = "Ready" -> "READY" [] state = "Playing" -> "PLAYING"
    [] state = "Paused" -> "PAUSED" [] state = "Stopped" -> "STOPPED"
    [] state = "Stalled" -> "STALLED" [] state = "Error" -> "HALTED"
    [] state \in {"Finished", "Unknown"} -> status

userVars == <<player, rateVars, bufFlags, sinksReady, pulse, pipeVars, bufVars>>

\* Java makes no call before the player was READY. Its method seek does nothing
\* in STOPPED, but play seeks first if the start time was set: a seek of its own
\* here, and possible in every state.
Call(op) ==
  /\ pc["user"] = "idle" /\ status # "UNKNOWN" /\ op \in Ops \ {"finish"}
  /\ ops < MaxOps
  /\ ops' = ops + 1
  /\ then' = "idle"
  /\ Goto("user", op)
  /\ UNCHANGED <<userVars, faults, races, msg>>

\* Stop: NativeMediaPlayer.stop seeks to the start afterwards.
Stop ==
  /\ pc["user"] = "stop"
  /\ IF m_PlayerState \in {"Stopped", "Error"}
     THEN Goto("user", "seek") /\ UNCHANGED m_bResumePlayOnNonzeroRate
     ELSE IF m_fRate = 0
     THEN m_bResumePlayOnNonzeroRate' = FALSE /\ Goto("user", "seek")
     ELSE Goto("user", "stopping") /\ UNCHANGED m_bResumePlayOnNonzeroRate
  /\ then' = "idle"
  /\ UNCHANGED <<player, m_fRate, resume, bufFlags, sinksReady, pulse, pipeVars, bufVars,
                 bounds, msg>>

\* A stop of a player that does not play yet, though its pipeline plays or is
\* about to, is honoured with the change to PLAYING.
StopRace ==
  If(/\ m_PlayerState \in {"Paused", "Stopped", "Stalled"}
     /\ pipe.target = PLAYING \/ \E m \in Unhandled : m.new = PLAYING, "stop")

StopRequest ==
  /\ pc["user"] = "stopping"
  /\ m_PlayerPendingState' = "Stopped" /\ races' = races \union StopRace
  /\ then' = "seek" /\ Goto("user", "internalPause")
  /\ UNCHANGED <<ops, faults, m_PlayerState, m_StallOnPause, m_bSeekInvoked, status,
                 rateVars, bufFlags, sinksReady, pulse, pipeVars, bufVars, msg>>

\* Pause, also called by SetRate(0): then is where the call goes on.
Pause ==
  /\ pc["user"] \in {"pause", "rate0pause"}
  /\ then' = IF pc["user"] = "pause" THEN "idle" ELSE "rate0set"
  /\ Goto("user", IF m_PlayerState \in {"Paused", "Error"} THEN then' ELSE "pauseRequest")
  /\ UNCHANGED <<player, rateVars, bufFlags, sinksReady, pulse, pipeVars, bufVars,
                 bounds, msg>>

\* Broken: a player that has not played is taken to Paused at once, too.
PauseRequestWhenReady ==
  /\ pc["user"] = "pauseRequest"
  /\ IF m_PlayerState \in {"Ready", "Stopped", "Stalled"}
     THEN /\ m_PlayerState' = "Paused" /\ status' = StatusOf("Paused")
          /\ Goto("user", then) /\ UNCHANGED m_PlayerPendingState
     ELSE /\ m_PlayerPendingState' = "Paused" /\ Goto("user", "internalPause")
          /\ UNCHANGED <<m_PlayerState, status>>
  /\ UNCHANGED <<m_StallOnPause, m_bSeekInvoked, rateVars, bufFlags, sinksReady, pulse,
                 pipeVars, bufVars, then, bounds, msg>>

PauseRequest ==
  /\ pc["user"] = "pauseRequest"
  /\ IF m_PlayerState \in {"Stopped", "Stalled"}
     THEN /\ m_PlayerState' = "Paused" /\ status' = StatusOf("Paused")
          /\ Goto("user", then) /\ UNCHANGED m_PlayerPendingState
     ELSE /\ m_PlayerPendingState' = "Paused" /\ Goto("user", "internalPause")
          /\ UNCHANGED <<m_PlayerState, status>>
  /\ UNCHANGED <<m_StallOnPause, m_bSeekInvoked, rateVars, bufFlags, sinksReady, pulse,
                 pipeVars, bufVars, then, bounds, msg>>

\* Seek: not in the states Unknown and Error
Seek ==
  /\ pc["user"] = "seek"
  /\ then' = "idle"
  /\ m_bSeekInvoked' = (m_bSeekInvoked \/ m_PlayerState = "Finished")
  /\ Goto("user", IF m_PlayerState \in {"Unknown", "Error"} THEN "idle" ELSE "seekPipeline")
  /\ UNCHANGED <<m_PlayerState, m_PlayerPendingState, m_StallOnPause, status, rateVars,
                 bufFlags, sinksReady, pulse, pipeVars, bufVars, bounds, msg>>

\* A flushing seek: the sinks lose their state, the buffer starts again.
FlushPipeline ==
  /\ pipe' = LostState(pipe) /\ Post(LostStateMessages(pipe))
  /\ toCome' = Segments /\ level' = 0 /\ source' = "runs" /\ ended' = FALSE
  /\ eosPosted' = FALSE
  /\ UNCHANGED flushing

\* It fails when the pipeline was torn down, and at rate zero, for which
\* gst_event_new_seek makes no event.
SeekPipeline ==
  /\ pc["user"] = "seekPipeline"
  /\ IF pipe.state = NULL \/ m_fRate = 0
     THEN Goto("user", "idle") /\ UNCHANGED <<pipeVars, bufVars>>
     ELSE Goto("user", "seekResume") /\ FlushPipeline
  /\ UNCHANGED <<player, rateVars, bufFlags, sinksReady, pulse, then, bounds, msg>>

\* The seek of a finished player resumes it.
SeekResume ==
  /\ pc["user"] = "seekResume"
  /\ Goto("user", IF m_PlayerState = "Finished" /\ m_PlayerPendingState # "Stopped"
                  THEN "seekPlay" ELSE "idle")
  /\ UNCHANGED <<userVars, then, bounds, msg>>

SeekPlay ==
  /\ pc["user"] = "seekPlay"
  /\ SetPipeline(PLAYING, {}) /\ Goto("user", "idle")
  /\ UNCHANGED <<player, rateVars, bufFlags, sinksReady, pulse, bufVars, then, msg>>

\* SetRate(0): whether to play again is decided before the player is paused.
SetRateZero ==
  /\ pc["user"] = "rate0"
  /\ resume' = (pipe.state = PLAYING \/ m_PlayerState = "Stalled")
  /\ Goto("user", IF m_PlayerState = "Error" \/ m_fRate = 0 THEN "idle" ELSE "rate0pause")
  /\ UNCHANGED <<player, m_fRate, m_bResumePlayOnNonzeroRate, bufFlags, sinksReady, pulse,
                 pipeVars, bufVars, then, bounds, msg>>

SetRateZeroDone ==
  /\ pc["user"] = "rate0set"
  /\ m_fRate' = 0 /\ m_bResumePlayOnNonzeroRate' = resume
  /\ Goto("user", "idle")
  /\ UNCHANGED <<player, resume, bufFlags, sinksReady, pulse, pipeVars, bufVars, then,
                 bounds, msg>>

\* SetRate of another rate: the rate is set, then the pipeline sought.
SetRate ==
  /\ pc["user"] = "rate1"
  /\ IF m_PlayerState = "Error" \/ m_fRate = 1
     THEN Goto("user", "idle") /\ UNCHANGED <<m_fRate, pipeVars, bufVars>>
     ELSE /\ m_fRate' = 1
          /\ IF pipe.state = NULL
             THEN Goto("user", "idle") /\ UNCHANGED <<pipeVars, bufVars>>
             ELSE Goto("user", "rate1done") /\ FlushPipeline
  /\ UNCHANGED <<player, m_bResumePlayOnNonzeroRate, resume, bufFlags, sinksReady, pulse,
                 then, bounds, msg>>

\* rateWasZero looks at the rate that was set meanwhile.
SetRateDone ==
  /\ pc["user"] = "rate1done"
  /\ then' = "idle"
  /\ Goto("user", IF m_fRate = 0 /\ m_bResumePlayOnNonzeroRate THEN "play" ELSE "idle")
  /\ UNCHANGED <<player, rateVars, bufFlags, sinksReady, pulse, pipeVars, bufVars,
                 bounds, msg>>

(***************************************************************************)
(* The timer of the media pulse calls Finish at the stop time.             *)
(***************************************************************************)
Finish ==
  /\ pulse = "idle" /\ status # "UNKNOWN" /\ "finish" \in Ops /\ ops < MaxOps
  /\ ops' = ops + 1
  /\ pulse' = IF m_PlayerState = "Playing" THEN "internalPause" ELSE "idle"
  /\ UNCHANGED <<player, rateVars, bufFlags, sinksReady, pipeVars, bufVars, pc, then, msg,
                 faults, races>>

FinishPause ==
  /\ pulse = "internalPause"
  /\ m_bSeekInvoked' = FALSE
  /\ pulse' = IF ReadyToPause THEN "pausing" ELSE "idle"
  /\ UNCHANGED <<m_PlayerState, m_PlayerPendingState, m_StallOnPause, status, rateVars,
                 bufFlags, sinksReady, pipeVars, bufVars, pc, then, bounds, msg>>

FinishPaused ==
  /\ pulse = "pausing" /\ pulse' = "idle"
  /\ IF m_fRate = 0
     THEN m_bResumePlayOnNonzeroRate' = FALSE /\ UNCHANGED <<pipeVars, bounds>>
     ELSE SetPipeline(PAUSED, PauseRace("pulse")) /\ UNCHANGED m_bResumePlayOnNonzeroRate
  /\ UNCHANGED <<player, m_fRate, resume, bufFlags, sinksReady, bufVars, pc, then, msg>>

(***************************************************************************)
(* The main loop and BusCallback.                                          *)
(***************************************************************************)
\* What a handler leaves alone unless it says otherwise.
keepPlayer == UNCHANGED <<player, rateVars>>
keepRest == UNCHANGED <<bufVars, then>>

\* The bus thread takes a message.
Handles(types) ==
  /\ pc["bus"] = "idle" /\ bus # <<>> /\ Head(bus).type \in types

Taken == bus' = Tail(bus) /\ UNCHANGED <<pipe, flushing>>

\* STATE_CHANGED of a sink: the player waits for both sinks to be PAUSED.
SinkReady ==
  /\ Handles({"AUDIO_SINK_READY", "VIDEO_SINK_READY"}) /\ Taken
  /\ sinksReady' = sinksReady \union {Head(bus).type}
  /\ keepPlayer /\ keepRest /\ UNCHANGED <<bufFlags, pulse, pc, msg, bounds>>

\* STATE_CHANGED of the pipeline: which of them the player follows.
Follows(m) ==
  /\ m.pending = VOID
  /\ \/ m.new # m.old /\ m_PlayerState # "Unknown"
     \/ /\ m_PlayerPendingState \in {"Stopped", "Paused"} \/ m_StallOnPause
        /\ m.new = PAUSED /\ m.old = PAUSED
     \/ /\ m_PlayerState = "Unknown" /\ Cardinality(sinksReady) = 2
        /\ m.new = PAUSED /\ m.old \in {READY, PAUSED}

PipelineStateChanged ==
  /\ Handles({"STATE_CHANGED"}) /\ Taken
  /\ IF Follows(Head(bus)) THEN msg' = Head(bus) /\ Goto("bus", "update")
     ELSE UNCHANGED <<msg, pc>>
  /\ keepPlayer /\ keepRest /\ UNCHANGED <<bufFlags, sinksReady, pulse, bounds>>

\* The player's state, pending state, m_StallOnPause and m_bSeekInvoked, and
\* whether the change is silent.
Same == [state |-> m_PlayerState, pending |-> m_PlayerPendingState,
         stall |-> m_StallOnPause, seek |-> m_bSeekInvoked, silent |-> FALSE]

\* A playing player's pipeline is PAUSED: as requested, or it stalls.
PausedWhilePlaying(otherwise) ==
  IF m_PlayerPendingState \in {"Stopped", "Paused"}
  THEN [Same EXCEPT !.state = m_PlayerPendingState, !.pending = "Unknown", !.stall = FALSE]
  ELSE IF m_StallOnPause THEN [Same EXCEPT !.state = "Stalled", !.stall = FALSE]
  ELSE [Same EXCEPT !.state = otherwise]

\* Broken: a pause during a seek is not noticed.
UpdatePlayingNoSeek(old, new) ==
  IF new = PAUSED /\ old = PLAYING THEN PausedWhilePlaying("Finished") ELSE Same

\* A change from PAUSED to PAUSED comes of a pause during a seek.
UpdatePlaying(old, new) ==
  IF new = PAUSED /\ old \in {PAUSED, PLAYING}
  THEN PausedWhilePlaying(IF old = PLAYING THEN "Finished" ELSE "Playing") ELSE Same

\* The requests honoured in a state where the pipeline is PAUSED already.
Honour(requests, otherwise) ==
  IF m_PlayerPendingState \in requests
  THEN [Same EXCEPT !.state = m_PlayerPendingState, !.pending = "Unknown"]
  ELSE otherwise

\* The pipeline went from PAUSED to new.
Followed(new) ==
  [Same EXCEPT !.state = CASE new = PLAYING -> "Playing" [] new = READY -> "Unknown"
                           [] OTHER -> m_PlayerState]

UpdateFinished(old, new) ==
  CASE new = PAUSED /\ m_PlayerPendingState = "Stopped" ->
         [Same EXCEPT !.state = "Stopped", !.pending = "Unknown", !.seek = FALSE]
    [] old = PAUSED /\ new = PAUSED /\ m_PlayerPendingState # "Stopped" ->
         [Same EXCEPT !.state = "Paused", !.seek = FALSE]
    [] old = PAUSED /\ new = PLAYING ->
         [Same EXCEPT !.state = "Playing", !.seek = FALSE, !.silent = TRUE]
    [] OTHER -> Same

Updated(old, new) ==
  CASE m_PlayerState = "Unknown" ->
         IF new = PAUSED /\ old \in {READY, PAUSED}
         THEN [Same EXCEPT !.state = "Ready"] ELSE Same
    [] m_PlayerState = "Ready" -> IF old = PAUSED THEN Followed(new) ELSE Same
    [] m_PlayerState = "Playing" -> UpdatePlaying(old, new)
    [] m_PlayerState = "Paused" ->
         IF old = PAUSED THEN Honour({"Stopped"}, Followed(new)) ELSE Same
    [] m_PlayerState = "Stopped" ->
         IF old = PAUSED
         THEN IF new = PAUSED THEN Honour({"Paused"}, Same) ELSE Followed(new) ELSE Same
    [] m_PlayerState = "Stalled" ->
         IF old # PAUSED THEN Same
         ELSE IF new = PLAYING THEN [Same EXCEPT !.state = "Playing"]
         ELSE IF new = PAUSED THEN Honour({"Stopped", "Paused"}, Same) ELSE Same
    [] m_PlayerState = "Finished" -> UpdateFinished(old, new)
    [] m_PlayerState = "Error" -> Same

\* Broken: a stall is not compared with the buffer.
RestartsAtEndOnly(state) ==
  state = "Stalled" /\ m_PlayerState # "Stalled" /\ m_bLastProgressValueEOS

\* SetPlayerState: a player that stalls although the buffer is full, or has
\* the end of the stream, plays on.
Restarts(state) ==
  state = "Stalled" /\ m_PlayerState # "Stalled" /\ (m_bLastProgressValueEOS \/ m_bHLSPBFull)

\* UpdatePlayerState and SetPlayerState, in the state lock
UpdatePlayerState ==
  /\ pc["bus"] = "update"
  /\ LET u == Updated(msg.old, msg.new) IN
       /\ m_PlayerState' = u.state /\ m_PlayerPendingState' = u.pending
       /\ m_StallOnPause' = u.stall /\ m_bSeekInvoked' = u.seek
       /\ status' = IF u.state # m_PlayerState /\ ~u.silent THEN StatusOf(u.state) ELSE status
       /\ IF Restarts(u.state) /\ m_fRate # 0
          THEN SetPipeline(PLAYING, {}) ELSE UNCHANGED <<pipeVars, bounds>>
       /\ m_bResumePlayOnNonzeroRate' =
            (m_bResumePlayOnNonzeroRate \/ (Restarts(u.state) /\ m_fRate = 0))
  /\ Goto("bus", "idle") /\ msg' = Message("none")
  /\ keepRest /\ UNCHANGED <<m_fRate, resume, bufFlags, sinksReady, pulse>>

\* EOS: only the first one counts.
BusEos ==
  /\ Handles({"EOS"}) /\ Taken
  /\ m_PlayerState' = "Finished"
  /\ m_bLastProgressValueEOS' = (m_bLastProgressValueEOS /\ m_PlayerState = "Finished")
  /\ keepRest
  /\ UNCHANGED <<m_PlayerPendingState, m_StallOnPause, m_bSeekInvoked, status, rateVars,
                 m_bHLSPBFull, sinksReady, pulse, pc, msg, bounds>>

\* ERROR: the pipeline is torn down first, then the player's state set.
BusError ==
  /\ Handles({"ERROR"})
  /\ IF m_PlayerState # "Error" THEN TearDown ELSE Taken
  /\ Goto("bus", "error")
  /\ keepPlayer /\ keepRest /\ UNCHANGED <<bufFlags, sinksReady, pulse, msg, bounds>>

\* The player is halted, unless the demultiplexer reported the error.
BusErrorState ==
  /\ pc["bus"] = "error"
  /\ m_PlayerState' = "Error" /\ status' \in {StatusOf("Error"), status}
  /\ Goto("bus", "idle")
  /\ keepRest
  /\ UNCHANGED <<m_PlayerPendingState, m_StallOnPause, m_bSeekInvoked, rateVars, bufFlags,
                 sinksReady, pulse, pipeVars, msg, bounds>>

\* HLSBufferStall: only a player whose pipeline plays can stall.
HLSBufferStall ==
  /\ Handles({"STALL"}) /\ Taken
  /\ Goto("bus", IF /\ m_PlayerState = "Playing" /\ pipe.state = PLAYING /\ pipe.pending = VOID
                    /\ ~m_bLastProgressValueEOS /\ ~m_bHLSPBFull
                 THEN "stall" ELSE "idle")
  /\ keepPlayer /\ keepRest /\ UNCHANGED <<bufFlags, sinksReady, pulse, msg, bounds>>

HLSBufferSuspend ==
  /\ pc["bus"] = "stall"
  /\ m_StallOnPause' = TRUE
  /\ Goto("bus", "internalPause")
  /\ keepRest
  /\ UNCHANGED <<m_PlayerState, m_PlayerPendingState, m_bSeekInvoked, status, rateVars,
                 bufFlags, sinksReady, pulse, pipeVars, msg, bounds>>

\* HLSBufferResume(false) for RESUME and FULL, HLSBufferResume(true) for HLS_EOS
HLSBufferResume ==
  /\ Handles({"RESUME", "FULL", "HLS_EOS"}) /\ Taken
  /\ m_bHLSPBFull' = (m_bHLSPBFull \/ Head(bus).type = "FULL")
  /\ m_bLastProgressValueEOS' = (m_bLastProgressValueEOS \/ Head(bus).type = "HLS_EOS")
  /\ Goto("bus", IF /\ \/ m_PlayerState = "Stalled"
                       \/ m_PlayerState = "Playing" /\ m_bLastProgressValueEOS'
                    /\ m_PlayerPendingState \notin {"Paused", "Stopped"}
                 THEN "play" ELSE "idle")
  /\ keepPlayer /\ keepRest /\ UNCHANGED <<sinksReady, pulse, msg, bounds>>

BufferNotFull ==
  /\ Handles({"NOT_FULL"}) /\ Taken
  /\ m_bHLSPBFull' = FALSE
  /\ keepPlayer /\ keepRest
  /\ UNCHANGED <<m_bLastProgressValueEOS, sinksReady, pulse, pc, msg, bounds>>

PipelineStep == Preroll \/ ContinueState
BufferStep == NewSegment \/ FindFull \/ PostFull \/ ReadSegment \/ EndOfSegments \/ SinksEos
UserStep ==
  \/ Play("user") \/ SetPlaying("user") \/ InternalPause("user") \/ SetPaused("user")
  \/ Stop \/ StopRequest \/ Pause \/ PauseRequest
  \/ Seek \/ SeekPipeline \/ SeekResume \/ SeekPlay
  \/ SetRateZero \/ SetRateZeroDone \/ SetRate \/ SetRateDone
BusStep ==
  \/ SinkReady \/ PipelineStateChanged \/ UpdatePlayerState
  \/ BusEos \/ BusError \/ BusErrorState
  \/ HLSBufferStall \/ HLSBufferSuspend \/ HLSBufferResume \/ BufferNotFull
  \/ Play("bus") \/ SetPlaying("bus") \/ InternalPause("bus") \/ SetPaused("bus")

PulseStep == Finish \/ FinishPause \/ FinishPaused

Next ==
  \/ PipelineStep \/ BufferStep \/ QueueUnderrun \/ ElementError
  \/ \E op \in Ops : Call(op)
  \/ UserStep \/ PulseStep \/ BusStep

Spec == Init /\ [][Next]_vars

(***************************************************************************)
(* Properties.                                                             *)
(***************************************************************************)
\* The state and the pending state of the player, the state of the pipeline
\* and the fill of the buffer (never more than NUM_OF_CACHED_SEGMENTS).
TypeOK ==
  /\ m_PlayerState \in PlayerStates /\ m_PlayerPendingState \in {"Unknown", "Paused", "Stopped"}
  /\ pipe \in Pipelines /\ level \in 0..Slots /\ toCome \in 0..Segments

\* Nothing is under way: no call, no callback, no message, no state change.
Quiet ==
  /\ pc = [t \in {"user", "bus"} |-> "idle"] /\ bus = <<>> /\ pulse = "idle"
  /\ pipe.pending = VOID /\ pipe.task = "none"

\* UpdatePlayerState, over any interleaving of calls, stalls, seeks and the
\* messages about them: when nothing is under way any more the state the
\* player reports is the state its pipeline is in.
Agrees ==
  Quiet /\ races \intersect {"late", "seek", "play"} = {} =>
    /\ m_PlayerState = "Playing" => pipe.state = PLAYING
    /\ m_PlayerState \in {"Ready", "Paused", "Stopped", "Stalled"} => pipe.state = PAUSED
    /\ m_PlayerState = "Error" => pipe.state = NULL

\* The state of the player has its type and agrees with the pipeline's.
PlayerInv == TypeOK /\ Agrees

\* What TLC explores: nothing is claimed of a player after the race "late".
OnTime == "late" \notin races

\* HLSBufferStall, HLSBufferResume and SetPlayerState: a stalled player does
\* not wait for a message that was handled before it had stalled: the buffer
\* will still post RESUME, FULL or HLS_EOS, the messages that resume it. The
\* exceptions are a pause of Finish taken for a stall, a pipeline torn down, and
\* rate zero.
StallHasWakeup ==
  Quiet /\ races \intersect {"stall", "late"} = {} /\ m_fRate # 0 /\ m_PlayerState = "Stalled" =>
    ~ended /\ (toCome = 0 \/ source # "waits")

PS == INSTANCE PlayerStatus

\* The events SetPlayerState sends take the status of MediaPlayer only along
\* the transitions its documentation lists (a step of PlayerStatus each).
StatusTable == PS!Init /\ [][races \intersect {"late", "play", "stop"} = {} => PS!Change]_status
================================================================================
