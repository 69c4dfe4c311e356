---------------------------- MODULE ProgressBuffer ----------------------------
(***************************************************************************)
(* Progressive download of the media player, push mode: the source element *)
(* (javasource.c, default mode) pushes a stream of known size into the     *)
(* element progressbuffer, which stores it in a file cache and pushes it   *)
(* downstream from a task of its own. A seek is answered from the cache    *)
(* when the position is there or will be soon (instant_seek), else passed  *)
(* on to the source.                                                       *)
(*                                                                         *)
(* Threads: the source's task (spc), the buffer's task (lpc), a thread     *)
(* that seeks (kpc) and the thread that disposes of the pipeline (dpc). A  *)
(* step ends where the code releases the element's lock or calls into      *)
(* another element. GStreamer is external: a task calls its function again *)
(* while it is started and holds the pad's stream lock until it is paused; *)
(* a flushing pad refuses data. Positions are counted in blocks.           *)
(***************************************************************************)
EXTENDS Integers, Sequences, FiniteSets

CONSTANTS
  Size,         \* the size of the stream
  BufferSize,   \* DEFAULT_BUFFER_SIZE
  Threshold,    \* the property "threshold", in percent
  Tolerances,   \* the values of bandwidth * wait_tolerance at a seek
  MaxSeeks,     \* bound on the seeks
  Refuses,      \* whether downstream may refuse data before its end (UNEXPECTED)
  Truncates,    \* whether the connection may end before Size
  Disposes      \* whether the pipeline may be disposed of

ASSUME BufferAssumption ==
  /\ Size \in Nat \ {0} /\ BufferSize \in Nat \ {0} /\ Threshold \in Nat
  /\ Tolerances \subseteq Nat /\ MaxSeeks \in Nat
  /\ Refuses \in BOOLEAN /\ Truncates \in BOOLEAN /\ Disposes \in BOOLEAN

VARIABLES
  \* struct _ProgressBuffer; sink_segment is [start, stop, last_stop]
  cache, cache_read_offset, pending_src_event, sink_segment, last_update,
  eos, unexpected, instant_seek, srcresult,
  \* the buffer's task: its state, where it is, the item in its hands
  loopTask, lpc, item, lres, skip,
  \* struct _JavaSource and its task
  pending, update, position, jsresult, jsTask, spc, sres,
  \* pads that are flushing: the buffer's sink pad, its source pad
  sinkFlushing, srcFlushing,
  \* the seeking thread and the position it seeks, the disposing thread
  kpc, target, dpc, seeks,
  \* history: what has come downstream (or was refused or skipped there) since
  \* the last flush or segment, the start of the segment announced to it, where
  \* the stream was last sought, whether an event of the source has been overtaken
  \* by a seek, and whether a seek that failed was to before the cache or has left
  \* the source out of step with it
  out, segmentOut, eosOut, base, raced, misplaced

bufVars == <<cache, cache_read_offset, sink_segment, last_update, unexpected>>
flagVars == <<eos, pending_src_event, instant_seek, srcresult>>
loopVars == <<loopTask, lpc, item, lres, skip>>
srcVars == <<pending, update, position, jsresult, jsTask, spc, sres>>
padVars == <<sinkFlushing, srcFlushing>>
ctlVars == <<kpc, target, dpc, seeks>>
outVars == <<out, segmentOut, eosOut, base, raced, misplaced>>
vars == <<bufVars, flagVars, loopVars, srcVars, padVars, ctlVars, outVars>>

FC == INSTANCE FileCache

None == [type |-> "none", start |-> 0]
EOS == [type |-> "EOS", start |-> 0]
NewSegment(start) == [type |-> "NEWSEGMENT", start |-> start]
Results == {"OK", "WRONG_STATE", "UNEXPECTED", "ERROR"}
Max2(a, b) == IF a > b THEN a ELSE b

Init ==
  /\ cache = FC!create_cache /\ cache_read_offset = 0 /\ pending_src_event = None
  /\ sink_segment = [start |-> 0, stop |-> -1, last_stop |-> 0] /\ last_update = 0
  /\ eos = FALSE /\ unexpected = FALSE /\ instant_seek = FALSE /\ srcresult = "OK"
  /\ loopTask = "none" /\ lpc = "idle" /\ item = None /\ lres = "OK" /\ skip = FALSE
  /\ pending = "NEWSEGMENT" /\ update = TRUE /\ position = 0 /\ jsresult = "OK"
  /\ jsTask = "started" /\ spc = "idle" /\ sres = "OK"
  /\ sinkFlushing = FALSE /\ srcFlushing = FALSE
  /\ kpc = "none" /\ target = 0 /\ dpc = "none" /\ seeks = 0
  /\ out = <<>> /\ segmentOut = -1 /\ eosOut = FALSE /\ base = 0 /\ raced = FALSE
  /\ misplaced = FALSE

\* g_cond_signal(add_cond): waited for by the buffer's task only.
SignalNobody == UNCHANGED lpc   \* Broken variant: the signal is missing.
SignalAdd == lpc' = IF lpc = "wait" THEN "woken" ELSE lpc

\* send_position_message on a segment: progress is told when it is mandatory or
\* has grown by more than the threshold, and only then is the task woken.
Percent(s) == (s.last_stop * 100) \div s.stop
\* Broken variant: the end of the stream does not wake the task either.
MessageOnProgressOnly(s, mandatory) ==
  IF Percent(s) - last_update > Threshold
  THEN last_update' = Percent(s) /\ SignalAdd
  ELSE UNCHANGED <<last_update, lpc>>
PositionMessage(s, mandatory) ==
  IF mandatory \/ Percent(s) - last_update > Threshold
  THEN last_update' = Percent(s) /\ SignalAdd
  ELSE UNCHANGED <<last_update, lpc>>

-----------------------------------------------------------------------------
(* The source's task: java_source_loop, with the calls into the buffer.     *)

Return(r) == spc' = "end" /\ sres' = r

SourceBegin ==
  /\ spc = "idle" /\ jsTask = "started"
  /\ IF jsresult = "OK"
     THEN /\ spc' = [NEWSEGMENT |-> "segment", EOS |-> "eos", UNKNOWN |-> "read"][pending]
          /\ UNCHANGED sres
     ELSE Return(jsresult)
  /\ UNCHANGED <<pending, update, position, jsresult, jsTask,
                 bufVars, flagVars, loopVars, padVars, ctlVars, outVars>>

\* SIGNAL_READ_NEXT_BLOCK: a block, or the end of the stream.
SourceRead ==
  /\ spc = "read"
  /\ \/ /\ position < Size
        /\ spc' = "chain" /\ UNCHANGED pending
     \/ /\ position = Size \/ (Truncates /\ position > 0)
        /\ pending' = "EOS" /\ spc' = "eos"
  /\ UNCHANGED <<update, position, jsresult, jsTask, sres,
                 bufVars, flagVars, loopVars, padVars, ctlVars, outVars>>

\* progress_buffer_chain: the block is stored unless the stream has ended.
progress_buffer_chain ==
  /\ spc = "chain"
  /\ position' = position + 1
  /\ LET s == [sink_segment EXCEPT !.last_stop = Max2(sink_segment.start, position + 1)]
     IN CASE sinkFlushing ->
               Return("WRONG_STATE") /\ UNCHANGED <<cache, sink_segment, last_update, lpc>>
          [] ~sinkFlushing /\ (eos \/ unexpected) ->
               Return("UNEXPECTED") /\ UNCHANGED <<cache, sink_segment, last_update, lpc>>
          [] ~sinkFlushing /\ ~eos /\ ~unexpected /\ s.stop < s.last_stop ->
               Return("ERROR") /\ sink_segment' = s /\ UNCHANGED <<cache, last_update, lpc>>
          [] OTHER ->
               /\ sink_segment' = s
               /\ cache' = FC!cache_write_buffer(cache, position)
               /\ PositionMessage(s, FALSE)
               /\ IF loopTask = "none" THEN spc' = "pad" /\ UNCHANGED sres ELSE Return("OK")
  /\ UNCHANGED <<cache_read_offset, unexpected, flagVars, loopTask, item, lres, skip,
                 pending, update, jsresult, jsTask, padVars, ctlVars, outVars>>

\* progress_buffer_create_sourcepad, after the first block, and
\* progress_buffer_activatepush_src(TRUE), which also drops the pending event.
SourcePad ==
  /\ spc = "pad" /\ Return("OK")
  /\ srcresult' = "OK" /\ eos' = FALSE /\ pending_src_event' = None /\ unexpected' = FALSE
  /\ loopTask' = "started"
  /\ UNCHANGED <<cache, cache_read_offset, sink_segment, last_update, instant_seek, lpc, item, lres,
                 skip, pending, update, position, jsresult, jsTask, padVars, ctlVars, outVars>>

\* Broken variant: the cache of a seek is not rewound.
SegmentNotRewound ==
  /\ spc = "segment" /\ pending' = "UNKNOWN"
  /\ IF sinkFlushing \/ eos
     THEN /\ Return("WRONG_STATE")
          /\ UNCHANGED <<cache, cache_read_offset, sink_segment, last_update, unexpected,
                         pending_src_event, instant_seek, lpc>>
     ELSE LET s == [start |-> position, stop |-> Size, last_stop |-> position]
          IN /\ unexpected' = FALSE /\ cache_read_offset' = position
             /\ UNCHANGED cache /\ sink_segment' = s /\ pending_src_event' = NewSegment(position)
             /\ instant_seek' = TRUE /\ PositionMessage(s, TRUE) /\ Return("OK")
  /\ UNCHANGED <<eos, srcresult, loopTask, item, lres, skip, update, position, jsresult, jsTask,
                 padVars, ctlVars, outVars>>

\* progress_buffer_sink_event and progress_buffer_enqueue_item, case
\* GST_EVENT_NEWSEGMENT: after EOS the event is refused.
SinkEventNewSegment ==
  /\ spc = "segment" /\ pending' = "UNKNOWN"
  /\ IF sinkFlushing \/ eos
     THEN /\ Return("WRONG_STATE")
          /\ UNCHANGED <<cache, cache_read_offset, sink_segment, last_update, unexpected,
                         pending_src_event, instant_seek, lpc>>
     ELSE LET last == IF update THEN Max2(position, sink_segment.last_stop) ELSE position
              s == [start |-> position, stop |-> Size, last_stop |-> last]
          IN /\ unexpected' = FALSE
             /\ IF update
                THEN cache' = FC!create_cache /\ UNCHANGED cache_read_offset
                ELSE /\ cache' = FC!cache_set_read_position(FC!cache_set_write_position(cache, 0), 0)
                     /\ cache_read_offset' = position
             /\ sink_segment' = s
             /\ pending_src_event' = NewSegment(position)
             /\ instant_seek' = TRUE
             /\ PositionMessage(s, TRUE)
             /\ Return("OK")
  /\ UNCHANGED <<eos, srcresult, loopTask, item, lres, skip, update, position, jsresult, jsTask,
                 padVars, ctlVars, outVars>>

\* Case GST_EVENT_EOS: the stream ends where it has come to.
SinkEventEos ==
  /\ spc = "eos" /\ Return("UNEXPECTED")
  /\ IF sinkFlushing \/ eos
     THEN UNCHANGED <<eos, sink_segment, last_update, lpc, raced>>
     ELSE /\ eos' = TRUE
          /\ sink_segment' = [sink_segment EXCEPT !.stop =
                                IF sink_segment.last_stop < @ THEN sink_segment.last_stop ELSE @]
          /\ PositionMessage(sink_segment', TRUE)
          /\ raced' = (raced \/ kpc \in {"stop", "flag", "lock2"})
  /\ UNCHANGED <<cache, cache_read_offset, unexpected, pending_src_event, instant_seek, srcresult,
                 loopTask, item, lres, skip, pending, update, position, jsresult, jsTask,
                 padVars, ctlVars, out, segmentOut, eosOut, base, misplaced>>

\* The end of java_source_loop: the result is recorded unless a seek has set
\* WRONG_STATE meanwhile, and the task pauses itself when the flow has ended.
SourceEnd ==
  /\ spc = "end" /\ spc' = "idle"
  /\ LET r == IF jsresult = "OK" \/ sres # "OK" THEN sres ELSE jsresult
     IN /\ jsresult' = r /\ sres' = "OK"
        /\ jsTask' = IF r # "OK" /\ jsTask = "started" THEN "paused" ELSE jsTask
  /\ UNCHANGED <<pending, update, position, bufVars, flagVars, loopVars, padVars, ctlVars, outVars>>

Source ==
  \/ SourceBegin \/ SourceRead \/ progress_buffer_chain \/ SourcePad
  \/ SinkEventNewSegment \/ SinkEventEos \/ SourceEnd

-----------------------------------------------------------------------------
(* The buffer's task: progress_buffer_loop.                                 *)

\* With the lock, at next_item: wait, take the pending event or a buffer, or find
\* that the buffer does not flow.
LoopTake ==
  /\ (lpc = "idle" /\ loopTask = "started") \/ lpc \in {"woken", "next"}
  /\ LET c == FC!cache_read_buffer(cache)
         ready == FC!cache_has_enough_data(cache) /\ instant_seek
     IN \/ /\ srcresult = "OK" /\ pending_src_event = None /\ ~ready
           /\ lpc' = "wait"
           /\ UNCHANGED <<cache, unexpected, pending_src_event, srcresult, item, lres, skip, out>>
        \/ /\ srcresult = "OK" /\ pending_src_event # None
           /\ lpc' = "event" /\ item' = pending_src_event /\ pending_src_event' = None
           /\ srcresult' = IF pending_src_event = EOS THEN "UNEXPECTED" ELSE "OK"
           /\ lres' = srcresult'
           /\ skip' = (skip /\ pending_src_event = EOS)
           /\ UNCHANGED <<cache, unexpected, out>>
        \/ /\ srcresult = "OK" /\ pending_src_event = None /\ ready
           /\ cache' = c
           /\ pending_src_event' = IF c.read_position + cache_read_offset = sink_segment.stop
                                   THEN EOS ELSE None
           /\ LET blocks == FC!ReadBlocks(cache)
              IN IF skip THEN lpc' = "next" /\ out' = out \o blocks /\ UNCHANGED item
                 ELSE lpc' = "push" /\ item' = [type |-> "data", blocks |-> blocks] /\ UNCHANGED out
           /\ UNCHANGED <<unexpected, srcresult, lres, skip>>
        \/ /\ srcresult # "OK"
           /\ lpc' = "end"
           /\ unexpected' = (unexpected \/ skip)
           /\ lres' = IF skip THEN "OK" ELSE srcresult
           /\ UNCHANGED <<cache, pending_src_event, srcresult, item, skip, out>>
  /\ UNCHANGED <<cache_read_offset, sink_segment, last_update, eos, instant_seek, loopTask,
                 srcVars, padVars, ctlVars, segmentOut, eosOut, base, raced, misplaced>>

\* gst_pad_push_event: a flushing pad drops the event.
LoopPushEvent ==
  /\ lpc = "event" /\ lpc' = "end" /\ item' = None
  /\ IF item.type = "NEWSEGMENT" /\ ~srcFlushing
     THEN segmentOut' = item.start /\ out' = <<>> ELSE UNCHANGED <<segmentOut, out>>
  /\ eosOut' = (eosOut \/ (item = EOS /\ ~srcFlushing))
  /\ UNCHANGED <<bufVars, flagVars, loopTask, lres, skip, srcVars, padVars, ctlVars, base, raced,
                 misplaced>>

\* gst_pad_push: a flushing pad refuses the buffer, and what is downstream may
\* have played to the end of what it wants.
LoopPush ==
  /\ lpc = "push" /\ lpc' = "pushed" /\ item' = None
  /\ \/ srcFlushing /\ lres' = "WRONG_STATE" /\ UNCHANGED out
     \/ ~srcFlushing /\ lres' = "OK" /\ out' = out \o item.blocks
     \/ Refuses /\ ~srcFlushing /\ lres' = "UNEXPECTED" /\ out' = out \o item.blocks
  /\ UNCHANGED <<bufVars, flagVars, loopTask, skip, srcVars, padVars, ctlVars,
                 segmentOut, eosOut, base, raced, misplaced>>

\* With the lock: the result is recorded, whatever has been recorded meanwhile;
\* when downstream wants no more data, the task skips to the next event.
LoopResult ==
  /\ lpc = "pushed"
  /\ IF lres = "UNEXPECTED"
     THEN lpc' = "next" /\ skip' = TRUE /\ lres' = "OK" /\ UNCHANGED srcresult
     ELSE lpc' = "end" /\ srcresult' = lres /\ UNCHANGED <<lres, skip>>
  /\ UNCHANGED <<bufVars, eos, pending_src_event, instant_seek, loopTask, item, srcVars,
                 padVars, ctlVars, outVars>>

LoopEnd ==
  /\ lpc = "end" /\ lpc' = "idle" /\ lres' = "OK" /\ skip' = FALSE
  /\ loopTask' = IF lres # "OK" /\ loopTask = "started" THEN "paused" ELSE loopTask
  /\ UNCHANGED <<bufVars, flagVars, item, srcVars, padVars, ctlVars, outVars>>

Loop == LoopTake \/ LoopPushEvent \/ LoopPush \/ LoopResult \/ LoopEnd

-----------------------------------------------------------------------------
(* A seek: progress_buffer_perform_push_seek with GST_SEEK_FLAG_FLUSH, and  *)
(* java_source_perform_seek when the position is not in the cache.          *)

\* FLUSH_START goes downstream.
SeekStart ==
  /\ kpc = "none" /\ kpc' = "signal" /\ dpc = "none" /\ loopTask # "none" /\ seeks < MaxSeeks
  /\ srcFlushing' = TRUE
  /\ UNCHANGED <<bufVars, flagVars, loopVars, srcVars, sinkFlushing, target, dpc, seeks, outVars>>

SeekSignal ==
  /\ kpc = "signal" /\ kpc' = "lock"
  /\ srcresult' = "WRONG_STATE" /\ SignalAdd
  /\ UNCHANGED <<bufVars, eos, pending_src_event, instant_seek, loopTask, item, lres, skip, srcVars,
                 padVars, target, dpc, seeks, outVars>>

\* The read position and the event that announces it, once the cache is to serve
\* the seek to position p.
ServeFromCache(p) ==
  /\ instant_seek' = TRUE
  /\ cache' = FC!cache_set_read_position(cache, p - cache_read_offset)
  /\ pending_src_event' = NewSegment(p)

\* GST_PAD_STREAM_LOCK: the buffer's task has paused itself. Then, with the lock:
\* is the position in the cache, or not too far ahead?
SeekDecide ==
  /\ kpc = "lock" /\ lpc = "idle" /\ loopTask = "paused" /\ kpc' = "stop"
  /\ seeks' = seeks + 1 /\ srcresult' = "OK"
  /\ \E p \in 0 .. Size - 1, tolerance \in Tolerances :
       /\ target' = p /\ base' = p /\ raced' = (raced \/ pending = "NEWSEGMENT")
       /\ IF p >= sink_segment.start /\ p - sink_segment.last_stop <= tolerance
          THEN ServeFromCache(p) /\ UNCHANGED eos
          ELSE /\ instant_seek' = FALSE /\ eos' = FALSE /\ pending_src_event' = None
               /\ UNCHANGED cache
  /\ UNCHANGED <<cache_read_offset, sink_segment, last_update, unexpected, loopVars, srcVars,
                 padVars, dpc, out, segmentOut, eosOut, misplaced>>

\* FLUSH_STOP: downstream starts anew.
SeekStopFlush ==
  /\ kpc = "stop" /\ kpc' = IF instant_seek THEN "start" ELSE "flag"
  /\ srcFlushing' = FALSE
  /\ out' = <<>> /\ segmentOut' = -1 /\ eosOut' = FALSE
  /\ UNCHANGED <<bufVars, flagVars, loopVars, srcVars, sinkFlushing, target, dpc, seeks, base, raced,
                 misplaced>>

\* Broken variant: Java seeks while the source's task still reads.
SeekDataUnlocked ==
  /\ kpc = "lock2" /\ kpc' = "start"
  /\ pending' = "NEWSEGMENT" /\ position' = target /\ update' = FALSE
  /\ jsresult' = "OK" /\ jsTask' = "started"
  /\ UNCHANGED <<bufVars, flagVars, loopVars, spc, sres, padVars, target, dpc, seeks, outVars>>

\* java_source_perform_seek, without a flush.
SeekStopSource ==
  /\ kpc = "flag" /\ kpc' = "lock2"
  /\ jsresult' = "WRONG_STATE"
  /\ UNCHANGED <<bufVars, flagVars, loopVars, pending, update, position, jsTask, spc, sres, padVars,
                 target, dpc, seeks, outVars>>

\* The source goes on where the cache ends, in a segment that has not been cut off.
\* It does not after its NEWSEGMENT has been refused.
InStep ==
  position = cache_read_offset + cache.write_position /\ sink_segment.stop = Size

\* The source's task has paused itself; Java seeks in the connection, which fails
\* or succeeds. The task is started again in either case.
SeekData ==
  /\ kpc = "lock2" /\ spc = "idle" /\ jsTask = "paused"
  /\ \/ /\ pending' = "NEWSEGMENT" /\ position' = target /\ update' = FALSE
        /\ kpc' = "start" /\ UNCHANGED misplaced
     \/ /\ kpc' = "failed" /\ UNCHANGED <<pending, position, update>>
        /\ misplaced' = (misplaced \/ (pending = "UNKNOWN" /\ ~unexpected /\ ~InStep))
  /\ jsresult' = "OK" /\ jsTask' = "started"
  /\ UNCHANGED <<bufVars, flagVars, loopVars, spc, sres, padVars, target, dpc, seeks,
                 out, segmentOut, eosOut, base, raced>>

\* The source cannot seek: the cache has to serve the position after all.
SeekFailed ==
  /\ kpc = "failed" /\ kpc' = "start"
  /\ ServeFromCache(target)
  /\ misplaced' = (misplaced \/ target < cache_read_offset)
  /\ UNCHANGED <<cache_read_offset, sink_segment, last_update, unexpected, eos, srcresult, loopVars,
                 srcVars, padVars, target, dpc, seeks, out, segmentOut, eosOut, base, raced>>

SeekRestart ==
  /\ kpc = "start" /\ kpc' = "none"
  /\ loopTask' = "started"
  /\ UNCHANGED <<bufVars, flagVars, lpc, item, lres, skip, srcVars, padVars, target, dpc, seeks, outVars>>

Seek ==
  \/ SeekStart \/ SeekSignal \/ SeekDecide \/ SeekStopFlush \/ SeekStopSource \/ SeekData
  \/ SeekFailed \/ SeekRestart

-----------------------------------------------------------------------------
(* The pipeline goes to READY, from its sinks to its source: the pads of    *)
(* the buffer, its change of state, then the source's pad.                  *)

\* progress_buffer_activatepush_src(FALSE), up to gst_pad_stop_task; what is
\* downstream is inactive already.
DisposeSrcPad ==
  /\ Disposes /\ dpc = "none" /\ kpc = "none" /\ loopTask # "none" /\ dpc' = "sinkpad"
  /\ srcresult' = "WRONG_STATE" /\ SignalAdd
  /\ loopTask' = "stopped" /\ srcFlushing' = TRUE
  /\ UNCHANGED <<bufVars, eos, pending_src_event, instant_seek, item, lres, skip, srcVars,
                 sinkFlushing, kpc, target, seeks, outVars>>

\* gst_pad_stop_task has waited for the task; the sink pad becomes inactive.
DisposeSinkPad ==
  /\ dpc = "sinkpad" /\ lpc = "idle" /\ dpc' = "state"
  /\ sinkFlushing' = TRUE
  /\ UNCHANGED <<bufVars, flagVars, loopVars, srcVars, srcFlushing, kpc, target, seeks, outVars>>

\* Deactivating the sink pad waits for its stream lock; then the rest of
\* progress_buffer_change_state.
DisposeState ==
  /\ dpc = "state" /\ spc # "pad" /\ dpc' = "source"
  /\ srcresult' = "WRONG_STATE" /\ SignalAdd
  /\ last_update' = 0 /\ pending_src_event' = None
  /\ sink_segment' = [start |-> 0, stop |-> -1, last_stop |-> 0]
  /\ UNCHANGED <<cache, cache_read_offset, unexpected, eos, instant_seek, loopTask, item, lres, skip,
                 srcVars, padVars, kpc, target, seeks, outVars>>

\* java_source_activatepush(FALSE).
DisposeSource ==
  /\ dpc = "source" /\ dpc' = "join"
  /\ jsresult' = "WRONG_STATE" /\ jsTask' = "stopped"
  /\ UNCHANGED <<bufVars, flagVars, loopVars, pending, update, position, spc, sres, padVars,
                 kpc, target, seeks, outVars>>

DisposeJoin ==
  /\ dpc = "join" /\ spc = "idle" /\ dpc' = "disposed"
  /\ UNCHANGED <<bufVars, flagVars, loopVars, srcVars, padVars, kpc, target, seeks, outVars>>

Dispose == DisposeSrcPad \/ DisposeSinkPad \/ DisposeState \/ DisposeSource \/ DisposeJoin

Next == Source \/ Loop \/ Seek \/ Dispose

Spec == Init /\ [][Next]_vars

\* Every thread goes on, and Java answers; a seek and the disposal come if the
\* application wants them to, and are then carried through.
FairSpec ==
  /\ Spec /\ WF_vars(Source) /\ WF_vars(Loop)
  /\ WF_vars(Seek /\ kpc # "none") /\ WF_vars(Dispose /\ dpc # "none")

-----------------------------------------------------------------------------

\* Types; the positions of the file cache and of the segment stay within the stream
\* (the cache's, as long as the source is in step with it).
TypeOK ==
  /\ ~misplaced => {cache.read_position, cache.write_position} \subseteq 0 .. Size
  /\ sink_segment.start \in 0 .. Size /\ sink_segment.stop \in -1 .. Size
  /\ sink_segment.last_stop \in 0 .. Size /\ cache_read_offset \in 0 .. Size
  /\ pending_src_event \in {None, EOS} \cup {NewSegment(p) : p \in 0 .. Size}
  /\ {srcresult, jsresult, lres, sres} \subseteq Results
  /\ {loopTask, jsTask} \subseteq {"none", "started", "paused", "stopped"}
  /\ {eos, unexpected, instant_seek, skip, update, srcFlushing, sinkFlushing, eosOut, raced,
      misplaced}
       \subseteq BOOLEAN
  /\ position \in 0 .. Size

\* What arrives downstream is the stream from the position announced to it, without
\* a gap or a repetition, although the cache is rewound and overwritten in place
\* while the task reads it; after a seek nothing comes unannounced.
StreamInOrder ==
  ~srcFlushing /\ out # <<>> /\ ~misplaced =>
    /\ segmentOut = -1 => seeks = 0
    /\ \A i \in DOMAIN out : out[i] = Max2(segmentOut, 0) + i - 1

\* EOS arrives downstream only behind the last block of the segment, unless a later
\* segment of the source has taken its place since.
EosIsLast ==
  eosOut /\ ~srcFlushing /\ ~misplaced =>
    \/ Max2(segmentOut, 0) + Len(out) = sink_segment.stop
    \/ pending_src_event.type = "NEWSEGMENT"

\* After a seek the stream goes on at the position sought, unless the seek came
\* before the segment of an earlier one.
SeekReaches == ~srcFlushing /\ out # <<>> /\ ~raced /\ ~misplaced => out[1] = base

\* "This must never happen": a block does not lie behind the end of its segment, as
\* long as the source is in step with the cache.
NeverPastStop == ~misplaced => sres # "ERROR"

\* What progress_buffer_loop delivers is a well-formed stream: announced, then the
\* blocks in order, then EOS; and the cache is used within its bounds.
StreamInv == TypeOK /\ StreamInOrder /\ EosIsLast /\ NeverPastStop

\* The whole stream is delivered up to EOS, or the pipeline is disposed of, with
\* three exceptions: an event of the source overtaken by a seek, a failed seek that
\* misplaces the data, and a seek while the task skips data, which stops the source.
StreamEnds == []<>(eosOut \/ dpc # "none" \/ raced \/ misplaced \/ unexpected)

\* A seek is carried through: the buffer's task lets go of its stream lock, although
\* it may overwrite the result that tells it to, as long as the source goes on.
SeekReturns == kpc # "none" ~> (kpc = "none" \/ unexpected)

\* Disposing of the pipeline comes to an end: both tasks are unblocked and joined.
DisposeReturns == dpc # "none" ~> dpc = "disposed"

\* The calls of the application into the pipeline return.
CallsReturn == SeekReturns /\ DisposeReturns
=============================================================================
