-------------------------- MODULE HLSProgressBuffer --------------------------
(***************************************************************************)
(* HTTP live streaming of the media player: the source element             *)
(* (javasource.c, HLS mode) pushes the segments of a playlist into the     *)
(* element hlsprogressbuffer, which keeps NumCached of them in a ring of   *)
(* file caches and pushes them downstream from a task of its own.          *)
(*                                                                         *)
(* Threads: the source's task (spc), the buffer's task (lpc), an           *)
(* application thread that seeks (kpc) and the thread that disposes of the *)
(* pipeline (dpc). A step ends where the code releases the element's lock, *)
(* reads a field without it, or calls into another element. GStreamer is   *)
(* external: a task calls its function again while it is started and holds *)
(* the pad's stream lock until it is paused; a flushing pad refuses data.  *)
(***************************************************************************)
EXTENDS Integers, Sequences, FiniteSets

CONSTANTS
  NumCached,    \* NUM_OF_CACHED_SEGMENTS
  Segments,     \* the segments of the playlist
  SegmentSize,  \* the blocks of one segment
  BufferSize,   \* DEFAULT_BUFFER_SIZE, in blocks
  MaxSeeks,     \* bound on the seeks of the application
  Disposes      \* whether the pipeline may be disposed of

ASSUME RingAssumption ==
  /\ NumCached \in Nat \ {0} /\ Segments \in Nat \ {0} /\ SegmentSize \in Nat \ {0}
  /\ BufferSize \in Nat \ {0} /\ MaxSeeks \in Nat /\ Disposes \in BOOLEAN

VARIABLES
  \* struct _HLSProgressBuffer
  cache, cache_size, cache_write_ready, cache_write_index, cache_read_index,
  send_new_segment, is_flushing, is_eos, srcresult,
  \* the buffer's task: its state, where it is, what it pushes, the flow result
  loopTask, lpc, buf, lres,
  \* struct _JavaSource and its task; of the playlist, the next block and what
  \* is left of the segment that is open
  pending, jsresult, jsTask, spc, sres, next, left,
  \* pads that are flushing: the buffer's sink pad, its source pad
  sinkFlushing, srcFlushing,
  \* the seeking and the disposing thread
  kpc, dpc, seeks,
  \* history: what has arrived downstream since the last flush, where the last seek
  \* has left the playlist, whether another thread has come into one of the Windows
  newSegmentOut, out, eosOut, base, raced,
  \* history: the last seek has failed in the middle of a segment; it has found no
  \* segment to come and is_eos still set; chain has used cache[-1]
  torn, stranded, wild

bufVars == <<cache, cache_size, cache_write_ready, cache_write_index, cache_read_index>>
flagVars == <<send_new_segment, is_flushing, is_eos, srcresult>>
loopVars == <<loopTask, lpc, buf, lres>>
srcVars == <<pending, jsresult, jsTask, spc, sres, next, left>>
padVars == <<sinkFlushing, srcFlushing>>
ctlVars == <<kpc, dpc, seeks>>
seekHist == <<torn, stranded, wild>>
outVars == <<newSegmentOut, out, eosOut, base, raced, seekHist>>
vars == <<bufVars, flagVars, loopVars, srcVars, padVars, ctlVars, outVars>>

FC == INSTANCE FileCache

Ring == 0 .. NumCached - 1
Total == Segments * SegmentSize
Block(n) == [epoch |-> seeks, n |-> n]
Results == {"OK", "WRONG_STATE", "UNEXPECTED"}

Init ==
  /\ cache = [i \in Ring |-> FC!create_cache] /\ cache_size = [i \in Ring |-> 0]
  /\ cache_write_ready = [i \in Ring |-> TRUE]
  /\ cache_write_index = -1 /\ cache_read_index = 0
  /\ send_new_segment = TRUE /\ is_flushing = FALSE /\ is_eos = FALSE /\ srcresult = "OK"
  /\ loopTask = "started" /\ lpc = "idle" /\ buf = <<>> /\ lres = "OK"
  /\ pending = "NEWSEGMENT" /\ jsresult = "OK" /\ jsTask = "started"
  /\ spc = "idle" /\ sres = "OK" /\ next = 1 /\ left = 0
  /\ sinkFlushing = FALSE /\ srcFlushing = FALSE
  /\ kpc = "none" /\ dpc = "none" /\ seeks = 0
  /\ newSegmentOut = FALSE /\ out = <<>> /\ eosOut = FALSE /\ base = 1 /\ raced = FALSE
  /\ torn = FALSE /\ stranded = FALSE /\ wild = FALSE

\* g_cond_signal: add_cond is waited for by the buffer's task only, del_cond by
\* the source's task only.
SignalAdd == lpc' = IF lpc = "wait" THEN "woken" ELSE lpc
SignalDel == spc' = IF spc = "wait" THEN "woken" ELSE spc

-----------------------------------------------------------------------------
(* The source's task: java_source_loop, with the calls into the buffer.     *)

\* The end of an iteration with flow result r.
Return(r) == spc' = "end" /\ sres' = r

\* An iteration begins; the pending event decides what it pushes.
SourceBegin ==
  /\ spc = "idle" /\ jsTask = "started"
  /\ IF jsresult = "OK"
     THEN /\ spc' = [NEWSEGMENT |-> "size", EOS |-> "eos", UNKNOWN |-> "read"][pending]
          /\ UNCHANGED sres
     ELSE Return(jsresult)
  /\ UNCHANGED <<pending, jsresult, jsTask, next, left,
                 bufVars, flagVars, loopVars, padVars, ctlVars, outVars>>

\* SIGNAL_READ_NEXT_BLOCK and gst_pad_push: the pad and hls_progress_buffer_chain
\* refuse a block while they are flushing and after EOS; is_flushing and is_eos
\* are read without the lock. At the end of the segment the next is requested.
SourceRead ==
  /\ spc = "read"
  /\ IF left = 0
     THEN pending' = "NEWSEGMENT" /\ spc' = "size" /\ UNCHANGED <<sres, next, left>>
     ELSE /\ next' = next + 1 /\ left' = left - 1 /\ UNCHANGED pending
          /\ IF sinkFlushing \/ is_flushing \/ is_eos
             THEN Return("WRONG_STATE") ELSE spc' = "chain" /\ UNCHANGED sres
  /\ UNCHANGED <<jsresult, jsTask, bufVars, flagVars, loopVars, padVars, ctlVars, outVars>>

\* The rest of hls_progress_buffer_chain. At index -1 it takes the field before the
\* array, del_cond, for a Cache: it writes to whatever descriptor lies there and,
\* if that succeeds, into the condition's memory. The block is lost, or the thread
\* does not come back; nothing is claimed of what follows.
hls_progress_buffer_chain ==
  /\ spc = "chain"
  /\ \/ /\ cache_write_index # -1
        /\ cache' = [cache EXCEPT ![cache_write_index] =
                       FC!cache_write_buffer(@, Block(next - 1))]
        /\ SignalAdd /\ Return("OK") /\ UNCHANGED wild
     \/ /\ cache_write_index = -1
        /\ wild' = TRUE /\ UNCHANGED cache
        /\ \/ SignalAdd /\ Return("OK")
           \/ spc' = "crashed" /\ UNCHANGED <<lpc, sres>>
  /\ UNCHANGED <<cache_size, cache_write_ready, cache_write_index, cache_read_index,
                 flagVars, loopTask, buf, lres, pending, jsresult, jsTask, next, left,
                 padVars, ctlVars, newSegmentOut, out, eosOut, base, raced, torn, stranded>>

\* SIGNAL_GET_STREAM_SIZE opens the next segment; a seek may have begun meanwhile.
SourceSize ==
  /\ spc = "size"
  /\ LET opened == next <= Total
     IN /\ left' = IF opened THEN SegmentSize ELSE 0
        /\ \/ jsresult = "WRONG_STATE" /\ Return("OK") /\ UNCHANGED pending
           \/ /\ jsresult # "WRONG_STATE" /\ UNCHANGED sres
              /\ spc' = IF opened THEN "segment" ELSE "eos"
              /\ pending' = IF opened THEN pending ELSE "EOS"
  /\ UNCHANGED <<jsresult, jsTask, next, bufVars, flagVars, loopVars, padVars, ctlVars, outVars>>

\* The EOS event reaches the buffer unless its pad is flushing.
SourceEos ==
  /\ spc = "eos"
  /\ IF sinkFlushing THEN Return("UNEXPECTED") ELSE spc' = "eos1" /\ UNCHANGED sres
  /\ UNCHANGED <<pending, jsresult, jsTask, next, left,
                 bufVars, flagVars, loopVars, padVars, ctlVars, outVars>>

\* hls_progress_buffer_sink_event, case GST_EVENT_EOS.
SinkEventEos ==
  /\ spc = "eos1"
  /\ is_eos' = TRUE
  /\ SignalAdd
  /\ Return("UNEXPECTED")
  /\ UNCHANGED <<bufVars, send_new_segment, is_flushing, srcresult, loopTask, buf, lres,
                 pending, jsresult, jsTask, next, left, padVars, ctlVars, outVars>>

\* Case GST_EVENT_NEWSEGMENT, up to the first unlock: a segment that comes when
\* the buffer does not flow is dropped.
SinkEventNewSegment ==
  /\ spc = "segment"
  /\ \/ /\ sinkFlushing
        /\ pending' = "UNKNOWN" /\ Return("WRONG_STATE")
     \/ /\ ~sinkFlushing /\ srcresult # "OK"
        /\ pending' = "UNKNOWN" /\ Return("OK")
     \/ /\ ~sinkFlushing /\ srcresult = "OK"
        /\ spc' = "seg1" /\ UNCHANGED <<pending, sres>>
  /\ UNCHANGED <<jsresult, jsTask, next, left, bufVars, flagVars, loopVars, padVars, ctlVars, outVars>>

\* Without the lock: the end of EOS restarts the task, and the first segment
\* after a flush is announced downstream.
SegmentAnnounce ==
  /\ spc = "seg1" /\ spc' = "seg2"
  /\ is_eos' = FALSE
  /\ srcresult' = IF is_eos THEN "OK" ELSE srcresult
  /\ loopTask' = IF is_eos /\ loopTask # "stopped" THEN "started" ELSE loopTask
  /\ send_new_segment' = FALSE
  /\ newSegmentOut' = (newSegmentOut \/ (send_new_segment /\ ~srcFlushing))
  /\ UNCHANGED <<bufVars, is_flushing, lpc, buf, lres, pending, jsresult, jsTask, sres, next, left,
                 padVars, ctlVars, out, eosOut, base, raced, seekHist>>

\* The segment gets the cache at index i (and the player is told to resume).
Prepare(i) ==
  /\ cache_size' = [cache_size EXCEPT ![i] = SegmentSize]
  /\ cache_write_ready' = [cache_write_ready EXCEPT ![i] = FALSE]
  /\ cache' = [cache EXCEPT ![i] =
                 FC!cache_set_read_position(FC!cache_set_write_position(@, 0), 0)]
  /\ pending' = "UNKNOWN" /\ Return("OK")

\* With the lock again: the next cache of the ring is taken if it is free (or the
\* buffer does not flow any more), else the lock is released to tell the player
\* that the buffer is full.
SegmentNext ==
  /\ spc = "seg2"
  /\ LET i == (cache_write_index + 1) % NumCached
     IN /\ cache_write_index' = i
        /\ IF srcresult = "OK" /\ ~cache_write_ready[i]
           THEN spc' = "full" /\ UNCHANGED <<cache_size, cache_write_ready, cache, pending, sres>>
           ELSE Prepare(i)
  /\ UNCHANGED <<cache_read_index, flagVars, loopVars, jsresult, jsTask, next, left,
                 padVars, ctlVars, outVars>>

\* send_hls_full_message, then g_cond_wait(del_cond): what has happened since the
\* lock was released is not looked at.
SegmentWait ==
  /\ spc = "full" /\ spc' = "wait"
  /\ UNCHANGED <<bufVars, flagVars, loopVars, pending, jsresult, jsTask, sres, next, left,
                 padVars, ctlVars, outVars>>

\* Woken up: the segment is dropped if the buffer does not flow any more.
SegmentWoken ==
  /\ spc = "woken"
  /\ CASE srcresult # "OK" ->
            /\ pending' = "UNKNOWN" /\ Return("OK")
            /\ UNCHANGED <<cache_size, cache_write_ready, cache>>
       [] srcresult = "OK" /\ cache_write_ready[cache_write_index] ->
            Prepare(cache_write_index)
       [] OTHER ->
            spc' = "full" /\ UNCHANGED <<cache_size, cache_write_ready, cache, pending, sres>>
  /\ UNCHANGED <<cache_write_index, cache_read_index, flagVars, loopVars,
                 jsresult, jsTask, next, left, padVars, ctlVars, outVars>>

\* The end of java_source_loop: the result is recorded unless a seek has set
\* WRONG_STATE meanwhile, and the task pauses itself when the flow has ended.
SourceEnd ==
  /\ spc = "end" /\ spc' = "idle"
  /\ LET r == IF jsresult = "OK" \/ sres # "OK" THEN sres ELSE jsresult
     IN /\ jsresult' = r /\ sres' = "OK"
        /\ jsTask' = IF r # "OK" /\ jsTask = "started" THEN "paused" ELSE jsTask
  /\ UNCHANGED <<pending, next, left, bufVars, flagVars, loopVars, padVars, ctlVars, outVars>>

Source ==
  \/ SourceBegin \/ SourceRead \/ hls_progress_buffer_chain \/ SourceSize \/ SourceEos
  \/ SinkEventEos \/ SinkEventNewSegment \/ SegmentAnnounce \/ SegmentNext
  \/ SegmentWait \/ SegmentWoken \/ SourceEnd

-----------------------------------------------------------------------------
(* The buffer's task: hls_progress_buffer_loop.                             *)

\* Where the NEWSEGMENT handler has let go of the lock and still relies on what
\* it has read under it.
Windows == {"seg1", "seg2", "full"}

\* Broken variant: the source is not told that a cache is free.
GiveBackSilently(i) ==
  /\ cache_write_ready' = [cache_write_ready EXCEPT ![i] = TRUE]
  /\ cache_read_index' = (i + 1) % NumCached
  /\ raced' = (raced \/ (spc = "full" /\ \A j \in Ring \ {i} : cache_write_ready[j]))
  /\ UNCHANGED spc

\* The cache at index i, read to its end, is given back to the source.
GiveBack(i) ==
  /\ cache_write_ready' = [cache_write_ready EXCEPT ![i] = TRUE]
  /\ cache_read_index' = (i + 1) % NumCached
  /\ raced' = (raced \/ (spc = "full" /\ \A j \in Ring \ {i} : cache_write_ready[j]))
  /\ SignalDel

\* With the lock: wait for data, deliver EOS, take a buffer, or find that the
\* buffer does not flow. A cache that has been read to its end is given back.
LoopTake ==
  /\ (lpc = "idle" /\ loopTask = "started") \/ lpc = "woken"
  /\ LET i == cache_read_index
         c == FC!cache_read_buffer(cache[i])
         data == FC!cache_has_enough_data(cache[i])
         done == c.read_position = cache_size[i]
     IN \/ /\ srcresult = "OK" /\ ~data /\ ~is_eos
           /\ lpc' = "wait"
           /\ UNCHANGED <<bufVars, srcresult, buf, lres, spc, raced, eosOut>>
        \/ /\ srcresult = "OK" /\ ~data /\ is_eos
           /\ eosOut' = (eosOut \/ ~srcFlushing)
           /\ srcresult' = "WRONG_STATE" /\ lpc' = "end" /\ lres' = "WRONG_STATE"
           /\ UNCHANGED <<bufVars, buf, spc, raced>>
        \/ /\ srcresult = "OK" /\ data
           /\ lpc' = "push" /\ buf' = FC!ReadBlocks(cache[i])
           /\ cache' = [cache EXCEPT ![i] = c]
           /\ IF done THEN GiveBack(i)
                      ELSE UNCHANGED <<cache_write_ready, cache_read_index, raced, spc>>
           /\ UNCHANGED <<cache_size, cache_write_index, srcresult, lres, eosOut>>
        \/ /\ srcresult # "OK"
           /\ lpc' = "end" /\ lres' = srcresult
           /\ UNCHANGED <<bufVars, srcresult, buf, spc, raced, eosOut>>
  /\ UNCHANGED <<send_new_segment, is_flushing, is_eos, loopTask, pending, jsresult, jsTask, sres,
                 next, left, padVars, ctlVars, newSegmentOut, out, base, seekHist>>

\* gst_pad_push: a flushing pad refuses the buffer.
LoopPush ==
  /\ lpc = "push" /\ lpc' = "pushed" /\ buf' = <<>>
  /\ IF srcFlushing THEN lres' = "WRONG_STATE" /\ UNCHANGED out
                    ELSE lres' = "OK" /\ out' = out \o buf
  /\ UNCHANGED <<bufVars, flagVars, loopTask, srcVars, padVars, ctlVars,
                 newSegmentOut, eosOut, base, raced, seekHist>>

\* With the lock: the result is recorded unless the flow was stopped meanwhile.
LoopResult ==
  /\ lpc = "pushed" /\ lpc' = "end"
  /\ LET r == IF srcresult = "OK" \/ lres # "OK" THEN lres ELSE srcresult
     IN srcresult' = r /\ lres' = r
  /\ UNCHANGED <<bufVars, send_new_segment, is_flushing, is_eos, loopTask, buf, srcVars, padVars,
                 ctlVars, outVars>>

LoopEnd ==
  /\ lpc = "end" /\ lpc' = "idle" /\ lres' = "OK"
  /\ loopTask' = IF lres # "OK" /\ ~is_flushing /\ loopTask = "started" THEN "paused" ELSE loopTask
  /\ UNCHANGED <<bufVars, flagVars, buf, srcVars, padVars, ctlVars, outVars>>

Loop == LoopTake \/ LoopPush \/ LoopResult \/ LoopEnd

-----------------------------------------------------------------------------
(* A seek: java_source_perform_seek, with the FLUSH_START and FLUSH_STOP    *)
(* events it pushes through hls_progress_buffer_sink_event.                 *)

\* Broken variants of the flush: a cache keeps its positions; the source is not woken.
FlushKeepsData ==
  /\ srcresult' = "WRONG_STATE" /\ raced' = (raced \/ spc \in Windows)
  /\ SignalAdd /\ SignalDel
  /\ cache_write_index' = -1 /\ cache_read_index' = 0
  /\ cache_size' = [i \in Ring |-> 0] /\ cache_write_ready' = [i \in Ring |-> TRUE]
  /\ UNCHANGED cache
FlushWakesLoopOnly ==
  /\ srcresult' = "WRONG_STATE" /\ raced' = (raced \/ spc \in Windows)
  /\ SignalAdd /\ UNCHANGED spc
  /\ cache_write_index' = -1 /\ cache_read_index' = 0
  /\ cache' = [i \in Ring |-> FC!create_cache]
  /\ cache_size' = [i \in Ring |-> 0] /\ cache_write_ready' = [i \in Ring |-> TRUE]

\* hls_progress_buffer_flush_data.
FlushData ==
  /\ srcresult' = "WRONG_STATE"
  /\ raced' = (raced \/ spc \in Windows)
  /\ SignalAdd /\ SignalDel
  /\ cache_write_index' = -1 /\ cache_read_index' = 0
  /\ cache' = [i \in Ring |->
                 FC!cache_set_read_position(FC!cache_set_write_position(cache[i], 0), 0)]
  /\ cache_size' = [i \in Ring |-> 0]
  /\ cache_write_ready' = [i \in Ring |-> TRUE]

SeekStart ==
  /\ kpc = "none" /\ kpc' = "flush" /\ dpc = "none" /\ seeks < MaxSeeks
  /\ sinkFlushing' = TRUE /\ is_flushing' = TRUE
  /\ UNCHANGED <<bufVars, send_new_segment, is_eos, srcresult, loopVars, srcVars, srcFlushing,
                 dpc, seeks, outVars>>

SeekFlushDownstream ==
  /\ kpc = "flush" /\ kpc' = "data"
  /\ srcFlushing' = TRUE
  /\ UNCHANGED <<bufVars, flagVars, loopVars, srcVars, sinkFlushing, dpc, seeks, outVars>>

SeekFlushData ==
  /\ kpc = "data" /\ kpc' = "pause"
  /\ FlushData
  /\ UNCHANGED <<send_new_segment, is_flushing, is_eos, loopTask, buf, lres, pending, jsresult,
                 jsTask, sres, next, left, padVars, dpc, seeks, newSegmentOut, out, eosOut, base,
                 seekHist>>

\* gst_pad_pause_task asks the task to pause and waits until it has.
SeekPause ==
  /\ kpc = "pause" /\ kpc' = "paused"
  /\ loopTask' = IF loopTask = "started" THEN "paused" ELSE loopTask
  /\ UNCHANGED <<bufVars, flagVars, lpc, buf, lres, srcVars, padVars, dpc, seeks, outVars>>

SeekStopSource ==
  /\ kpc = "paused" /\ lpc = "idle" /\ kpc' = "lock"
  /\ jsresult' = "WRONG_STATE"
  /\ UNCHANGED <<bufVars, flagVars, loopVars, pending, jsTask, spc, sres, next, left, padVars,
                 dpc, seeks, outVars>>

\* The segment that is open is given up: the request for the next one closes it.
GiveUpSegment == next' = next + left /\ left' = 0

\* What Java makes of the seek. The playlist is left before the segment that holds
\* the time sought; it is left alone when the time is its exact duration; and when
\* the seek fails, java_source keeps its pending event too, so that it may go on in
\* the middle of a segment although the buffer has been flushed.
SeekSegment ==
  /\ \E s \in 1 .. Segments :
       next' = (s - 1) * SegmentSize + 1 /\ base' = (s - 1) * SegmentSize + 1
  /\ left' = 0 /\ pending' = "NEWSEGMENT" /\ torn' = FALSE
SeekDuration ==
  /\ GiveUpSegment /\ base' = next + left
  /\ pending' = "NEWSEGMENT" /\ torn' = FALSE
SeekFails ==
  /\ IF pending = "UNKNOWN" THEN UNCHANGED <<next, left>> ELSE GiveUpSegment
  /\ base' = next + left /\ UNCHANGED pending
  /\ torn' = (pending = "UNKNOWN" /\ left > 0)

\* GST_PAD_STREAM_LOCK: the source's task has paused itself. Then SIGNAL_SEEK_DATA.
SeekData ==
  /\ kpc = "lock" /\ jsTask # "started" /\ spc = "idle" /\ kpc' = "stop"
  /\ seeks' = seeks + 1
  /\ SeekSegment \/ SeekDuration \/ SeekFails
  /\ stranded' = (is_eos /\ base' > Total)
  /\ jsresult' = "OK"
  /\ UNCHANGED <<bufVars, flagVars, loopVars, jsTask, spc, sres, padVars, dpc,
                 newSegmentOut, out, eosOut, raced, wild>>

\* FLUSH_STOP goes downstream, which starts anew.
SeekStopFlush ==
  /\ kpc = "stop" /\ kpc' = "start"
  /\ sinkFlushing' = FALSE /\ srcFlushing' = FALSE
  /\ out' = <<>> /\ eosOut' = FALSE /\ newSegmentOut' = FALSE
  /\ UNCHANGED <<bufVars, flagVars, loopVars, srcVars, dpc, seeks, base, raced, seekHist>>

\* With the lock: the buffer flows again; after EOS its task is left to the
\* NEWSEGMENT handler. Then the source's task is started.
SeekResume ==
  /\ kpc = "start" /\ kpc' = "none"
  /\ send_new_segment' = TRUE /\ is_flushing' = FALSE /\ srcresult' = "OK"
  /\ loopTask' = IF is_eos THEN loopTask ELSE "started"
  /\ jsTask' = "started"
  /\ UNCHANGED <<bufVars, is_eos, lpc, buf, lres, pending, jsresult, spc, sres, next, left, padVars,
                 dpc, seeks, outVars>>

Seek ==
  \/ SeekStart \/ SeekFlushDownstream \/ SeekFlushData \/ SeekPause \/ SeekStopSource
  \/ SeekData \/ SeekStopFlush \/ SeekResume

-----------------------------------------------------------------------------
(* The pipeline goes to READY, from its sinks to its source: the change of  *)
(* state of the buffer, the deactivation of its pads, then of the source's. *)

\* hls_progress_buffer_change_state; what is downstream is inactive already.
DisposeFlush ==
  /\ Disposes /\ dpc = "none" /\ kpc = "none" /\ dpc' = "srcpad"
  /\ FlushData
  /\ srcFlushing' = TRUE
  /\ UNCHANGED <<send_new_segment, is_flushing, is_eos, loopTask, buf, lres, pending, jsresult,
                 jsTask, sres, next, left, sinkFlushing, kpc, seeks, newSegmentOut, out, eosOut,
                 base, seekHist>>

\* hls_progress_buffer_activatepush_src(FALSE), up to gst_pad_stop_task.
DisposeSrcPad ==
  /\ dpc = "srcpad" /\ dpc' = "sinkpad"
  /\ srcresult' = "WRONG_STATE" /\ SignalAdd /\ SignalDel
  /\ loopTask' = "stopped"
  /\ UNCHANGED <<bufVars, send_new_segment, is_flushing, is_eos, buf, lres, pending, jsresult,
                 jsTask, sres, next, left, padVars, kpc, seeks, outVars>>

\* gst_pad_stop_task has waited for the task; the sink pad becomes inactive.
DisposeSinkPad ==
  /\ dpc = "sinkpad" /\ lpc = "idle" /\ dpc' = "source"
  /\ sinkFlushing' = TRUE
  /\ UNCHANGED <<bufVars, flagVars, loopVars, srcVars, srcFlushing, kpc, seeks, outVars>>

\* Where the source's task is inside the buffer and holds its sink pad.
InBuffer == {"chain", "eos1", "seg1", "seg2", "full", "wait", "woken"}

\* Deactivating the sink pad waits for its stream lock; then
\* java_source_activatepush(FALSE).
DisposeSource ==
  /\ dpc = "source" /\ spc \notin InBuffer /\ dpc' = "join"
  /\ jsresult' = "WRONG_STATE" /\ jsTask' = "stopped"
  /\ UNCHANGED <<bufVars, flagVars, loopVars, pending, spc, sres, next, left, padVars, kpc, seeks,
                 outVars>>

DisposeJoin ==
  /\ dpc = "join" /\ spc = "idle" /\ dpc' = "disposed"
  /\ UNCHANGED <<bufVars, flagVars, loopVars, srcVars, padVars, kpc, seeks, outVars>>

Dispose ==
  \/ DisposeFlush \/ DisposeSrcPad \/ DisposeSinkPad \/ DisposeSource \/ DisposeJoin

Next == Source \/ Loop \/ Seek \/ Dispose

Spec == Init /\ [][Next]_vars

\* Every thread goes on; a seek and the disposal come if the application wants
\* them to, and are then carried through.
FairSpec ==
  /\ Spec /\ WF_vars(Source) /\ WF_vars(Loop)
  /\ WF_vars(Seek /\ kpc # "none") /\ WF_vars(Dispose /\ dpc # "none")

-----------------------------------------------------------------------------

\* Types; a cache is never read past what was written into it (cache_read_buffer)
\* and the indices stay in the ring.
TypeOK ==
  /\ cache_write_index \in -1 .. NumCached - 1 /\ cache_read_index \in Ring
  /\ \A i \in Ring : /\ cache[i].read_position \in 0 .. cache[i].write_position
                     /\ cache[i].write_position \in 0 .. Total
                     /\ cache_size[i] \in {0, SegmentSize}
  /\ cache_write_ready \in [Ring -> BOOLEAN]
  /\ {send_new_segment, is_flushing, is_eos, sinkFlushing, srcFlushing, newSegmentOut, eosOut, raced,
      torn, stranded, wild} \subseteq BOOLEAN
  /\ {srcresult, jsresult, lres, sres} \subseteq Results
  /\ {loopTask, jsTask} \subseteq {"started", "paused", "stopped"}
  /\ next \in 1 .. Total + 1 /\ left \in 0 .. SegmentSize /\ seeks \in 0 .. MaxSeeks

\* hls_progress_buffer_chain indexes the ring with -1 only when a flush has come
\* between its look at the flags and the lock, and is still under way, or when the
\* last seek has failed in the middle of a segment.
WriteInRing ==
  spc = "chain" /\ cache_write_index = -1 =>
    kpc \in {"pause", "paused", "lock"} \/ dpc # "none" \/ torn

\* What arrives downstream after a seek is the stream from where the seek has left
\* the playlist, without a gap, a repetition or a block from before the seek, although
\* caches are reused in place and a flush may come between any two steps.
StreamInOrder ==
  ~srcFlushing => \A i \in DOMAIN out : out[i] = [epoch |-> seeks, n |-> base + i - 1]

\* EOS arrives downstream only behind the last block: a cache that is ready to be
\* read is not cut off by is_eos, which the source sets long before.
EosIsLast == eosOut /\ ~srcFlushing /\ ~raced => Len(out) = Total - base + 1

\* A buffer is pushed only after the NEWSEGMENT event that announces it: after a
\* flush downstream has no segment to place the data in until then.
AnnouncedFirst == out # <<>> /\ ~srcFlushing => newSegmentOut

\* Where the run stops: every property holds of a behaviour that has used cache[-1].
Defined == ~wild

\* What hls_progress_buffer_loop delivers is a well-formed stream: announced, then
\* the blocks in order, then EOS; not after a seek that has failed in the middle of
\* a segment, nor once chain has left the ring, which happens as WriteInRing says.
StreamInv ==
  /\ TypeOK
  /\ wild \/ WriteInRing
  /\ wild \/ torn \/ (AnnouncedFirst /\ StreamInOrder /\ EosIsLast)

\* The whole stream is delivered, or the pipeline is disposed of: the source and
\* the buffer's task never wait for each other for ever, unless the ring was
\* drained or flushed in one of the Windows, or the last seek failed in the middle
\* of a segment, or found is_eos set and nothing to come that would clear it.
StreamEnds == []<>(eosOut \/ dpc # "none" \/ raced \/ torn \/ stranded \/ wild)

\* A seek, a failing one too, is carried through: FLUSH_START unblocks both tasks
\* wherever they wait, unless it comes in one of the Windows.
SeekReturns == kpc # "none" ~> (kpc = "none" \/ raced \/ wild)

\* Disposing of the pipeline comes to an end, with the same exception: both tasks
\* are unblocked and joined.
DisposeReturns == dpc # "none" ~> (dpc = "disposed" \/ raced \/ wild)

\* The calls of the application into the pipeline return.
CallsReturn == SeekReturns /\ DisposeReturns
=============================================================================
