------------------------- MODULE ProgressBufferProofs -------------------------
(***************************************************************************)
(* Proofs about ProgressBuffer: what progress_buffer_loop delivers is the  *)
(* stream in order, from the announced position to its end, and after a    *)
(* seek from the position sought, for every size of stream and of buffer,  *)
(* every number of seeks and every tolerance.                              *)
(***************************************************************************)
EXTENDS ProgressBuffer, SequenceFacts, SequenceTheorems

-----------------------------------------------------------------------------
(***************************************************************************)
(* The inductive invariant.                                                *)
(***************************************************************************)
\* File caches: the file is at least as long as what has been written since the
\* write handle was last rewound.
Caches == {c \in [read_position : Nat, write_position : Nat, file : Seq(Nat)] :
             c.write_position <= Len(c.file)}

Events == {None, EOS} \cup {NewSegment(p) : p \in 0 .. Size}

TypeInv ==
  /\ cache \in Caches /\ cache_read_offset \in 0 .. Size
  /\ sink_segment \in [start : 0 .. Size, stop : -1 .. Size, last_stop : 0 .. Size]
  /\ pending_src_event \in Events
  /\ srcresult \in Results /\ jsresult \in Results /\ lres \in Results /\ sres \in Results
  /\ loopTask \in {"none", "started", "paused", "stopped"}
  /\ jsTask \in {"started", "paused", "stopped"}
  /\ position \in 0 .. Size /\ target \in 0 .. Size /\ seeks \in Nat
  /\ out \in Seq(Nat) /\ segmentOut \in -1 .. Size
  /\ pending \in {"NEWSEGMENT", "EOS", "UNKNOWN"}
  /\ spc \in {"idle", "segment", "eos", "read", "chain", "pad", "end"}
  /\ lpc \in {"idle", "wait", "woken", "next", "event", "push", "pushed", "end"}
  /\ kpc \in {"none", "signal", "lock", "stop", "flag", "lock2", "failed", "start"}
  /\ dpc \in {"none", "sinkpad", "state", "source", "join", "disposed"}
  /\ lpc = "event" => item \in Events
  /\ lpc = "push" => item.blocks \in Seq(Nat)

FlagInv ==
  /\ eos \in BOOLEAN /\ unexpected \in BOOLEAN /\ instant_seek \in BOOLEAN /\ skip \in BOOLEAN
  /\ update \in BOOLEAN /\ srcFlushing \in BOOLEAN /\ sinkFlushing \in BOOLEAN
  /\ eosOut \in BOOLEAN /\ raced \in BOOLEAN /\ misplaced \in BOOLEAN

\* Before the first block has come, nothing else has happened: the buffer has no
\* source pad yet.
FirstInv ==
  loopTask = "none" =>
    /\ lpc = "idle" /\ kpc = "none" /\ dpc = "none" /\ seeks = 0 /\ jsresult = "OK"
    /\ out = <<>> /\ segmentOut = -1 /\ cache.read_position = 0 /\ cache_read_offset = 0
    /\ ~skip /\ ~unexpected /\ ~eos /\ ~eosOut /\ ~srcFlushing /\ ~sinkFlushing /\ ~misplaced
    /\ pending # "EOS" /\ sres = "OK"
    /\ spc # "pad" => position = 0 /\ cache.write_position = 0

\* The source: what an iteration is about, and the position of the first segment.
SourceInv ==
  /\ spc = "segment" => pending = "NEWSEGMENT"
  /\ spc = "eos" => pending = "EOS"
  /\ spc \in {"read", "chain", "pad"} => pending = "UNKNOWN"
  /\ spc = "pad" => loopTask = "none"
  /\ spc = "chain" => position < Size
  /\ spc # "end" => sres = "OK"
  /\ update => cache_read_offset = 0
  /\ update /\ pending = "NEWSEGMENT" => loopTask = "none"

\* Whenever the source may go on to push blocks that are stored, it is in step.
StepInv ==
  ~misplaced /\ ~unexpected /\ ~sinkFlushing /\ pending = "UNKNOWN"
      /\ (spc \in {"read", "chain"} \/ (jsresult = "OK" /\ sres = "OK"))
    => InStep

\* The segment begins and ends where the cache does.
SegmentInv ==
  dpc \in {"none", "sinkpad", "state"} =>
    /\ sink_segment.start = cache_read_offset
    /\ ~misplaced => sink_segment.last_stop = cache_read_offset + cache.write_position

\* What the cache holds is the stream from its offset on.
CacheInv ==
  ~misplaced =>
    /\ cache_read_offset + cache.write_position <= Size
    /\ cache_read_offset + cache.read_position <= Size
    /\ \A p \in 1 .. cache.write_position : cache.file[p] = cache_read_offset + p - 1

Announced == pending_src_event.type = "NEWSEGMENT"
Sought == {"stop", "flag", "lock2", "failed", "start"}

\* Seeks: while one is past its decision the buffer's task rests, and what it will
\* do first is known.
SeekInv ==
  /\ kpc # "none" => dpc = "none"
  /\ dpc # "none" => srcFlushing
  /\ dpc \notin {"none", "sinkpad"} => sinkFlushing
  /\ kpc \in {"signal", "lock", "stop"} => srcFlushing
  /\ kpc \in Sought => /\ lpc = "idle" /\ loopTask = "paused"
                       /\ Announced \/ (~instant_seek /\ pending_src_event = None)
  /\ kpc \in Sought \ {"stop"} => out = <<>> /\ segmentOut = -1 /\ ~eosOut

Sent == Max2(segmentOut, 0) + Len(out)
ReadAt == cache_read_offset + cache.read_position
AnnounceInHand == lpc = "event" /\ item.type = "NEWSEGMENT"

\* The next segment is announced where the task reads; what downstream has got, and
\* what is on its way there, reaches up to where the task reads.
FlowInv ==
  ~misplaced =>
    /\ Announced => pending_src_event.start = ReadAt
    /\ ~srcFlushing =>
         /\ \A i \in 1 .. Len(out) : out[i] = Max2(segmentOut, 0) + i - 1
         /\ AnnounceInHand /\ ~Announced => item.start = ReadAt
         /\ lpc = "push" =>
              /\ \A i \in 1 .. Len(item.blocks) : item.blocks[i] = Sent + i - 1
              /\ ~Announced => Sent + Len(item.blocks) = ReadAt
         /\ instant_seek /\ ~Announced /\ ~AnnounceInHand /\ lpc # "push" => Sent = ReadAt
         /\ seeks > 0 /\ segmentOut = -1 =>
              /\ out = <<>> /\ lpc # "push"
              /\ Announced \/ AnnounceInHand \/ ~instant_seek

EosInHand == lpc = "event" /\ item.type = "EOS"

\* EOS is on its way, or has come, only when all of the segment has been read, and
\* after it the task does not go on by itself.
EosInv ==
  /\ EosInHand => lres # "OK"
  /\ ~misplaced /\ ~srcFlushing =>
       /\ (pending_src_event.type = "EOS" \/ EosInHand \/ eosOut) /\ ~Announced =>
            /\ ReadAt = sink_segment.stop /\ cache.read_position <= cache.write_position
            /\ instant_seek
       /\ eosOut => (lpc = "end" /\ lres # "OK") \/ (lpc = "idle" /\ loopTask # "started")

\* The position sought is the one announced, unless the segment of an earlier seek
\* was still to come.
TargetInv ==
  /\ target = base
  /\ seeks = 0 => base = 0
  /\ ~raced =>
       /\ pending = "NEWSEGMENT" => position = base
       /\ Announced => pending_src_event.start = base
       /\ AnnounceInHand => item.start = base
       /\ ~srcFlushing => segmentOut \in {-1, base}

FailInv == ~misplaced => sres # "ERROR" /\ jsresult # "ERROR"

Inv ==
  /\ FlagInv /\ TypeInv /\ FirstInv /\ SourceInv /\ StepInv /\ SegmentInv /\ CacheInv
  /\ SeekInv /\ FlowInv /\ EosInv /\ TargetInv /\ FailInv

-----------------------------------------------------------------------------
(***************************************************************************)
(* The file cache and the events.                                          *)
(***************************************************************************)
LEMMA Created ==
  /\ FC!create_cache \in Caches
  /\ FC!create_cache.read_position = 0 /\ FC!create_cache.write_position = 0
BY DEF FC!create_cache, Caches

\* A seek within the cache; to a negative position it has no effect.
LEMMA ReadSet ==
  ASSUME NEW c \in Caches, NEW p \in Int
  PROVE  LET d == FC!cache_set_read_position(c, p)
         IN  /\ d \in Caches /\ d.write_position = c.write_position /\ d.file = c.file
             /\ p >= 0 => d.read_position = p
BY DEF FC!cache_set_read_position, Caches

LEMMA Rewound ==
  ASSUME NEW c \in Caches
  PROVE  LET d == FC!cache_set_read_position(FC!cache_set_write_position(c, 0), 0)
         IN  d \in Caches /\ d.read_position = 0 /\ d.write_position = 0
<1> DEFINE e == FC!cache_set_write_position(c, 0)
<1>1. e \in Caches /\ e.write_position = 0
  BY DEF FC!cache_set_write_position, Caches
<1> HIDE DEF e
<1> QED BY <1>1, ReadSet DEF e

\* A write leaves what was written before it.
LEMMA Written ==
  ASSUME NEW c \in Caches, NEW b \in Nat
  PROVE  LET d == FC!cache_write_buffer(c, b)
         IN  /\ d \in Caches /\ d.read_position = c.read_position
             /\ d.write_position = c.write_position + 1
             /\ \A p \in 1 .. c.write_position : d.file[p] = c.file[p]
             /\ d.file[c.write_position + 1] = b
<1> DEFINE at == c.write_position + 1
           end == IF at > Len(c.file) THEN at ELSE Len(c.file)
           file == [p \in 1 .. end |-> IF p = at THEN b ELSE c.file[p]]
           d == FC!cache_write_buffer(c, b)
<1>1. /\ c.read_position \in Nat /\ c.write_position \in Nat /\ c.file \in Seq(Nat)
      /\ c.write_position <= Len(c.file) /\ Len(c.file) \in Nat
      /\ c \in [read_position : Nat, write_position : Nat, file : Seq(Nat)]
  BY DEF Caches
<1>2. end \in Nat /\ at <= end /\ at \in 1 .. end
  BY <1>1
<1>3. \A p \in 1 .. end : (IF p = at THEN b ELSE c.file[p]) \in Nat
  BY <1>1
<1>4. file \in Seq(Nat) /\ Len(file) = end
  BY <1>2, <1>3
<1>5. d = [c EXCEPT !.file = file, !.write_position = at]
  BY DEF FC!cache_write_buffer
<1>6. d.read_position = c.read_position /\ d.write_position = at /\ d.file = file
  BY <1>1, <1>5
<1>7. d \in Caches
  <2>1. d \in [read_position : Nat, write_position : Nat, file : Seq(Nat)]
    <3>1. d = [read_position |-> c.read_position, write_position |-> at, file |-> file]
      BY <1>1, <1>5
    <3> HIDE DEF file, d
    <3> QED BY <1>1, <1>2, <1>4, <3>1
  <2> QED BY <2>1, <1>2, <1>4, <1>6 DEF Caches
<1>8. file[at] = b /\ \A p \in 1 .. c.write_position : file[p] = c.file[p]
  BY <1>1, <1>2
<1> QED BY <1>6, <1>7, <1>8

\* A read returns blocks that have been written, one at least, in their order.
LEMMA ReadOut ==
  ASSUME NEW c \in Caches, c.read_position < c.write_position
  PROVE  LET blocks == FC!ReadBlocks(c)
             d == FC!cache_read_buffer(c)
         IN  /\ blocks \in Seq(Nat) /\ Len(blocks) \in Nat /\ Len(blocks) > 0
             /\ d \in Caches /\ d.write_position = c.write_position /\ d.file = c.file
             /\ d.read_position = c.read_position + Len(blocks)
             /\ d.read_position <= c.write_position
             /\ \A i \in 1 .. Len(blocks) : blocks[i] = c.file[c.read_position + i]
<1> DEFINE r == c.read_position
           w == c.write_position
           size == IF 0 < w - r /\ w - r < BufferSize THEN w - r ELSE BufferSize
           stop == IF r + size < Len(c.file) THEN r + size ELSE Len(c.file)
           blocks == FC!ReadBlocks(c)
           d == FC!cache_read_buffer(c)
<1>1. /\ r \in Nat /\ w \in Nat /\ c.file \in Seq(Nat) /\ w <= Len(c.file) /\ Len(c.file) \in Nat
      /\ c \in [read_position : Nat, write_position : Nat, file : Seq(Nat)]
  BY DEF Caches
<1>2. size \in Nat /\ size > 0 /\ r + size <= w
  BY <1>1, BufferAssumption
<1>3. stop = r + size
  BY <1>1, <1>2
<1>4. blocks = SubSeq(c.file, r + 1, stop)
  BY DEF FC!ReadBlocks
<1>5. /\ blocks \in Seq(Nat) /\ Len(blocks) = size
      /\ \A i \in 1 .. size : blocks[i] = c.file[r + i]
  <2> HIDE DEF size, stop, blocks
  <2>1. \A i \in r + 1 .. stop : c.file[i] \in Nat
    BY <1>1, <1>2, <1>3
  <2>2. r + 1 \in Int /\ stop \in Int
    BY <1>1, <1>2, <1>3
  <2>3. /\ SubSeq(c.file, r + 1, stop) \in Seq(Nat)
        /\ Len(SubSeq(c.file, r + 1, stop)) = IF r + 1 <= stop THEN stop - (r + 1) + 1 ELSE 0
        /\ \A i \in 1 .. stop - (r + 1) + 1 : SubSeq(c.file, r + 1, stop)[i] = c.file[r + 1 + i - 1]
    BY <2>1, <2>2, SubSeqProperties
  <2>4. stop - (r + 1) + 1 = size /\ r + 1 <= stop
    BY <1>1, <1>2, <1>3
  <2>5. \A i \in 1 .. size : r + 1 + i - 1 = r + i
    BY <1>1, <1>2
  <2> QED BY <1>4, <2>3, <2>4, <2>5
<1>6. d = [c EXCEPT !.read_position = r + Len(blocks)]
  BY DEF FC!cache_read_buffer
<1> HIDE DEF blocks, size, d
<1>7. /\ d.read_position = r + size /\ d.write_position = w /\ d.file = c.file
      /\ d = [read_position |-> r + size, write_position |-> w, file |-> c.file]
  BY <1>1, <1>2, <1>5, <1>6
<1>8. d \in Caches
  BY <1>1, <1>2, <1>7 DEF Caches
<1> QED BY <1>1, <1>2, <1>5, <1>7, <1>8 DEF blocks, d

LEMMA EventFacts ==
  /\ None \in Events /\ None.type = "none" /\ EOS \in Events /\ EOS.type = "EOS"
  /\ \A p \in 0 .. Size : /\ NewSegment(p) \in Events
                          /\ NewSegment(p).type = "NEWSEGMENT" /\ NewSegment(p).start = p
  /\ \A e \in Events : /\ e = None \/ e = EOS \/ e.type = "NEWSEGMENT"
                       /\ e.type = "NEWSEGMENT" => e.start \in 0 .. Size /\ e # None /\ e # EOS
  /\ None # EOS
<1>1. None.type = "none" /\ EOS.type = "EOS" /\ None \in Events /\ EOS \in Events
  BY DEF Events, None, EOS
<1>2. \A p \in 0 .. Size : /\ NewSegment(p) \in Events
                           /\ NewSegment(p).type = "NEWSEGMENT" /\ NewSegment(p).start = p
  BY DEF Events, NewSegment
<1>3. \A e \in Events : e = None \/ e = EOS \/ \E p \in 0 .. Size : e = NewSegment(p)
  BY DEF Events
<1> QED BY <1>1, <1>2, <1>3

-----------------------------------------------------------------------------
(* The source.                                                              *)
LEMMA SourceBeginKeeps == Inv /\ SourceBegin => Inv'
<1> SUFFICES ASSUME Inv, SourceBegin PROVE Inv'
  OBVIOUS
<1> USE DEF Inv, SourceBegin, Return,
            bufVars, flagVars, loopVars, srcVars, padVars, ctlVars, outVars
<1>1. FlagInv'
  BY Zenon DEF FlagInv
<1>2. TypeInv'
  BY DEF TypeInv
<1>3. FirstInv'
  BY DEF FirstInv
<1>4. SourceInv'
  BY DEF SourceInv, TypeInv
<1>5. StepInv'
  BY DEF StepInv, InStep, SourceInv, TypeInv
<1>6. SegmentInv'
  BY DEF SegmentInv
<1>7. CacheInv'
  BY DEF CacheInv
<1>8. SeekInv'
  BY DEF SeekInv, Sought, Announced
<1>9. FlowInv'
  BY DEF FlowInv, Announced, AnnounceInHand, Sent, ReadAt
<1>10. EosInv'
  BY DEF EosInv, Announced, EosInHand, ReadAt
<1>11. TargetInv'
  BY DEF TargetInv, Announced, AnnounceInHand
<1>12. FailInv'
  BY DEF FailInv, SourceInv
<1> QED
  BY <1>1, <1>2, <1>3, <1>4, <1>5, <1>6, <1>7, <1>8, <1>9, <1>10, <1>11, <1>12

LEMMA SourceReadKeeps == Inv /\ SourceRead => Inv'
<1> SUFFICES ASSUME Inv, SourceRead PROVE Inv'
  OBVIOUS
<1> USE DEF Inv, SourceRead,
            bufVars, flagVars, loopVars, srcVars, padVars, ctlVars, outVars
<1>1. FlagInv'
  BY Zenon DEF FlagInv
<1>2. TypeInv'
  BY DEF TypeInv
<1>3. FirstInv'
  BY BufferAssumption DEF FirstInv
<1>4. SourceInv'
  BY DEF SourceInv
<1>5. StepInv'
  BY DEF StepInv, InStep
<1>6. SegmentInv'
  BY DEF SegmentInv
<1>7. CacheInv'
  BY DEF CacheInv
<1>8. SeekInv'
  BY DEF SeekInv, Sought, Announced
<1>9. FlowInv'
  BY DEF FlowInv, Announced, AnnounceInHand, Sent, ReadAt
<1>10. EosInv'
  BY DEF EosInv, Announced, EosInHand, ReadAt
<1>11. TargetInv'
  BY DEF TargetInv, Announced, AnnounceInHand
<1>12. FailInv'
  BY DEF FailInv
<1> QED
  BY <1>1, <1>2, <1>3, <1>4, <1>5, <1>6, <1>7, <1>8, <1>9, <1>10, <1>11, <1>12

LEMMA progress_buffer_chainKeeps == Inv /\ progress_buffer_chain => Inv'
<1> SUFFICES ASSUME Inv, progress_buffer_chain PROVE Inv'
  OBVIOUS
<1> DEFINE last == Max2(sink_segment.start, position + 1)
           s == [sink_segment EXCEPT !.last_stop = Max2(sink_segment.start, position + 1)]
<1> USE DEF Inv, progress_buffer_chain, Return
<1>a. /\ cache \in Caches /\ position \in Nat /\ position < Size /\ pending = "UNKNOWN"
      /\ sink_segment \in [start : 0 .. Size, stop : -1 .. Size, last_stop : 0 .. Size]
  BY DEF TypeInv, SourceInv
<1>b. /\ last \in 0 .. Size
      /\ s \in [start : 0 .. Size, stop : -1 .. Size, last_stop : 0 .. Size]
      /\ s.start = sink_segment.start /\ s.stop = sink_segment.stop /\ s.last_stop = last
  BY <1>a, BufferAssumption DEF Max2
<1>c. /\ position' = position + 1 /\ spc = "chain"
      /\ UNCHANGED <<cache_read_offset, unexpected, flagVars, loopTask, item, lres, skip,
                     pending, update, jsresult, jsTask, padVars, ctlVars, outVars>>
  OBVIOUS
\* The block is refused, lies behind the segment, or is stored.
<1>d. \/ /\ sinkFlushing \/ eos \/ unexpected
         /\ spc' = "end" /\ sres' \in {"WRONG_STATE", "UNEXPECTED"}
         /\ UNCHANGED <<cache, sink_segment, lpc>>
      \/ /\ ~sinkFlushing /\ ~eos /\ ~unexpected /\ s.stop < s.last_stop
         /\ spc' = "end" /\ sres' = "ERROR" /\ sink_segment' = s
         /\ UNCHANGED <<cache, lpc>>
      \/ /\ ~sinkFlushing /\ ~eos /\ ~unexpected /\ sink_segment' = s
         /\ cache' = FC!cache_write_buffer(cache, position)
         /\ lpc' = lpc \/ (lpc = "wait" /\ lpc' = "woken")
         /\ \/ loopTask = "none" /\ spc' = "pad" /\ UNCHANGED sres
            \/ loopTask # "none" /\ spc' = "end" /\ sres' = "OK"
  BY DEF PositionMessage, SignalAdd
<1>e. InStep \/ misplaced \/ unexpected \/ sinkFlushing
  BY <1>a DEF StepInv
<1>f. dpc \in {"none", "sinkpad", "state"} \/ sinkFlushing
  BY DEF SeekInv, TypeInv
<1> HIDE DEF progress_buffer_chain, s, last
<1>g. CASE \/ /\ sinkFlushing \/ eos \/ unexpected
              /\ spc' = "end" /\ sres' \in {"WRONG_STATE", "UNEXPECTED"}
              /\ UNCHANGED <<cache, sink_segment, lpc>>
           \/ /\ ~sinkFlushing /\ ~eos /\ ~unexpected /\ s.stop < s.last_stop
              /\ spc' = "end" /\ sres' = "ERROR" /\ sink_segment' = s
              /\ UNCHANGED <<cache, lpc>>
  <2> USE <1>a, <1>b, <1>c, <1>g DEF flagVars, padVars, ctlVars, outVars
  <2>1. misplaced \/ sres' # "ERROR"
    BY <1>e DEF last, Max2, InStep, TypeInv
  <2>2. sink_segment' \in [start : 0 .. Size, stop : -1 .. Size, last_stop : 0 .. Size]
    OBVIOUS
  <2>3. /\ sink_segment'.start = sink_segment.start /\ sink_segment'.stop = sink_segment.stop
        /\ ~misplaced => sink_segment' = sink_segment
    BY <2>1
  <2>4. FlagInv'
    BY <1>c, Zenon DEF FlagInv, flagVars, padVars, ctlVars, outVars
  <2>5. TypeInv'
    BY <2>2, BufferAssumption DEF TypeInv, Results
  <2>6. FirstInv'
    BY <2>1 DEF FirstInv
  <2>7. SourceInv' /\ StepInv' /\ FailInv'
    BY <2>1 DEF SourceInv, StepInv, FailInv
  <2>8. SegmentInv' /\ CacheInv' /\ SeekInv'
    BY <2>3 DEF SegmentInv, CacheInv, SeekInv, Sought, Announced
  <2>9. FlowInv' /\ EosInv'
    BY <2>3 DEF FlowInv, EosInv, Announced, AnnounceInHand, EosInHand, Sent, ReadAt
  <2>10. TargetInv'
    BY DEF TargetInv, Announced, AnnounceInHand
  <2> QED BY <2>4, <2>5, <2>6, <2>7, <2>8, <2>9, <2>10
<1>h. CASE /\ ~sinkFlushing /\ ~eos /\ ~unexpected /\ sink_segment' = s
           /\ cache' = FC!cache_write_buffer(cache, position)
           /\ lpc' = lpc \/ (lpc = "wait" /\ lpc' = "woken")
           /\ \/ loopTask = "none" /\ spc' = "pad" /\ UNCHANGED sres
              \/ loopTask # "none" /\ spc' = "end" /\ sres' = "OK"
  <2> USE <1>a, <1>b, <1>c, <1>h DEF flagVars, padVars, ctlVars, outVars
  <2>1. /\ cache' \in Caches /\ cache'.read_position = cache.read_position
        /\ cache'.write_position = cache.write_position + 1
        /\ \A p \in 1 .. cache.write_position : cache'.file[p] = cache.file[p]
        /\ cache'.file[cache.write_position + 1] = position
    BY Written
  <2>2. /\ cache_read_offset \in 0 .. Size /\ cache.read_position \in Nat
        /\ cache.write_position \in Nat
    BY DEF TypeInv, Caches
  <2>3. ~misplaced => /\ position = cache_read_offset + cache.write_position
                      /\ sink_segment.stop = Size
    BY <1>e DEF InStep
  <2>4. FlagInv'
    BY <1>c, Zenon DEF FlagInv, flagVars, padVars, ctlVars, outVars
  <2>5. TypeInv'
    BY <2>1, BufferAssumption DEF TypeInv, Results
  <2>6. sres = "OK"
    BY DEF SourceInv
  <2>7. FirstInv'
    BY <2>1, <2>6 DEF FirstInv
  <2>8. SourceInv' /\ FailInv'
    BY <2>6 DEF SourceInv, FailInv
  <2>9. StepInv'
    BY <2>1, <2>2, <2>3 DEF StepInv, InStep
  <2>10. SegmentInv'
    BY <1>f, <2>1, <2>2, <2>3 DEF SegmentInv, last, Max2
  <2>11. CacheInv'
    <3> SUFFICES ASSUME ~misplaced PROVE CacheInv'
      BY DEF CacheInv
    <3>1. \A p \in 1 .. cache'.write_position : cache'.file[p] = cache_read_offset + p - 1
      BY <2>1, <2>2, <2>3 DEF CacheInv
    <3> QED BY <2>1, <2>2, <2>3, <3>1 DEF CacheInv
  <2>12. SeekInv'
    BY DEF SeekInv, Sought, Announced
  <2>13. FlowInv'
    BY <2>1 DEF FlowInv, Announced, AnnounceInHand, Sent, ReadAt
  <2>14. EosInv'
    BY <2>1, <2>2 DEF EosInv, Announced, EosInHand, ReadAt
  <2>15. TargetInv'
    BY DEF TargetInv, Announced, AnnounceInHand
  <2> QED BY <2>4, <2>5, <2>7, <2>8, <2>9, <2>10, <2>11, <2>12, <2>13, <2>14, <2>15
<1> QED BY <1>d, <1>g, <1>h

LEMMA SourcePadKeeps == Inv /\ SourcePad => Inv'
<1> SUFFICES ASSUME Inv, SourcePad PROVE Inv'
  OBVIOUS
<1> USE DEF Inv, SourcePad, Return,
            bufVars, flagVars, loopVars, srcVars, padVars, ctlVars, outVars
<1>a. /\ None \in Events /\ None.type = "none" /\ ~eosOut /\ lpc = "idle" /\ kpc = "none"
      /\ dpc = "none"
  BY EventFacts DEF FirstInv, SourceInv
<1>1. FlagInv'
  BY Zenon DEF FlagInv
<1>2. TypeInv'
  BY <1>a DEF TypeInv, Results
<1>3. FirstInv'
  BY DEF FirstInv
<1>4. SourceInv'
  BY DEF SourceInv
<1>5. StepInv'
  BY DEF StepInv, InStep, FirstInv, SourceInv
<1>6. SegmentInv'
  BY DEF SegmentInv
<1>7. CacheInv'
  BY DEF CacheInv
<1>8. SeekInv'
  BY <1>a DEF SeekInv, Sought, Announced
<1>9. FlowInv'
  BY <1>a DEF FlowInv, Announced, AnnounceInHand, Sent, ReadAt, FirstInv, SourceInv, Max2
<1>10. EosInv'
  BY <1>a DEF EosInv, Announced, EosInHand, ReadAt
<1>11. TargetInv'
  BY <1>a DEF TargetInv, Announced, AnnounceInHand, SourceInv
<1>12. FailInv'
  BY DEF FailInv
<1> QED
  BY <1>1, <1>2, <1>3, <1>4, <1>5, <1>6, <1>7, <1>8, <1>9, <1>10, <1>11, <1>12

LEMMA SinkEventNewSegmentKeeps == Inv /\ SinkEventNewSegment => Inv'
<1> SUFFICES ASSUME Inv, SinkEventNewSegment PROVE Inv'
  OBVIOUS
<1> USE DEF Inv, SinkEventNewSegment, Return
<1>a. /\ cache \in Caches /\ position \in 0 .. Size /\ pending = "NEWSEGMENT" /\ sres = "OK"
      /\ cache_read_offset \in 0 .. Size
  BY DEF TypeInv, SourceInv
<1>b. /\ pending' = "UNKNOWN" /\ spc = "segment" /\ spc' = "end"
      /\ UNCHANGED <<eos, srcresult, loopTask, item, lres, skip, update, position, jsresult, jsTask,
                     padVars, ctlVars, outVars>>
  OBVIOUS
\* A first segment finds the cache as it was in the beginning.
<1>c. update => /\ position = 0 /\ cache_read_offset = 0 /\ sink_segment.last_stop = 0
                /\ loopTask = "none"
  BY <1>a, <1>b DEF FirstInv, SourceInv, SegmentInv
<1>d. CASE sinkFlushing \/ eos
  <2>1. /\ sres' = "WRONG_STATE"
        /\ UNCHANGED <<cache, cache_read_offset, sink_segment, last_update, unexpected,
                       pending_src_event, instant_seek, lpc>>
    BY <1>d
  <2> HIDE DEF SinkEventNewSegment
  <2> USE <1>a, <1>b, <1>d, <2>1 DEF padVars, ctlVars, outVars
  <2>2. FlagInv'
    BY Zenon DEF FlagInv
  <2>3. TypeInv' /\ SegmentInv' /\ CacheInv' /\ FailInv'
    BY DEF TypeInv, Results, SegmentInv, CacheInv, FailInv
  <2>4. FirstInv'
    BY DEF FirstInv
  <2>5. SourceInv' /\ StepInv'
    BY DEF SourceInv, StepInv
  <2>6. SeekInv' /\ FlowInv' /\ EosInv'
    BY DEF SeekInv, FlowInv, EosInv, Sought, Announced, AnnounceInHand, EosInHand, Sent, ReadAt
  <2>7. TargetInv'
    BY DEF TargetInv, Announced, AnnounceInHand
  <2> QED BY <2>2, <2>3, <2>4, <2>5, <2>6, <2>7
<1>e. CASE ~sinkFlushing /\ ~eos
  <2> DEFINE last == IF update THEN Max2(position, sink_segment.last_stop) ELSE position
  <2>1. /\ unexpected' = FALSE /\ instant_seek' = TRUE /\ sres' = "OK"
        /\ pending_src_event' = NewSegment(position)
        /\ sink_segment' = [start |-> position, stop |-> Size, last_stop |-> last]
        /\ lpc' = lpc \/ (lpc = "wait" /\ lpc' = "woken")
    BY <1>e DEF PositionMessage, SignalAdd
  <2>2. last = position
    BY <1>a, <1>c DEF Max2
  <2>3. /\ cache' \in Caches /\ cache'.read_position = 0 /\ cache'.write_position = 0
        /\ cache_read_offset' = position
    <3>1. CASE update
      <4>1. cache' = FC!create_cache /\ cache_read_offset' = cache_read_offset
        BY <1>e, <3>1
      <4> QED BY <1>c, <3>1, <4>1, Created
    <3>2. CASE ~update
      <4>1. /\ cache' = FC!cache_set_read_position(FC!cache_set_write_position(cache, 0), 0)
            /\ cache_read_offset' = position
        BY <1>e, <3>2
      <4> QED BY <1>a, <4>1, Rewound
    <3> QED BY <3>1, <3>2
  <2>4. /\ pending_src_event' \in Events /\ pending_src_event'.type = "NEWSEGMENT"
        /\ pending_src_event'.start = position
    BY <1>a, <2>1, EventFacts
  <2>5. /\ sink_segment' \in [start : 0 .. Size, stop : -1 .. Size, last_stop : 0 .. Size]
        /\ sink_segment'.start = position /\ sink_segment'.stop = Size
        /\ sink_segment'.last_stop = position
    BY <1>a, <2>1, <2>2, BufferAssumption
  <2> HIDE DEF SinkEventNewSegment, last
  <2> USE <1>a, <1>b, <1>e, <2>3, <2>4, <2>5 DEF padVars, ctlVars, outVars
  <2>6. FlagInv'
    BY <2>1, <1>b, Zenon DEF FlagInv, padVars, ctlVars, outVars
  <2>7. TypeInv'
    BY <2>1 DEF TypeInv, Results
  <2>8. FirstInv'
    BY <2>1, <1>c DEF FirstInv
  <2>9. SourceInv'
    BY <2>1, <1>c DEF SourceInv
  <2>10. StepInv' /\ SegmentInv' /\ CacheInv'
    BY <2>1, <1>c DEF StepInv, InStep, SegmentInv, CacheInv
  <2>11. SeekInv' /\ FailInv'
    BY <2>1 DEF SeekInv, Sought, Announced, FailInv
  <2>12. FlowInv'
    BY <2>1 DEF FlowInv, Announced, AnnounceInHand, Sent, ReadAt
  <2>13. EosInv'
    BY <2>1 DEF EosInv, Announced, EosInHand
  <2>14. TargetInv'
    BY <2>1 DEF TargetInv, Announced, AnnounceInHand
  <2> QED BY <2>6, <2>7, <2>8, <2>9, <2>10, <2>11, <2>12, <2>13, <2>14
<1> QED BY <1>d, <1>e

LEMMA SinkEventEosKeeps == Inv /\ SinkEventEos => Inv'
<1> SUFFICES ASSUME Inv, SinkEventEos PROVE Inv'
  OBVIOUS
<1> USE DEF Inv, SinkEventEos, Return, PositionMessage, SignalAdd,
            bufVars, flagVars, loopVars, srcVars, padVars, ctlVars, outVars
<1>a. raced => raced'
  BY Zenon DEF FlagInv
<1>b. \/ UNCHANGED <<sink_segment, lpc>>
      \/ /\ sink_segment' \in [start : 0 .. Size, stop : -1 .. Size, last_stop : 0 .. Size]
         /\ sink_segment'.start = sink_segment.start
         /\ sink_segment'.last_stop = sink_segment.last_stop
         /\ sink_segment.last_stop >= sink_segment.stop => sink_segment'.stop = sink_segment.stop
         /\ lpc' = lpc \/ (lpc = "wait" /\ lpc' = "woken")
  <2>1. CASE sinkFlushing \/ eos
    BY <2>1
  <2>2. CASE ~(sinkFlushing \/ eos)
    <3>1. lpc' = lpc \/ (lpc = "wait" /\ lpc' = "woken")
      BY <2>2
    <3>2. sink_segment' = [sink_segment EXCEPT !.stop =
                IF sink_segment.last_stop < @ THEN sink_segment.last_stop ELSE @]
      BY <2>2
    <3>3. sink_segment \in [start : 0 .. Size, stop : -1 .. Size, last_stop : 0 .. Size]
      BY DEF TypeInv
    <3> QED BY <3>1, <3>2, <3>3, BufferAssumption
  <2> QED BY <2>1, <2>2
<1>1. FlagInv'
  BY Zenon DEF FlagInv
<1>2. TypeInv'
  BY <1>b DEF TypeInv, Results
<1>3. FirstInv'
  BY DEF FirstInv, SourceInv
<1>4. SourceInv'
  BY DEF SourceInv
<1>5. StepInv'
  BY DEF StepInv, InStep
<1>6. SegmentInv'
  BY <1>b DEF SegmentInv
<1>7. CacheInv'
  BY DEF CacheInv
<1>8. SeekInv'
  BY DEF SeekInv, Sought, Announced
<1>9. FlowInv'
  BY DEF FlowInv, Announced, AnnounceInHand, Sent, ReadAt
<1>10. EosInv'
  <2> SUFFICES ASSUME ~misplaced, ~srcFlushing PROVE EosInv'
    BY <1>b DEF EosInv, EosInHand
  <2>1. dpc = "none" /\ sink_segment.last_stop = cache_read_offset + cache.write_position
    BY DEF SeekInv, SegmentInv
  <2>2. ReadAt = sink_segment.stop /\ cache.read_position <= cache.write_position
          => sink_segment'.stop = sink_segment.stop
    BY <1>b, <2>1, SMTT(30) DEF TypeInv, ReadAt, Caches
  <2> QED BY <1>b, <2>2 DEF EosInv, EosInHand, Announced, ReadAt
<1>11. TargetInv'
  BY DEF TargetInv, Announced, AnnounceInHand
<1>12. FailInv'
  BY DEF FailInv
<1> QED
  BY <1>1, <1>2, <1>3, <1>4, <1>5, <1>6, <1>7, <1>8, <1>9, <1>10, <1>11, <1>12

LEMMA SourceEndKeeps == Inv /\ SourceEnd => Inv'
<1> SUFFICES ASSUME Inv, SourceEnd PROVE Inv'
  OBVIOUS
<1> USE DEF Inv, SourceEnd,
            bufVars, flagVars, loopVars, srcVars, padVars, ctlVars, outVars
<1>1. FlagInv'
  BY Zenon DEF FlagInv
<1>2. TypeInv'
  BY DEF TypeInv, Results
<1>3. FirstInv'
  BY DEF FirstInv
<1>4. SourceInv'
  BY DEF SourceInv
<1>5. StepInv'
  BY DEF StepInv, InStep
<1>6. SegmentInv'
  BY DEF SegmentInv
<1>7. CacheInv'
  BY DEF CacheInv
<1>8. SeekInv'
  BY DEF SeekInv, Sought, Announced
<1>9. FlowInv'
  BY DEF FlowInv, Announced, AnnounceInHand, Sent, ReadAt
<1>10. EosInv'
  BY DEF EosInv, Announced, EosInHand, ReadAt
<1>11. TargetInv'
  BY DEF TargetInv, Announced, AnnounceInHand
<1>12. FailInv'
  BY DEF FailInv
<1> QED
  BY <1>1, <1>2, <1>3, <1>4, <1>5, <1>6, <1>7, <1>8, <1>9, <1>10, <1>11, <1>12

-----------------------------------------------------------------------------
(* The buffer's task.                                                       *)
LEMMA LoopTakeKeeps == Inv /\ LoopTake => Inv'
<1> SUFFICES ASSUME Inv, LoopTake PROVE Inv'
  OBVIOUS
<1> USE DEF Inv, LoopTake
<1> DEFINE c == FC!cache_read_buffer(cache)
           blocks == FC!ReadBlocks(cache)
           ready == FC!cache_has_enough_data(cache) /\ instant_seek
<1>a. /\ UNCHANGED <<cache_read_offset, sink_segment, last_update, eos, instant_seek, loopTask,
                     srcVars, padVars, ctlVars, segmentOut, eosOut, base, raced, misplaced>>
      /\ (lpc = "idle" /\ loopTask = "started") \/ lpc \in {"woken", "next"}
  OBVIOUS
<1>b. /\ cache \in Caches /\ pending_src_event \in Events
      /\ loopTask # "none" /\ kpc \notin Sought
  BY <1>a DEF TypeInv, FirstInv, SeekInv
\* EOS has not come: after it the task does not go on.
<1>c. ~misplaced /\ ~srcFlushing => ~eosOut
  BY <1>a DEF EosInv
<1>d. \/ /\ srcresult = "OK" /\ pending_src_event = None /\ ~ready
         /\ lpc' = "wait"
         /\ UNCHANGED <<cache, unexpected, pending_src_event, srcresult, item, lres, skip, out>>
      \/ /\ srcresult = "OK" /\ pending_src_event # None
         /\ lpc' = "event" /\ item' = pending_src_event /\ pending_src_event' = None
         /\ srcresult' = IF pending_src_event = EOS THEN "UNEXPECTED" ELSE "OK"
         /\ lres' = srcresult'
         /\ skip' = (skip /\ pending_src_event = EOS)
         /\ UNCHANGED <<cache, unexpected, out>>
      \/ /\ srcresult = "OK" /\ pending_src_event = None /\ ready
         /\ cache' = c
         /\ pending_src_event' = IF c.read_position + cache_read_offset = sink_segment.stop
                                 THEN EOS ELSE None
         /\ IF skip THEN lpc' = "next" /\ out' = out \o blocks /\ UNCHANGED item
                    ELSE lpc' = "push" /\ item' = [type |-> "data", blocks |-> blocks] /\ UNCHANGED out
         /\ UNCHANGED <<unexpected, srcresult, lres, skip>>
      \/ /\ srcresult # "OK"
         /\ lpc' = "end"
         /\ unexpected' = (unexpected \/ skip)
         /\ lres' = IF skip THEN "OK" ELSE srcresult
         /\ UNCHANGED <<cache, pending_src_event, srcresult, item, skip, out>>
  OBVIOUS
<1>e. FlagInv'
  <2>1. skip' \in BOOLEAN /\ unexpected' \in BOOLEAN
    BY <1>d, Zenon DEF FlagInv
  <2> QED BY <2>1, <1>a, Zenon DEF FlagInv, srcVars, padVars
<1> HIDE DEF LoopTake, ready
<1> USE DEF srcVars, padVars, ctlVars
\* Nothing to do, or the flow has stopped.
<1>1. ASSUME UNCHANGED <<cache, pending_src_event, item, out>>, lpc' \in {"wait", "end"},
             unexpected => unexpected', lres' \in Results, srcresult' \in Results
      PROVE  Inv'
  <2> USE <1>a, <1>b, <1>1
  <2>1. TypeInv' /\ FirstInv'
    BY DEF TypeInv, FirstInv
  <2>2. SourceInv' /\ StepInv' /\ FailInv'
    BY DEF SourceInv, StepInv, InStep, FailInv
  <2>3. SegmentInv' /\ CacheInv' /\ SeekInv'
    BY DEF SegmentInv, CacheInv, SeekInv, Announced
  <2>4. FlowInv'
    BY DEF FlowInv, Announced, AnnounceInHand, Sent, ReadAt
  <2>5. EosInv'
    BY <1>c DEF EosInv, Announced, EosInHand, ReadAt
  <2>6. TargetInv'
    BY DEF TargetInv, Announced, AnnounceInHand
  <2> QED BY <1>e, <2>1, <2>2, <2>3, <2>4, <2>5, <2>6
\* The pending event is taken.
<1>2. ASSUME UNCHANGED <<cache, unexpected, out>>, lpc' = "event", item' = pending_src_event,
             pending_src_event # None, pending_src_event' = None, srcresult' \in Results,
             lres' = srcresult', pending_src_event = EOS => srcresult' = "UNEXPECTED"
      PROVE  Inv'
  <2> USE <1>a, <1>b, <1>2
  <2>1. /\ None \in Events /\ pending_src_event'.type = "none"
        /\ pending_src_event = EOS \/ pending_src_event.type = "NEWSEGMENT"
        /\ EOS.type = "EOS"
    BY EventFacts
  <2>2. TypeInv' /\ FirstInv'
    BY <2>1 DEF TypeInv, FirstInv
  <2>3. SourceInv' /\ StepInv' /\ FailInv'
    BY DEF SourceInv, StepInv, InStep, FailInv
  <2>4. SegmentInv' /\ CacheInv' /\ SeekInv'
    BY DEF SegmentInv, CacheInv, SeekInv, Sought
  <2>5. FlowInv'
    BY <2>1 DEF FlowInv, Announced, AnnounceInHand, Sent, ReadAt
  <2>6. EosInv'
    BY <1>c, <2>1 DEF EosInv, Announced, EosInHand, ReadAt
  <2>7. TargetInv'
    BY <2>1 DEF TargetInv, Announced, AnnounceInHand
  <2> QED BY <1>e, <2>2, <2>3, <2>4, <2>5, <2>6, <2>7
\* Blocks are read, to be pushed or to be skipped.
<1>3. ASSUME pending_src_event = None, ready, cache' = c,
             UNCHANGED <<unexpected, srcresult, lres>>,
             pending_src_event' = IF c.read_position + cache_read_offset = sink_segment.stop
                                  THEN EOS ELSE None,
             \/ lpc' = "next" /\ out' = out \o blocks /\ item' = item
             \/ /\ lpc' = "push" /\ item' = [type |-> "data", blocks |-> blocks]
                /\ out' = out
      PROVE  Inv'
  <2>1. cache.read_position < cache.write_position /\ instant_seek
    BY <1>3 DEF ready, FC!cache_has_enough_data
  <2>2. /\ blocks \in Seq(Nat) /\ Len(blocks) \in Nat
        /\ c \in Caches /\ c.write_position = cache.write_position /\ c.file = cache.file
        /\ c.read_position = cache.read_position + Len(blocks)
        /\ c.read_position <= cache.write_position
        /\ \A i \in 1 .. Len(blocks) : blocks[i] = cache.file[cache.read_position + i]
    BY <1>b, <2>1, ReadOut
  <2> HIDE DEF c, blocks
  <2>3. /\ cache.read_position \in Nat /\ cache.write_position \in Nat
        /\ cache_read_offset \in 0 .. Size /\ out \in Seq(Nat) /\ c.read_position \in Nat
        /\ Max2(segmentOut, 0) \in Nat /\ Len(out) \in Nat
    BY <2>2, SMTT(30) DEF TypeInv, Caches, Max2
  <2>4. /\ out \o blocks \in Seq(Nat) /\ Len(out \o blocks) = Len(out) + Len(blocks)
        /\ \A i \in 1 .. Len(out) : (out \o blocks)[i] = out[i]
        /\ \A i \in 1 .. Len(out \o blocks) : i > Len(out) => (out \o blocks)[i] = blocks[i - Len(out)]
    BY <2>2, <2>3, ConcatAt
  <2>5. /\ pending_src_event' \in Events /\ pending_src_event.type = "none"
        /\ pending_src_event'.type \in {"none", "EOS"}
        /\ pending_src_event'.type = "EOS" => c.read_position + cache_read_offset = sink_segment.stop
    BY <1>3, EventFacts
  <2>6. item' = [type |-> "data", blocks |-> blocks] => item'.blocks = blocks
    OBVIOUS
  <2>within. \A i \in 1 .. Len(blocks) : cache.read_position + i \in 1 .. cache.write_position
    BY <2>2, <2>3, SMTT(30)
  <2> USE <1>a, <1>b, <1>3
  <2>7. TypeInv' /\ FirstInv'
    <3>1. out' \in Seq(Nat) /\ lpc' \in {"next", "push"} /\ (lpc' = "push" => item'.blocks \in Seq(Nat))
      BY <2>2, <2>3, <2>4, <2>6
    <3>2. cache' \in Caches /\ srcresult' = srcresult /\ lres' = lres
      BY <2>2
    <3> QED BY <2>5, <3>1, <3>2 DEF TypeInv, FirstInv
  <2>8. SourceInv' /\ StepInv' /\ FailInv'
    BY <2>2 DEF SourceInv, StepInv, InStep, FailInv
  <2>9. SegmentInv' /\ SeekInv'
    BY <2>2, <2>3 DEF SegmentInv, SeekInv, Sought
  <2>10. CacheInv'
    <3> SUFFICES ASSUME ~misplaced PROVE CacheInv'
      BY DEF CacheInv
    <3>1. cache_read_offset + c.read_position <= Size
      BY <2>2, <2>3, BufferAssumption, SMTT(30) DEF CacheInv
    <3>2. /\ cache'.read_position = c.read_position /\ cache'.file = cache.file
          /\ cache'.write_position = cache.write_position
      BY <2>2
    <3> QED BY <3>1, <3>2 DEF CacheInv
  <2>11. FlowInv'
    <3> SUFFICES ASSUME ~misplaced, ~srcFlushing PROVE FlowInv'
      BY <2>5 DEF FlowInv, Announced
    <3>1. /\ Sent = ReadAt /\ \A i \in 1 .. Len(out) : out[i] = Max2(segmentOut, 0) + i - 1
          /\ ~(seeks > 0 /\ segmentOut = -1)
      BY <2>1, <2>5 DEF FlowInv, Announced, AnnounceInHand
    <3>2. ReadAt' = Sent + Len(blocks)
      BY <2>2, <2>3, <3>1 DEF ReadAt
    \* The blocks follow what has been sent.
    <3>3. ASSUME NEW i \in 1 .. Len(blocks) PROVE blocks[i] = Sent + i - 1
      <4>1. cache.read_position + i \in 1 .. cache.write_position
        BY <2>within
      <4>2. blocks[i] = cache_read_offset + (cache.read_position + i) - 1
        BY <2>2, <4>1 DEF CacheInv
      <4> QED BY <2>3, <3>1, <4>2 DEF ReadAt
    <3>4. ~Announced' /\ ~AnnounceInHand'
      BY <2>5 DEF Announced, AnnounceInHand
    <3>5. CASE lpc' = "push" /\ item' = [type |-> "data", blocks |-> blocks] /\ out' = out
      <4>1. Sent' = Sent /\ item'.blocks = blocks
        BY <2>6, <3>5 DEF Sent
      <4> QED BY <3>1, <3>2, <3>3, <3>4, <3>5, <4>1 DEF FlowInv
    <3>6. CASE lpc' = "next" /\ out' = out \o blocks
      <4>1. Sent' = Sent + Len(blocks)
        BY <2>2, <2>3, <2>4, <3>6 DEF Sent
      <4>2. ASSUME NEW i \in 1 .. Len(out') PROVE out'[i] = Max2(segmentOut, 0) + i - 1
        <5>1. CASE i <= Len(out)
          BY <2>3, <2>4, <3>1, <3>6, <5>1
        <5>2. CASE i > Len(out)
          <6>1. i - Len(out) \in 1 .. Len(blocks) /\ out'[i] = blocks[i - Len(out)]
            BY <2>2, <2>3, <2>4, <3>6, <5>2
          <6>2. blocks[i - Len(out)] = Sent + (i - Len(out)) - 1
            BY <3>3, <6>1
          <6> QED BY <2>3, <6>1, <6>2 DEF Sent
        <5>3. Len(out') \in Nat /\ i \in Nat
          BY <2>2, <2>3, <2>4, <3>6
        <5> QED BY <2>3, <5>1, <5>2, <5>3
      <4> QED BY <3>1, <3>2, <3>4, <3>6, <4>1, <4>2 DEF FlowInv
    <3> QED BY <3>5, <3>6
  <2>12. EosInv'
    BY <1>c, <2>1, <2>2, <2>3, <2>5 DEF EosInv, Announced, EosInHand, ReadAt
  <2>13. TargetInv'
    BY <2>5 DEF TargetInv, Announced, AnnounceInHand
  <2> QED BY <1>e, <2>7, <2>8, <2>9, <2>10, <2>11, <2>12, <2>13
<1>4. lres' \in Results /\ srcresult' \in Results
  BY <1>d DEF TypeInv, Results
<1>5. unexpected' = unexpected \/ (unexpected => unexpected')
  BY <1>d, Zenon DEF FlagInv
<1> QED BY <1>d, <1>1, <1>2, <1>3, <1>4, <1>5

LEMMA LoopPushEventKeeps == Inv /\ LoopPushEvent => Inv'
<1> SUFFICES ASSUME Inv, LoopPushEvent PROVE Inv'
  OBVIOUS
<1> USE DEF Inv, LoopPushEvent,
            bufVars, flagVars, loopVars, srcVars, padVars, ctlVars, outVars
<1>a. eosOut' \in BOOLEAN /\ (eosOut' <=> (eosOut \/ (item = EOS /\ ~srcFlushing)))
  BY Zenon DEF FlagInv
<1>b. /\ item \in Events /\ (item = EOS => item.type = "EOS")
      /\ item.type = "NEWSEGMENT" => item.start \in 0 .. Size /\ item # EOS
  BY EventFacts DEF TypeInv
<1>1. FlagInv'
  BY Zenon DEF FlagInv
<1>2. TypeInv'
  <2>1. CASE item.type = "NEWSEGMENT" /\ ~srcFlushing
    <3>1. out' = <<>> /\ segmentOut' \in -1 .. Size
      BY <1>b, <2>1, BufferAssumption
    <3> QED BY <3>1 DEF TypeInv
  <2>2. CASE ~(item.type = "NEWSEGMENT" /\ ~srcFlushing)
    BY <2>2 DEF TypeInv
  <2> QED BY <2>1, <2>2
<1>3. FirstInv'
  BY DEF FirstInv
<1>4. SourceInv'
  BY DEF SourceInv
<1>5. StepInv'
  BY DEF StepInv, InStep
<1>6. SegmentInv'
  BY DEF SegmentInv
<1>7. CacheInv'
  BY DEF CacheInv
<1>8. SeekInv'
  BY DEF SeekInv, Sought, Announced
<1>9. FlowInv'
  BY <1>b DEF FlowInv, Announced, AnnounceInHand, Sent, ReadAt, Max2
<1>10. EosInv'
  BY <1>a, <1>b DEF EosInv, Announced, EosInHand, ReadAt
<1>11. TargetInv'
  BY DEF TargetInv, Announced, AnnounceInHand
<1>12. FailInv'
  BY DEF FailInv
<1> QED
  BY <1>1, <1>2, <1>3, <1>4, <1>5, <1>6, <1>7, <1>8, <1>9, <1>10, <1>11, <1>12

LEMMA LoopPushKeeps == Inv /\ LoopPush => Inv'
<1> SUFFICES ASSUME Inv, LoopPush PROVE Inv'
  OBVIOUS
<1> USE DEF Inv, LoopPush,
            bufVars, flagVars, loopVars, srcVars, padVars, ctlVars, outVars
<1>a. out' = out \/ (~srcFlushing /\ out' = out \o item.blocks)
  OBVIOUS
<1>b. /\ out \o item.blocks \in Seq(Nat) /\ Len(out) \in Nat /\ Len(item.blocks) \in Nat
      /\ Len(out \o item.blocks) = Len(out) + Len(item.blocks)
      /\ \A i \in 1 .. Len(out) : (out \o item.blocks)[i] = out[i]
      /\ \A i \in 1 .. Len(out \o item.blocks) :
           i > Len(out) => (out \o item.blocks)[i] = item.blocks[i - Len(out)]
  <2>1. out \in Seq(Nat) /\ item.blocks \in Seq(Nat)
    BY DEF TypeInv
  <2> QED BY <2>1, ConcatAt
<1>1. FlagInv'
  BY Zenon DEF FlagInv
<1>2. TypeInv'
  <2>1. out' \in Seq(Nat)
    BY <1>a, <1>b DEF TypeInv
  <2>2. lres' \in Results
    BY DEF Results
  <2> QED BY <2>1, <2>2 DEF TypeInv
<1>3. FirstInv'
  BY DEF FirstInv
<1>4. SourceInv'
  BY DEF SourceInv
<1>5. StepInv'
  BY DEF StepInv, InStep
<1>6. SegmentInv'
  BY DEF SegmentInv
<1>7. CacheInv'
  BY DEF CacheInv
<1>8. SeekInv'
  BY DEF SeekInv, Sought, Announced
<1>9. FlowInv'
  <2> SUFFICES ASSUME ~misplaced, ~srcFlushing PROVE FlowInv'
    BY DEF FlowInv, Announced, ReadAt
  <2>1. out' = out \o item.blocks
    BY Zenon
  <2>2. /\ \A i \in 1 .. Len(out) : out[i] = Max2(segmentOut, 0) + i - 1
        /\ \A i \in 1 .. Len(item.blocks) : item.blocks[i] = Sent + i - 1
        /\ ~Announced => Sent + Len(item.blocks) = ReadAt
    BY DEF FlowInv
  <2>3. Max2(segmentOut, 0) \in Nat
    BY DEF TypeInv, Max2
  <2>4. ASSUME NEW i \in 1 .. Len(out') PROVE out'[i] = Max2(segmentOut, 0) + i - 1
    <3>1. CASE i <= Len(out)
      BY <1>b, <2>1, <2>2, <3>1
    <3>2. CASE i > Len(out)
      <4>1. i - Len(out) \in 1 .. Len(item.blocks) /\ out'[i] = item.blocks[i - Len(out)]
        BY <1>b, <2>1, <3>2
      <4>2. item.blocks[i - Len(out)] = Sent + (i - Len(out)) - 1
        BY <2>2, <4>1
      <4> QED BY <1>b, <2>3, <4>1, <4>2 DEF Sent
    <3> QED BY <1>b, <2>1, <3>1, <3>2
  <2>5. Sent' = Sent + Len(item.blocks)
    BY <1>b, <2>1, <2>3 DEF Sent
  <2>6. Announced' = Announced /\ ReadAt' = ReadAt /\ lpc' = "pushed" /\ segmentOut' = segmentOut
    BY DEF Announced, ReadAt
  <2>7. ~(seeks > 0 /\ segmentOut = -1)
    BY DEF FlowInv
  <2> QED BY <2>2, <2>4, <2>5, <2>6, <2>7 DEF FlowInv, AnnounceInHand
<1>10. EosInv'
  BY DEF EosInv, Announced, EosInHand, ReadAt
<1>11. TargetInv'
  BY DEF TargetInv, Announced, AnnounceInHand
<1>12. FailInv'
  BY DEF FailInv
<1> QED
  BY <1>1, <1>2, <1>3, <1>4, <1>5, <1>6, <1>7, <1>8, <1>9, <1>10, <1>11, <1>12

LEMMA LoopResultKeeps == Inv /\ LoopResult => Inv'
<1> SUFFICES ASSUME Inv, LoopResult PROVE Inv'
  OBVIOUS
<1> USE DEF Inv, LoopResult,
            bufVars, flagVars, loopVars, srcVars, padVars, ctlVars, outVars
<1>1. FlagInv'
  BY Zenon DEF FlagInv
<1>2. TypeInv'
  BY DEF TypeInv, Results
<1>3. FirstInv'
  BY DEF FirstInv
<1>4. SourceInv'
  BY DEF SourceInv
<1>5. StepInv'
  BY DEF StepInv, InStep
<1>6. SegmentInv'
  BY DEF SegmentInv
<1>7. CacheInv'
  BY DEF CacheInv
<1>8. SeekInv'
  BY DEF SeekInv, Sought, Announced
<1>9. FlowInv'
  BY DEF FlowInv, Announced, AnnounceInHand, Sent, ReadAt
<1>10. EosInv'
  BY DEF EosInv, Announced, EosInHand, ReadAt
<1>11. TargetInv'
  BY DEF TargetInv, Announced, AnnounceInHand
<1>12. FailInv'
  BY DEF FailInv
<1> QED
  BY <1>1, <1>2, <1>3, <1>4, <1>5, <1>6, <1>7, <1>8, <1>9, <1>10, <1>11, <1>12

LEMMA LoopEndKeeps == Inv /\ LoopEnd => Inv'
<1> SUFFICES ASSUME Inv, LoopEnd PROVE Inv'
  OBVIOUS
<1> USE DEF Inv, LoopEnd,
            bufVars, flagVars, loopVars, srcVars, padVars, ctlVars, outVars
<1>1. FlagInv'
  BY Zenon DEF FlagInv
<1>2. TypeInv'
  BY DEF TypeInv, Results
<1>3. FirstInv'
  BY DEF FirstInv
<1>4. SourceInv'
  BY DEF SourceInv
<1>5. StepInv'
  BY DEF StepInv, InStep
<1>6. SegmentInv'
  BY DEF SegmentInv
<1>7. CacheInv'
  BY DEF CacheInv
<1>8. SeekInv'
  BY DEF SeekInv, Sought, Announced
<1>9. FlowInv'
  BY DEF FlowInv, Announced, AnnounceInHand, Sent, ReadAt
<1>10. EosInv'
  BY DEF EosInv, Announced, EosInHand, ReadAt
<1>11. TargetInv'
  BY DEF TargetInv, Announced, AnnounceInHand
<1>12. FailInv'
  BY DEF FailInv
<1> QED
  BY <1>1, <1>2, <1>3, <1>4, <1>5, <1>6, <1>7, <1>8, <1>9, <1>10, <1>11, <1>12

-----------------------------------------------------------------------------
(* Seeks.                                                                   *)
LEMMA SeekStartKeeps == Inv /\ SeekStart => Inv'
<1> SUFFICES ASSUME Inv, SeekStart PROVE Inv'
  OBVIOUS
<1> USE DEF Inv, SeekStart,
            bufVars, flagVars, loopVars, srcVars, padVars, ctlVars, outVars
<1>1. FlagInv'
  BY Zenon DEF FlagInv
<1>2. TypeInv'
  BY DEF TypeInv
<1>3. FirstInv'
  BY DEF FirstInv
<1>4. SourceInv'
  BY DEF SourceInv
<1>5. StepInv'
  BY DEF StepInv, InStep
<1>6. SegmentInv'
  BY DEF SegmentInv
<1>7. CacheInv'
  BY DEF CacheInv
<1>8. SeekInv'
  BY DEF SeekInv, Sought, Announced
<1>9. FlowInv'
  BY DEF FlowInv, Announced, AnnounceInHand, Sent, ReadAt
<1>10. EosInv'
  BY DEF EosInv, Announced, EosInHand, ReadAt
<1>11. TargetInv'
  BY DEF TargetInv, Announced, AnnounceInHand
<1>12. FailInv'
  BY DEF FailInv
<1> QED
  BY <1>1, <1>2, <1>3, <1>4, <1>5, <1>6, <1>7, <1>8, <1>9, <1>10, <1>11, <1>12

LEMMA SeekSignalKeeps == Inv /\ SeekSignal => Inv'
<1> SUFFICES ASSUME Inv, SeekSignal PROVE Inv'
  OBVIOUS
<1> USE DEF Inv, SeekSignal, SignalAdd,
            bufVars, flagVars, loopVars, srcVars, padVars, ctlVars, outVars
<1>1. FlagInv'
  BY Zenon DEF FlagInv
<1>2. TypeInv'
  BY DEF TypeInv, Results
<1>3. FirstInv'
  BY DEF FirstInv
<1>4. SourceInv'
  BY DEF SourceInv
<1>5. StepInv'
  BY DEF StepInv, InStep
<1>6. SegmentInv'
  BY DEF SegmentInv
<1>7. CacheInv'
  BY DEF CacheInv
<1>8. SeekInv'
  BY DEF SeekInv, Sought, Announced
<1>9. FlowInv'
  BY DEF FlowInv, Announced, AnnounceInHand, Sent, ReadAt
<1>10. EosInv'
  BY DEF EosInv, Announced, EosInHand, ReadAt
<1>11. TargetInv'
  BY DEF TargetInv, Announced, AnnounceInHand
<1>12. FailInv'
  BY DEF FailInv
<1> QED
  BY <1>1, <1>2, <1>3, <1>4, <1>5, <1>6, <1>7, <1>8, <1>9, <1>10, <1>11, <1>12

LEMMA SeekDecideKeeps == Inv /\ SeekDecide => Inv'
<1> SUFFICES ASSUME Inv, SeekDecide PROVE Inv'
  OBVIOUS
<1> USE DEF Inv, SeekDecide
<1>a. PICK p \in 0 .. Size - 1, tolerance \in Tolerances :
        /\ target' = p /\ base' = p
        /\ IF p >= sink_segment.start /\ p - sink_segment.last_stop <= tolerance
           THEN ServeFromCache(p) /\ UNCHANGED eos
           ELSE /\ instant_seek' = FALSE /\ eos' = FALSE /\ pending_src_event' = None
                /\ UNCHANGED cache
  BY Zenon
<1>b. p \in 0 .. Size /\ cache \in Caches /\ cache_read_offset \in 0 .. Size
  BY BufferAssumption DEF TypeInv
<1>c. /\ kpc = "lock" /\ dpc = "none" /\ srcFlushing /\ lpc = "idle" /\ loopTask = "paused"
      /\ sink_segment.start = cache_read_offset
  BY DEF SeekInv, SegmentInv
<1>d. raced' <=> (raced \/ pending = "NEWSEGMENT")
  BY Zenon DEF FlagInv
\* The position is served from the cache, or nothing is read any more.
<1>e. /\ cache' \in Caches /\ cache'.write_position = cache.write_position
      /\ cache'.file = cache.file /\ pending_src_event' \in Events
      /\ \/ /\ cache_read_offset + cache'.read_position = p
            /\ pending_src_event'.type = "NEWSEGMENT" /\ pending_src_event'.start = p
         \/ /\ cache' = cache /\ pending_src_event' = None
            /\ pending_src_event'.type = "none" /\ ~instant_seek'
  <2>1. CASE p >= sink_segment.start /\ p - sink_segment.last_stop <= tolerance
    <3>1. /\ cache' = FC!cache_set_read_position(cache, p - cache_read_offset)
          /\ pending_src_event' = NewSegment(p)
      BY <1>a, <2>1 DEF ServeFromCache
    <3>2. p - cache_read_offset \in Int /\ p - cache_read_offset >= 0
      BY <1>b, <1>c, <2>1
    <3>3. /\ cache' \in Caches /\ cache'.write_position = cache.write_position
          /\ cache'.file = cache.file /\ cache'.read_position = p - cache_read_offset
      BY <1>b, <3>1, <3>2, ReadSet
    <3>4. cache_read_offset + cache'.read_position = p
      BY <1>b, <3>3
    <3> QED BY <1>b, <3>1, <3>3, <3>4, EventFacts
  <2>2. CASE ~(p >= sink_segment.start /\ p - sink_segment.last_stop <= tolerance)
    <3>1. ~instant_seek' /\ pending_src_event' = None /\ cache' = cache
      BY <1>a, <2>2
    <3> QED BY <1>b, <3>1, EventFacts
  <2> QED BY <2>1, <2>2
<1>f. seeks' = seeks + 1 /\ seeks \in Nat /\ kpc' = "stop" /\ srcresult' = "OK" /\ target' = p /\ base' = p
  BY <1>a DEF TypeInv
<1>g. UNCHANGED <<cache_read_offset, sink_segment, last_update, unexpected, loopVars, srcVars,
                 padVars, dpc, out, segmentOut, eosOut, misplaced>>
  OBVIOUS
<1>h. FlagInv'
  <2>1. raced' \in BOOLEAN /\ instant_seek' \in BOOLEAN /\ eos' \in BOOLEAN
    BY <1>a, Zenon DEF FlagInv, ServeFromCache
  <2> QED BY <2>1, <1>g, Zenon DEF FlagInv, loopVars, srcVars, padVars
<1> HIDE DEF SeekDecide
<1> USE DEF loopVars, srcVars, padVars
<1>1. FlagInv'
  BY <1>h
<1>2. TypeInv'
  BY <1>b, <1>c, <1>d, <1>e, <1>f, <1>g DEF TypeInv, Results
<1>3. FirstInv'
  BY <1>b, <1>c, <1>d, <1>e, <1>f, <1>g DEF FirstInv
<1>4. SourceInv'
  BY <1>b, <1>c, <1>d, <1>e, <1>f, <1>g DEF SourceInv
<1>5. StepInv'
  BY <1>b, <1>c, <1>d, <1>e, <1>f, <1>g DEF StepInv, InStep
<1>6. SegmentInv'
  BY <1>b, <1>c, <1>d, <1>e, <1>f, <1>g DEF SegmentInv
<1>7. CacheInv'
  BY <1>b, <1>c, <1>d, <1>e, <1>f, <1>g DEF CacheInv
<1>8. SeekInv'
  BY <1>b, <1>c, <1>d, <1>e, <1>f, <1>g DEF SeekInv, Sought, Announced
<1>9. FlowInv'
  BY <1>b, <1>c, <1>d, <1>e, <1>f, <1>g DEF FlowInv, Announced, AnnounceInHand, Sent, ReadAt
<1>10. EosInv'
  BY <1>b, <1>c, <1>d, <1>e, <1>f, <1>g DEF EosInv, Announced, EosInHand, ReadAt
<1>11. TargetInv'
  BY <1>b, <1>c, <1>d, <1>e, <1>f, <1>g DEF TargetInv, Announced, AnnounceInHand
<1>12. FailInv'
  BY <1>b, <1>c, <1>d, <1>e, <1>f, <1>g DEF FailInv
<1> QED
  BY <1>1, <1>2, <1>3, <1>4, <1>5, <1>6, <1>7, <1>8, <1>9, <1>10, <1>11, <1>12

LEMMA SeekStopFlushKeeps == Inv /\ SeekStopFlush => Inv'
<1> SUFFICES ASSUME Inv, SeekStopFlush PROVE Inv'
  OBVIOUS
<1> USE DEF Inv, SeekStopFlush,
            bufVars, flagVars, loopVars, srcVars, padVars, ctlVars, outVars
<1>1. FlagInv'
  BY Zenon DEF FlagInv
<1>2. TypeInv'
  <2>1. out' \in Seq(Nat) /\ segmentOut' \in -1 .. Size
    BY BufferAssumption
  <2>2. kpc' \in {"start", "flag"}
    OBVIOUS
  <2> QED BY <2>1, <2>2 DEF TypeInv, Results
<1>3. FirstInv'
  BY DEF FirstInv
<1>4. SourceInv'
  BY DEF SourceInv
<1>5. StepInv'
  BY DEF StepInv, InStep
<1>6. SegmentInv'
  BY DEF SegmentInv
<1>7. CacheInv'
  BY DEF CacheInv
<1>8. SeekInv'
  BY DEF SeekInv, Sought, Announced
<1>9. FlowInv'
  BY DEF FlowInv, Announced, AnnounceInHand, Sent, ReadAt, SeekInv, Sought
<1>10. EosInv'
  <2>1. None.type = "none" /\ lpc' = "idle"
    BY EventFacts DEF SeekInv, Sought
  <2> QED BY <2>1 DEF EosInv, Announced, EosInHand, ReadAt, SeekInv, Sought
<1>11. TargetInv'
  BY DEF TargetInv, Announced, AnnounceInHand
<1>12. FailInv'
  BY DEF FailInv
<1> QED
  BY <1>1, <1>2, <1>3, <1>4, <1>5, <1>6, <1>7, <1>8, <1>9, <1>10, <1>11, <1>12

LEMMA SeekStopSourceKeeps == Inv /\ SeekStopSource => Inv'
<1> SUFFICES ASSUME Inv, SeekStopSource PROVE Inv'
  OBVIOUS
<1> USE DEF Inv, SeekStopSource,
            bufVars, flagVars, loopVars, srcVars, padVars, ctlVars, outVars
<1>1. FlagInv'
  BY Zenon DEF FlagInv
<1>2. TypeInv'
  BY DEF TypeInv, Results
<1>3. FirstInv'
  BY DEF FirstInv
<1>4. SourceInv'
  BY DEF SourceInv
<1>5. StepInv'
  BY DEF StepInv, InStep
<1>6. SegmentInv'
  BY DEF SegmentInv
<1>7. CacheInv'
  BY DEF CacheInv
<1>8. SeekInv'
  BY DEF SeekInv, Sought, Announced
<1>9. FlowInv'
  BY DEF FlowInv, Announced, AnnounceInHand, Sent, ReadAt
<1>10. EosInv'
  BY DEF EosInv, Announced, EosInHand, ReadAt
<1>11. TargetInv'
  BY DEF TargetInv, Announced, AnnounceInHand
<1>12. FailInv'
  BY DEF FailInv
<1> QED
  BY <1>1, <1>2, <1>3, <1>4, <1>5, <1>6, <1>7, <1>8, <1>9, <1>10, <1>11, <1>12

LEMMA SeekDataKeeps == Inv /\ SeekData => Inv'
<1> SUFFICES ASSUME Inv, SeekData PROVE Inv'
  OBVIOUS
<1> USE DEF Inv, SeekData,
            bufVars, flagVars, loopVars, srcVars, padVars, ctlVars, outVars
<1>a. misplaced' \in BOOLEAN /\ (misplaced => misplaced')
  BY Zenon DEF FlagInv
<1>1. FlagInv'
  BY Zenon DEF FlagInv
<1>2. TypeInv'
  BY <1>a DEF TypeInv, Results
<1>3. FirstInv'
  BY DEF FirstInv
<1>4. SourceInv'
  BY DEF SourceInv
<1>5. StepInv'
  BY DEF StepInv, InStep
<1>6. SegmentInv'
  BY DEF SegmentInv
<1>7. CacheInv'
  BY DEF CacheInv
<1>8. SeekInv'
  BY DEF SeekInv, Sought, Announced
<1>9. FlowInv'
  BY DEF FlowInv, Announced, AnnounceInHand, Sent, ReadAt
<1>10. EosInv'
  BY DEF EosInv, Announced, EosInHand, ReadAt
<1>11. TargetInv'
  BY DEF TargetInv, Announced, AnnounceInHand
<1>12. FailInv'
  BY DEF FailInv
<1> QED
  BY <1>1, <1>2, <1>3, <1>4, <1>5, <1>6, <1>7, <1>8, <1>9, <1>10, <1>11, <1>12

LEMMA SeekFailedKeeps == Inv /\ SeekFailed => Inv'
<1> SUFFICES ASSUME Inv, SeekFailed PROVE Inv'
  OBVIOUS
<1> USE DEF Inv, SeekFailed, ServeFromCache
<1>a. /\ cache \in Caches /\ cache_read_offset \in 0 .. Size /\ target \in 0 .. Size
      /\ dpc = "none" /\ lpc = "idle" /\ loopTask = "paused" /\ out = <<>> /\ segmentOut = -1
      /\ ~eosOut
  BY DEF TypeInv, SeekInv, Sought
<1>b. misplaced' <=> (misplaced \/ target < cache_read_offset)
  BY Zenon DEF FlagInv
<1>c. /\ pending_src_event' \in Events /\ pending_src_event'.type = "NEWSEGMENT"
      /\ pending_src_event'.start = target
  BY <1>a, EventFacts
<1>d. /\ cache' \in Caches /\ cache'.write_position = cache.write_position
      /\ cache'.file = cache.file
      /\ target >= cache_read_offset => cache_read_offset + cache'.read_position = target
  <2>1. target - cache_read_offset \in Int
    BY <1>a
  <2>2. cache' = FC!cache_set_read_position(cache, target - cache_read_offset)
    OBVIOUS
  <2>3. /\ cache' \in Caches /\ cache'.write_position = cache.write_position
        /\ cache'.file = cache.file
        /\ target - cache_read_offset >= 0 => cache'.read_position = target - cache_read_offset
    BY <1>a, <2>1, <2>2, ReadSet
  <2> QED BY <1>a, <2>3
<1>e. FlagInv'
  <2>1. misplaced' \in BOOLEAN /\ instant_seek' \in BOOLEAN
    BY Zenon DEF FlagInv
  <2> QED BY <2>1, Zenon DEF FlagInv, loopVars, srcVars, padVars
<1>f. /\ kpc = "failed" /\ kpc' = "start"
      /\ UNCHANGED <<cache_read_offset, sink_segment, last_update, unexpected, eos, srcresult, loopVars,
                 srcVars, padVars, target, dpc, seeks, out, segmentOut, eosOut, base, raced>>
  OBVIOUS
<1> HIDE DEF SeekFailed
<1> USE DEF loopVars, srcVars, padVars
<1>1. FlagInv'
  BY <1>e
<1>2. TypeInv'
  BY <1>a, <1>b, <1>c, <1>d, <1>f DEF TypeInv
<1>3. FirstInv'
  BY <1>a, <1>b, <1>c, <1>d, <1>f DEF FirstInv
<1>4. SourceInv'
  BY <1>a, <1>b, <1>c, <1>d, <1>f DEF SourceInv
<1>5. StepInv'
  BY <1>a, <1>b, <1>c, <1>d, <1>f DEF StepInv, InStep
<1>6. SegmentInv'
  BY <1>a, <1>b, <1>c, <1>d, <1>f DEF SegmentInv
<1>7. CacheInv'
  BY <1>a, <1>b, <1>c, <1>d, <1>f DEF CacheInv
<1>8. SeekInv'
  BY <1>a, <1>b, <1>c, <1>d, <1>f DEF SeekInv, Sought, Announced
<1>9. FlowInv'
  BY <1>a, <1>b, <1>c, <1>d, <1>f DEF FlowInv, Announced, AnnounceInHand, Sent, ReadAt
<1>10. EosInv'
  BY <1>a, <1>b, <1>c, <1>d, <1>f DEF EosInv, Announced, EosInHand, ReadAt
<1>11. TargetInv'
  BY <1>a, <1>b, <1>c, <1>d, <1>f DEF TargetInv, Announced, AnnounceInHand
<1>12. FailInv'
  BY <1>a, <1>b, <1>c, <1>d, <1>f DEF FailInv
<1> QED
  BY <1>1, <1>2, <1>3, <1>4, <1>5, <1>6, <1>7, <1>8, <1>9, <1>10, <1>11, <1>12

LEMMA SeekRestartKeeps == Inv /\ SeekRestart => Inv'
<1> SUFFICES ASSUME Inv, SeekRestart PROVE Inv'
  OBVIOUS
<1> USE DEF Inv, SeekRestart,
            bufVars, flagVars, loopVars, srcVars, padVars, ctlVars, outVars
<1>1. FlagInv'
  BY Zenon DEF FlagInv
<1>2. TypeInv'
  BY DEF TypeInv
<1>3. FirstInv'
  BY DEF FirstInv
<1>4. SourceInv'
  BY DEF SourceInv, SeekInv, Sought
<1>5. StepInv'
  BY DEF StepInv, InStep
<1>6. SegmentInv'
  BY DEF SegmentInv
<1>7. CacheInv'
  BY DEF CacheInv
<1>8. SeekInv'
  BY DEF SeekInv, Sought, Announced
<1>9. FlowInv'
  BY DEF FlowInv, Announced, AnnounceInHand, Sent, ReadAt
<1>10. EosInv'
  BY DEF EosInv, Announced, EosInHand, ReadAt, SeekInv, Sought
<1>11. TargetInv'
  BY DEF TargetInv, Announced, AnnounceInHand
<1>12. FailInv'
  BY DEF FailInv
<1> QED
  BY <1>1, <1>2, <1>3, <1>4, <1>5, <1>6, <1>7, <1>8, <1>9, <1>10, <1>11, <1>12

-----------------------------------------------------------------------------
(* Disposal.                                                                *)
LEMMA DisposeSrcPadKeeps == Inv /\ DisposeSrcPad => Inv'
<1> SUFFICES ASSUME Inv, DisposeSrcPad PROVE Inv'
  OBVIOUS
<1> USE DEF Inv, DisposeSrcPad, SignalAdd,
            bufVars, flagVars, loopVars, srcVars, padVars, ctlVars, outVars
<1>1. FlagInv'
  BY Zenon DEF FlagInv
<1>2. TypeInv'
  BY DEF TypeInv, Results
<1>3. FirstInv'
  BY DEF FirstInv
<1>4. SourceInv'
  BY DEF SourceInv
<1>5. StepInv'
  BY DEF StepInv, InStep
<1>6. SegmentInv'
  BY DEF SegmentInv
<1>7. CacheInv'
  BY DEF CacheInv
<1>8. SeekInv'
  BY DEF SeekInv, Sought, Announced
<1>9. FlowInv'
  BY DEF FlowInv, Announced, AnnounceInHand, Sent, ReadAt
<1>10. EosInv'
  BY DEF EosInv, Announced, EosInHand, ReadAt
<1>11. TargetInv'
  BY DEF TargetInv, Announced, AnnounceInHand
<1>12. FailInv'
  BY DEF FailInv
<1> QED
  BY <1>1, <1>2, <1>3, <1>4, <1>5, <1>6, <1>7, <1>8, <1>9, <1>10, <1>11, <1>12

LEMMA DisposeSinkPadKeeps == Inv /\ DisposeSinkPad => Inv'
<1> SUFFICES ASSUME Inv, DisposeSinkPad PROVE Inv'
  OBVIOUS
<1> USE DEF Inv, DisposeSinkPad,
            bufVars, flagVars, loopVars, srcVars, padVars, ctlVars, outVars
<1>1. FlagInv'
  BY Zenon DEF FlagInv
<1>2. TypeInv'
  BY DEF TypeInv
<1>3. FirstInv'
  BY DEF FirstInv
<1>4. SourceInv'
  BY DEF SourceInv
<1>5. StepInv'
  BY DEF StepInv, InStep
<1>6. SegmentInv'
  BY DEF SegmentInv
<1>7. CacheInv'
  BY DEF CacheInv
<1>8. SeekInv'
  BY DEF SeekInv, Sought, Announced
<1>9. FlowInv'
  BY DEF FlowInv, Announced, AnnounceInHand, Sent, ReadAt
<1>10. EosInv'
  BY DEF EosInv, Announced, EosInHand, ReadAt
<1>11. TargetInv'
  BY DEF TargetInv, Announced, AnnounceInHand
<1>12. FailInv'
  BY DEF FailInv
<1> QED
  BY <1>1, <1>2, <1>3, <1>4, <1>5, <1>6, <1>7, <1>8, <1>9, <1>10, <1>11, <1>12

LEMMA DisposeStateKeeps == Inv /\ DisposeState => Inv'
<1> SUFFICES ASSUME Inv, DisposeState PROVE Inv'
  OBVIOUS
<1> USE DEF Inv, DisposeState, SignalAdd,
            bufVars, flagVars, loopVars, srcVars, padVars, ctlVars, outVars
<1>a. None \in Events /\ None.type = "none"
  BY EventFacts
<1>b. sink_segment' \in [start : 0 .. Size, stop : -1 .. Size, last_stop : 0 .. Size]
  BY BufferAssumption
<1>1. FlagInv'
  BY Zenon DEF FlagInv
<1>2. TypeInv'
  BY <1>a, <1>b DEF TypeInv, Results
<1>3. FirstInv'
  BY DEF FirstInv
<1>4. SourceInv'
  BY DEF SourceInv
<1>5. StepInv'
  BY DEF StepInv, InStep, SeekInv
<1>6. SegmentInv'
  BY DEF SegmentInv
<1>7. CacheInv'
  BY DEF CacheInv
<1>8. SeekInv'
  BY DEF SeekInv, Sought, Announced
<1>9. FlowInv'
  BY <1>a DEF FlowInv, Announced, AnnounceInHand, Sent, ReadAt, SeekInv
<1>10. EosInv'
  BY DEF EosInv, Announced, EosInHand, ReadAt, SeekInv
<1>11. TargetInv'
  BY <1>a DEF TargetInv, Announced, AnnounceInHand
<1>12. FailInv'
  BY DEF FailInv
<1> QED
  BY <1>1, <1>2, <1>3, <1>4, <1>5, <1>6, <1>7, <1>8, <1>9, <1>10, <1>11, <1>12

LEMMA DisposeSourceKeeps == Inv /\ DisposeSource => Inv'
<1> SUFFICES ASSUME Inv, DisposeSource PROVE Inv'
  OBVIOUS
<1> USE DEF Inv, DisposeSource,
            bufVars, flagVars, loopVars, srcVars, padVars, ctlVars, outVars
<1>1. FlagInv'
  BY Zenon DEF FlagInv
<1>2. TypeInv'
  BY DEF TypeInv, Results
<1>3. FirstInv'
  BY DEF FirstInv
<1>4. SourceInv'
  BY DEF SourceInv
<1>5. StepInv'
  BY DEF StepInv, InStep
<1>6. SegmentInv'
  BY DEF SegmentInv
<1>7. CacheInv'
  BY DEF CacheInv
<1>8. SeekInv'
  BY DEF SeekInv, Sought, Announced
<1>9. FlowInv'
  BY DEF FlowInv, Announced, AnnounceInHand, Sent, ReadAt
<1>10. EosInv'
  BY DEF EosInv, Announced, EosInHand, ReadAt
<1>11. TargetInv'
  BY DEF TargetInv, Announced, AnnounceInHand
<1>12. FailInv'
  BY DEF FailInv
<1> QED
  BY <1>1, <1>2, <1>3, <1>4, <1>5, <1>6, <1>7, <1>8, <1>9, <1>10, <1>11, <1>12

LEMMA DisposeJoinKeeps == Inv /\ DisposeJoin => Inv'
<1> SUFFICES ASSUME Inv, DisposeJoin PROVE Inv'
  OBVIOUS
<1> USE DEF Inv, DisposeJoin,
            bufVars, flagVars, loopVars, srcVars, padVars, ctlVars, outVars
<1>1. FlagInv'
  BY Zenon DEF FlagInv
<1>2. TypeInv'
  BY DEF TypeInv
<1>3. FirstInv'
  BY DEF FirstInv
<1>4. SourceInv'
  BY DEF SourceInv
<1>5. StepInv'
  BY DEF StepInv, InStep
<1>6. SegmentInv'
  BY DEF SegmentInv
<1>7. CacheInv'
  BY DEF CacheInv
<1>8. SeekInv'
  BY DEF SeekInv, Sought, Announced
<1>9. FlowInv'
  BY DEF FlowInv, Announced, AnnounceInHand, Sent, ReadAt
<1>10. EosInv'
  BY DEF EosInv, Announced, EosInHand, ReadAt
<1>11. TargetInv'
  BY DEF TargetInv, Announced, AnnounceInHand
<1>12. FailInv'
  BY DEF FailInv
<1> QED
  BY <1>1, <1>2, <1>3, <1>4, <1>5, <1>6, <1>7, <1>8, <1>9, <1>10, <1>11, <1>12

-----------------------------------------------------------------------------
LEMMA BufferInit == Init => Inv
<1> SUFFICES ASSUME Init PROVE Inv
  OBVIOUS
<1>1. FlagInv
  BY Zenon DEF Init, FlagInv
<1>2. /\ cache \in Caches /\ cache.read_position = 0 /\ cache.write_position = 0
      /\ pending_src_event \in Events /\ pending_src_event.type = "none"
  BY Created, EventFacts DEF Init
<1>3. TypeInv
  BY <1>2, BufferAssumption DEF Init, TypeInv, Results
<1>4. FirstInv /\ SourceInv /\ StepInv /\ FailInv
  BY <1>2 DEF Init, FirstInv, SourceInv, StepInv, FailInv
<1>5. SegmentInv /\ CacheInv
  BY <1>2, BufferAssumption DEF Init, SegmentInv, CacheInv
<1>6. SeekInv /\ EosInv /\ TargetInv
  BY <1>2 DEF Init, SeekInv, Sought, EosInv, EosInHand, TargetInv, Announced, AnnounceInHand
<1>7. FlowInv
  BY <1>2 DEF Init, FlowInv, Announced, AnnounceInHand, Sent, ReadAt, Max2
<1> QED BY <1>1, <1>3, <1>4, <1>5, <1>6, <1>7 DEF Inv

LEMMA BufferStutters == Inv /\ UNCHANGED vars => Inv'
<1> SUFFICES ASSUME Inv, UNCHANGED vars PROVE Inv'
  OBVIOUS
<1> USE DEF Inv, vars, bufVars, flagVars, loopVars, srcVars, padVars, ctlVars, outVars
<1>1. FlagInv'
  BY Zenon DEF FlagInv
<1>2. TypeInv' /\ FirstInv'
  BY DEF TypeInv, FirstInv
<1>3. SourceInv' /\ StepInv' /\ SegmentInv' /\ CacheInv' /\ FailInv'
  BY DEF SourceInv, StepInv, InStep, SegmentInv, CacheInv, FailInv
<1>4. SeekInv' /\ FlowInv' /\ EosInv'
  BY DEF SeekInv, FlowInv, EosInv, Sought, Announced, AnnounceInHand, EosInHand, Sent, ReadAt
<1>5. TargetInv'
  BY DEF TargetInv, Announced, AnnounceInHand
<1> QED BY <1>1, <1>2, <1>3, <1>4, <1>5

LEMMA BufferStep == Inv /\ [Next]_vars => Inv'
<1> SUFFICES ASSUME Inv, [Next]_vars PROVE Inv'
  OBVIOUS
<1>1. CASE Source
  BY <1>1, SourceBeginKeeps, SourceReadKeeps, progress_buffer_chainKeeps, SourcePadKeeps,
     SinkEventNewSegmentKeeps, SinkEventEosKeeps, SourceEndKeeps DEF Source
<1>2. CASE Loop
  BY <1>2, LoopTakeKeeps, LoopPushEventKeeps, LoopPushKeeps, LoopResultKeeps, LoopEndKeeps DEF Loop
<1>3. CASE Seek
  BY <1>3, SeekStartKeeps, SeekSignalKeeps, SeekDecideKeeps, SeekStopFlushKeeps,
     SeekStopSourceKeeps, SeekDataKeeps, SeekFailedKeeps, SeekRestartKeeps DEF Seek
<1>4. CASE Dispose
  BY <1>4, DisposeSrcPadKeeps, DisposeSinkPadKeeps, DisposeStateKeeps, DisposeSourceKeeps,
     DisposeJoinKeeps DEF Dispose
<1>5. CASE UNCHANGED vars
  BY <1>5, BufferStutters
<1> QED BY <1>1, <1>2, <1>3, <1>4, <1>5 DEF Next

LEMMA BufferInvariant == Spec => []Inv
BY BufferInit, BufferStep, PTL DEF Spec

\* progress_buffer_loop and progress_buffer_enqueue_item: whatever the sizes of the
\* stream and of its reads, the number of seeks and what they are served from, and
\* wherever the connection breaks off, the blocks go downstream from the announced
\* position on in order, EOS comes behind the last one, and the branch that "must
\* never happen" is taken only after a failed seek has left the source out of step.
THEOREM StreamIsWellFormed == Spec => []StreamInv
<1>1. ASSUME Inv PROVE StreamInv
  <2> USE <1>1 DEF Inv
  <2>1. TypeOK
    <3>1. {eos, unexpected, instant_seek, skip, update, srcFlushing, sinkFlushing, eosOut, raced,
           misplaced} \subseteq BOOLEAN
      BY Zenon DEF FlagInv
    <3>2. ~misplaced => {cache.read_position, cache.write_position} \subseteq 0 .. Size
      <4>1. /\ cache.read_position \in Nat /\ cache.write_position \in Nat
            /\ cache_read_offset \in 0 .. Size
        BY DEF TypeInv, Caches
      <4> QED BY <4>1, BufferAssumption DEF CacheInv
    <3>3. /\ sink_segment.start \in 0 .. Size /\ sink_segment.stop \in -1 .. Size
          /\ sink_segment.last_stop \in 0 .. Size /\ cache_read_offset \in 0 .. Size
          /\ {srcresult, jsresult, lres, sres} \subseteq Results
          /\ {loopTask, jsTask} \subseteq {"none", "started", "paused", "stopped"}
          /\ position \in 0 .. Size
      BY DEF TypeInv
    <3>4. pending_src_event \in {None, EOS} \cup {NewSegment(p) : p \in 0 .. Size}
      BY DEF TypeInv, Events
    <3> QED BY <3>1, <3>2, <3>3, <3>4 DEF TypeOK
  <2>2. StreamInOrder
    <3> SUFFICES ASSUME ~srcFlushing, out # <<>>, ~misplaced
                 PROVE  /\ segmentOut = -1 => seeks = 0
                        /\ \A i \in DOMAIN out : out[i] = Max2(segmentOut, 0) + i - 1
      BY DEF StreamInOrder
    <3>1. seeks \in Nat /\ DOMAIN out = 1 .. Len(out)
      BY DEF TypeInv
    <3> QED BY <3>1 DEF FlowInv
  <2>3. EosIsLast
    <3> SUFFICES ASSUME eosOut, ~srcFlushing, ~misplaced, ~Announced
                 PROVE  Max2(segmentOut, 0) + Len(out) = sink_segment.stop
      BY DEF EosIsLast, Announced
    <3>1. /\ ReadAt = sink_segment.stop /\ instant_seek /\ lpc \in {"end", "idle"}
      BY DEF EosInv
    <3>2. Sent = ReadAt
      BY <3>1 DEF FlowInv, AnnounceInHand
    <3> QED BY <3>1, <3>2 DEF Sent
  <2>4. NeverPastStop
    BY DEF FailInv, NeverPastStop
  <2> QED BY <2>1, <2>2, <2>3, <2>4 DEF StreamInv
<1> QED BY BufferInvariant, <1>1, PTL

\* progress_buffer_perform_push_seek: the first block that comes downstream after a
\* seek is the one sought, whether the cache or the source serves it, unless the
\* segment of an earlier seek was still on its way or the seek was misplaced.
THEOREM SeeksReach == Spec => []SeekReaches
<1>1. ASSUME Inv PROVE SeekReaches
  <2> SUFFICES ASSUME ~srcFlushing, out # <<>>, ~raced, ~misplaced PROVE out[1] = base
    BY DEF SeekReaches
  <2> USE <1>1 DEF Inv
  <2>1. 1 \in 1 .. Len(out) /\ seeks \in Nat /\ base \in 0 .. Size
    BY DEF TypeInv, TargetInv
  <2>2. out[1] = Max2(segmentOut, 0) + 1 - 1 /\ (segmentOut = -1 => seeks = 0)
    BY <2>1 DEF FlowInv
  <2>3. segmentOut \in {-1, base} /\ (seeks = 0 => base = 0)
    BY DEF TargetInv
  <2> QED BY <2>1, <2>2, <2>3 DEF Max2
<1> QED BY BufferInvariant, <1>1, PTL
=============================================================================
