----------------------- MODULE HLSProgressBufferProofs -----------------------
(***************************************************************************)
(* Proofs about HLSProgressBuffer: what hls_progress_buffer_loop delivers  *)
(* is announced, in order and complete up to EOS, for every size of the    *)
(* ring, of the segments and of the playlist and every number of seeks.    *)
(***************************************************************************)
EXTENDS HLSProgressBuffer, SequenceFacts, SequenceTheorems

-----------------------------------------------------------------------------
(***************************************************************************)
(* The inductive invariant.                                                *)
(***************************************************************************)
Blocks == [epoch : Nat, n : Nat]

\* File caches, which are read only as far as they have been written.
Caches == {c \in [read_position : Nat, write_position : Nat, file : Seq(Blocks)] :
             c.read_position <= c.write_position /\ c.write_position <= Len(c.file)}

\* The first blocks of the segments, and the end of the playlist.
Boundaries == {k * SegmentSize + 1 : k \in 0 .. Segments}

TypeInv ==
  /\ cache \in [Ring -> Caches] /\ cache_size \in [Ring -> {0, SegmentSize}]
  /\ cache_write_ready \in [Ring -> BOOLEAN]
  /\ cache_write_index \in -1 .. NumCached - 1 /\ cache_read_index \in Ring
  /\ buf \in Seq(Blocks) /\ out \in Seq(Blocks)
  /\ srcresult \in Results /\ jsresult \in Results /\ lres \in Results /\ sres \in Results
  /\ loopTask \in {"started", "paused", "stopped"} /\ jsTask \in {"started", "paused", "stopped"}
  /\ pending \in {"NEWSEGMENT", "EOS", "UNKNOWN"}
  /\ next \in 1 .. Total + 1 /\ left \in 0 .. SegmentSize
  /\ seeks \in 0 .. MaxSeeks /\ base \in 1 .. Total + 1
  /\ spc \in {"idle", "read", "chain", "size", "eos", "eos1", "segment", "seg1", "seg2", "full",
              "wait", "woken", "end", "crashed"}
  /\ lpc \in {"idle", "wait", "woken", "push", "pushed", "end"}
  /\ kpc \in {"none", "flush", "data", "pause", "paused", "lock", "stop", "start"}
  /\ dpc \in {"none", "srcpad", "sinkpad", "source", "join", "disposed"}

FlagInv ==
  /\ send_new_segment \in BOOLEAN /\ is_flushing \in BOOLEAN /\ is_eos \in BOOLEAN
  /\ sinkFlushing \in BOOLEAN /\ srcFlushing \in BOOLEAN
  /\ newSegmentOut \in BOOLEAN /\ eosOut \in BOOLEAN /\ raced \in BOOLEAN
  /\ torn \in BOOLEAN /\ stranded \in BOOLEAN /\ wild \in BOOLEAN

FlushSteps == {"data", "pause", "paused", "lock", "stop"}

\* Which pads are flushing, and that a seek and the disposal exclude each other.
PadInv ==
  /\ srcFlushing => kpc \in FlushSteps \/ dpc # "none"
  /\ kpc \in FlushSteps \/ dpc # "none" => srcFlushing
  /\ sinkFlushing => kpc \in FlushSteps \union {"flush"} \/ dpc \in {"source", "join", "disposed"}
  /\ kpc \in FlushSteps \union {"flush"} => sinkFlushing
  /\ kpc # "none" => dpc = "none"
  /\ is_flushing => kpc # "none"

\* Where the NEWSEGMENT handler waits for a free cache.
Waiting == {"full", "wait", "woken"}
Handling == {"segment", "seg1", "seg2", "full", "wait", "woken"}

\* The source: what an iteration is about, and that it reads whole segments.
SourceInv ==
  /\ spc \in Handling => left = SegmentSize /\ next <= Total
  /\ spc = "size" \/ spc \in Handling => pending = "NEWSEGMENT"
  /\ spc \in {"read", "chain"} => pending = "UNKNOWN"
  /\ spc \in {"eos", "eos1"} => pending = "EOS"
  /\ pending = "EOS" => next = Total + 1 /\ left = 0
  /\ pending = "NEWSEGMENT" => next \in Boundaries /\ next + left \in Boundaries
  /\ pending = "UNKNOWN" => next + left \in Boundaries
  /\ spc = "chain" => next > 1

\* The block that is stored next, and how many are to come of the open segment.
Coming == IF spc = "chain" THEN next - 1 ELSE next
Rest == (IF pending = "UNKNOWN" THEN left ELSE 0) + (IF spc = "chain" THEN 1 ELSE 0)

\* The handler that waits when the buffer is flushed will drop its segment; no cache
\* holds more blocks than the source has read.
IndexInv ==
  /\ cache_write_index = -1 /\ spc \in Waiting => srcresult # "OK"
  /\ \A i \in Ring : cache[i].write_position < Coming

Flushed == {"pause", "paused", "lock", "stop", "start"}

\* A seek, from the flush on: the ring is empty, but a handler that was in one of
\* the Windows may have taken the first cache; the buffer's task rests, unless the
\* handler has started it again.
SeekInv ==
  /\ kpc \in Flushed =>
       /\ \A i \in Ring : cache[i].write_position = 0
       /\ cache_read_index = 0
       /\ \/ cache_write_index = -1 /\ \A i \in Ring : cache_write_ready[i]
          \/ /\ cache_write_index = 0 /\ ~cache_write_ready[0] /\ raced /\ spc \notin InBuffer
       /\ spc \in Windows => raced
  /\ kpc \in {"flush", "data", "pause", "paused", "lock"} => seeks < MaxSeeks
  /\ kpc \in {"lock", "stop", "start"} => lpc \in {"idle", "wait", "woken", "end"}
  /\ kpc \in {"stop", "start"} =>
       /\ spc = "idle" /\ jsTask # "started"
       /\ ~torn => next = base /\ left = 0
  /\ kpc = "start" => out = <<>> /\ ~eosOut /\ ~newSegmentOut
  /\ kpc \in {"paused", "lock", "stop", "start"} /\ loopTask = "started" =>
       ~is_eos /\ spc # "eos1"
  /\ kpc \in {"lock", "stop", "start"} /\ lpc # "idle" => ~is_eos /\ spc # "eos1"

\* What is read from the ring may arrive downstream, and is what it should be.
Flowing == kpc \in {"none", "flush", "start"} /\ dpc = "none" /\ ~torn /\ ~wild
\* The source cannot get anything into the buffer before the flush that is due.
Shut == sinkFlushing /\ spc \notin InBuffer
\* A block or a segment was refused, and the source has stopped.
Dead ==
  /\ sinkFlushing /\ pending = "UNKNOWN"
  /\ (spc = "end" /\ sres # "OK") \/ (spc = "idle" /\ jsTask # "started")
Live == ~Dead

\* The block that the task reads next.
Reading == base + Len(out) + (IF lpc = "push" THEN Len(buf) ELSE 0)

\* The d-th cache from the one that is read, and the first block of a cache.
SlotAt(d) ==
  IF cache_read_index + d < NumCached THEN cache_read_index + d
                                      ELSE cache_read_index + d - NumCached
First(i) == IF cache[i].write_position > 0 THEN cache[i].file[1].n ELSE Coming

\* K caches are in use, from the one that is read to the one that is written; the
\* others have nothing to be read.
Shape(K) ==
  /\ \A d \in 0 .. NumCached - 1 : cache_write_ready[SlotAt(d)] <=> d >= K
  /\ \A i \in Ring : cache_write_ready[i] => cache[i].read_position = cache[i].write_position

WriteAt(K) ==
  /\ spc \in Waiting => cache_write_index = SlotAt(K)
  /\ spc \notin Waiting => (cache_write_index + 1) % NumCached = SlotAt(K)
  /\ K > 0 => cache_write_index \in Ring

\* The d-th of them holds a part of a segment, all of it unless it is the last one.
Holds(d, K) ==
  /\ cache_size[SlotAt(d)] = SegmentSize
  /\ d < K - 1 => cache[SlotAt(d)].write_position = SegmentSize
  /\ d > 0 => cache[SlotAt(d)].read_position = 0
  /\ cache[SlotAt(d)].read_position < SegmentSize
  /\ cache[SlotAt(d)].write_position <= SegmentSize
  /\ \A p \in 1 .. cache[SlotAt(d)].write_position :
       cache[SlotAt(d)].file[p] = Block(First(SlotAt(d)) + p - 1)

\* Consecutive caches hold consecutive segments.
Linked(d) ==
  Live \/ cache[SlotAt(d + 1)].write_position > 0 =>
    First(SlotAt(d + 1)) = First(SlotAt(d)) + SegmentSize

\* The ring holds the stream from where the task reads to where the source is.
Ends(K) ==
  /\ K > 0 /\ (Live \/ cache[cache_read_index].write_position > 0) =>
       Reading = First(cache_read_index) + cache[cache_read_index].read_position
  /\ K > 0 /\ Live =>
       /\ Coming = First(SlotAt(K - 1)) + cache[SlotAt(K - 1)].write_position
       /\ cache[SlotAt(K - 1)].write_position + Rest = SegmentSize
  /\ K = 0 /\ Live => Reading = Coming /\ Rest = 0

Good(K) ==
  /\ Shape(K) /\ WriteAt(K) /\ Ends(K)
  /\ \A d \in 0 .. K - 1 : Holds(d, K)
  /\ \A d \in 0 .. K - 2 : Linked(d)

\* No block comes before the next segment is requested.
BetweenSegments ==
  \/ pending \in {"NEWSEGMENT", "EOS"}
  \/ pending = "UNKNOWN" /\ left = 0 /\ spc \in {"idle", "read", "end"}

\* A flush in one of the Windows has left the first cache in use and empty: the task
\* waits for it until the next flush.
Stuck ==
  /\ raced /\ out = <<>> /\ lpc # "push"
  /\ cache_read_index = 0 /\ ~cache_write_ready[0]
  /\ cache[0].write_position = 0 /\ cache_write_index \in Ring
  /\ cache_write_index = 0 => BetweenSegments \/ Shut

RingInv == Flowing => Stuck \/ \E K \in 0 .. NumCached : Good(K)

OutInv ==
  Flowing =>
    /\ \A i \in 1 .. Len(out) : out[i] = Block(base + i - 1)
    /\ lpc = "push" => \A i \in 1 .. Len(buf) : buf[i] = Block(base + Len(out) + i - 1)
    /\ lpc = "pushed" => lres = "OK"

\* Before the first segment is announced nothing is in the ring, and the source
\* cannot put anything into it.
AnnounceInv ==
  Flowing /\ ~newSegmentOut =>
    /\ send_new_segment \/ kpc = "start"
    /\ out = <<>> /\ lpc # "push"
    /\ \A i \in Ring : cache[i].write_position = 0
    /\ \/ Shut
       \/ /\ pending = "NEWSEGMENT" /\ next = base
          /\ spc \in {"idle", "size", "segment", "seg1", "end"}
       \/ /\ pending = "UNKNOWN" /\ left = 0 /\ next = base
          /\ spc \in {"idle", "read", "end"}
       \/ pending = "EOS"

\* is_eos is set by the end of the playlist, or it is left over from before a seek
\* and the task rests; the flow stops, and EOS is delivered, at the end only.
EosInv ==
  Flowing =>
    /\ srcresult # "OK" => kpc = "start" \/ pending = "EOS"
    /\ is_eos => pending = "EOS" \/ (~newSegmentOut /\ lpc = "idle" /\ loopTask # "started")
    /\ eosOut => /\ pending = "EOS"
                 /\ raced \/ (lpc # "push" /\ \A i \in Ring : cache_write_ready[i])

Inv ==
  /\ FlagInv /\ TypeInv /\ PadInv /\ SourceInv /\ IndexInv /\ SeekInv /\ RingInv /\ OutInv
  /\ AnnounceInv /\ EosInv

-----------------------------------------------------------------------------
(***************************************************************************)
(* The file cache, the ring and the playlist.                              *)
(***************************************************************************)
LEMMA Created == FC!create_cache \in Caches /\ FC!create_cache.write_position = 0
BY DEF FC!create_cache, Caches

LEMMA Rewound ==
  ASSUME NEW c \in Caches
  PROVE  LET d == FC!cache_set_read_position(FC!cache_set_write_position(c, 0), 0)
         IN  d \in Caches /\ d.read_position = 0 /\ d.write_position = 0
<1> DEFINE e == FC!cache_set_write_position(c, 0)
           d == FC!cache_set_read_position(e, 0)
<1>1. /\ e.write_position = 0 /\ e.file = c.file /\ e.read_position = c.read_position
      /\ e \in [read_position : Nat, write_position : Nat, file : Seq(Blocks)]
  BY DEF FC!cache_set_write_position, Caches
<1>2. /\ d.write_position = 0 /\ d.file = c.file /\ d.read_position = 0
      /\ d \in [read_position : Nat, write_position : Nat, file : Seq(Blocks)]
  BY <1>1 DEF FC!cache_set_read_position, Caches
<1>3. d \in Caches
  BY <1>2 DEF Caches
<1> QED BY <1>2, <1>3

\* A write leaves what was written before it.
LEMMA Written ==
  ASSUME NEW c \in Caches, NEW b \in Blocks
  PROVE  LET d == FC!cache_write_buffer(c, b)
         IN  /\ d \in Caches /\ d.read_position = c.read_position
             /\ d.write_position = c.write_position + 1
             /\ \A p \in 1 .. c.write_position : d.file[p] = c.file[p]
             /\ d.file[c.write_position + 1] = b
<1> DEFINE at == c.write_position + 1
           end == IF at > Len(c.file) THEN at ELSE Len(c.file)
           file == [p \in 1 .. end |-> IF p = at THEN b ELSE c.file[p]]
           d == FC!cache_write_buffer(c, b)
<1>1. /\ c.read_position \in Nat /\ c.write_position \in Nat /\ c.file \in Seq(Blocks)
      /\ c.read_position <= c.write_position
      /\ c.write_position <= Len(c.file) /\ Len(c.file) \in Nat
      /\ c \in [read_position : Nat, write_position : Nat, file : Seq(Blocks)]
  BY DEF Caches
<1>2. end \in Nat /\ at <= end /\ at \in 1 .. end
  BY <1>1
<1>3. \A p \in 1 .. end : (IF p = at THEN b ELSE c.file[p]) \in Blocks
  BY <1>1
<1>4. file \in Seq(Blocks) /\ Len(file) = end
  BY <1>2, <1>3
<1>5. d = [c EXCEPT !.file = file, !.write_position = at]
  BY DEF FC!cache_write_buffer
<1>6. d.read_position = c.read_position /\ d.write_position = at /\ d.file = file
  BY <1>1, <1>5
<1>7. d \in Caches
  <2>1. d \in [read_position : Nat, write_position : Nat, file : Seq(Blocks)]
    <3>1. d = [read_position |-> c.read_position, write_position |-> at, file |-> file]
      BY <1>1, <1>5
    <3> HIDE DEF file, d
    <3> QED BY <1>1, <1>2, <1>4, <3>1
  <2> QED BY <2>1, <1>1, <1>2, <1>4, <1>6 DEF Caches
<1>8. file[at] = b /\ \A p \in 1 .. c.write_position : file[p] = c.file[p]
  BY <1>1, <1>2
<1> QED BY <1>6, <1>7, <1>8

\* A read returns blocks that have been written, one at least, in their order.
LEMMA ReadOut ==
  ASSUME NEW c \in Caches, c.read_position < c.write_position
  PROVE  LET blocks == FC!ReadBlocks(c)
             d == FC!cache_read_buffer(c)
         IN  /\ blocks \in Seq(Blocks) /\ Len(blocks) \in Nat /\ Len(blocks) > 0
             /\ d \in Caches /\ d.write_position = c.write_position /\ d.file = c.file
             /\ d.read_position = c.read_position + Len(blocks)
             /\ d.read_position <= c.write_position
             /\ \A i \in 1 .. Len(blocks) : blocks[i] = c.file[c.read_position + i]
<1> DEFINE r == c.read_position
           w == c.write_position
           size == IF 0 < w - r /\ w - r < BufferSize THEN w - r ELSE BufferSize
           stop == IF r + size < Len(c.file) THEN r + size ELSE Len(c.file)
           blocks == FC!ReadBlocks(c)
           d == FC!cache_read_buffer(c)
<1>1. /\ r \in Nat /\ w \in Nat /\ c.file \in Seq(Blocks) /\ w <= Len(c.file) /\ Len(c.file) \in Nat
      /\ c \in [read_position : Nat, write_position : Nat, file : Seq(Blocks)]
  BY DEF Caches
<1>2. size \in Nat /\ size > 0 /\ r + size <= w
  BY <1>1, RingAssumption
<1>3. stop = r + size
  BY <1>1, <1>2
<1>4. blocks = SubSeq(c.file, r + 1, stop)
  BY DEF FC!ReadBlocks
<1>5. /\ blocks \in Seq(Blocks) /\ Len(blocks) = size
      /\ \A i \in 1 .. size : blocks[i] = c.file[r + i]
  <2> HIDE DEF size, stop, blocks
  <2>1. \A i \in r + 1 .. stop : c.file[i] \in Blocks
    BY <1>1, <1>2, <1>3
  <2>2. r + 1 \in Int /\ stop \in Int
    BY <1>1, <1>2, <1>3
  <2>3. /\ SubSeq(c.file, r + 1, stop) \in Seq(Blocks)
        /\ Len(SubSeq(c.file, r + 1, stop)) = IF r + 1 <= stop THEN stop - (r + 1) + 1 ELSE 0
        /\ \A i \in 1 .. stop - (r + 1) + 1 : SubSeq(c.file, r + 1, stop)[i] = c.file[r + 1 + i - 1]
    BY <2>1, <2>2, SubSeqProperties
  <2>4. stop - (r + 1) + 1 = size /\ r + 1 <= stop
    BY <1>1, <1>2, <1>3
  <2>5. \A i \in 1 .. size : r + 1 + i - 1 = r + i
    BY <1>1, <1>2
  <2> QED BY <1>4, <2>3, <2>4, <2>5
<1>6. d = [c EXCEPT !.read_position = r + Len(blocks)]
  BY DEF FC!cache_read_buffer
<1> HIDE DEF blocks, size, d
<1>7. /\ d.read_position = r + size /\ d.write_position = w /\ d.file = c.file
      /\ d = [read_position |-> r + size, write_position |-> w, file |-> c.file]
  BY <1>1, <1>2, <1>5, <1>6
<1>8. d \in Caches
  BY <1>1, <1>2, <1>7 DEF Caches
<1> QED BY <1>1, <1>2, <1>5, <1>7, <1>8 DEF blocks, d

\* The index after i in the ring.
LEMMA NextIndex ==
  ASSUME NEW i \in -1 .. NumCached - 1
  PROVE  (i + 1) % NumCached = IF i + 1 = NumCached THEN 0 ELSE i + 1
<1>1. NumCached \in Nat \ {0}
  BY RingAssumption
<1>2. CASE i + 1 = NumCached
  BY <1>1, <1>2
<1>3. CASE i + 1 # NumCached
  <2>1. i + 1 \in 0 .. NumCached - 1
    BY <1>1, <1>3
  <2> QED BY <1>1, <1>3, <2>1
<1> QED BY <1>2, <1>3

\* The playlist is made of whole segments.
LEMMA BoundaryFacts ==
  /\ Total \in Nat /\ Total >= 1 /\ 1 \in Boundaries
  /\ \A b \in Boundaries : b \in 1 .. Total + 1
  /\ \A b \in Boundaries : b <= Total => b + SegmentSize \in Boundaries
  /\ \A s \in 1 .. Segments : /\ (s - 1) * SegmentSize + 1 \in Boundaries
                              /\ (s - 1) * SegmentSize + 1 \in 1 .. Total
<1> USE RingAssumption
<1>1. \A k \in 0 .. Segments : k * SegmentSize \in Nat /\ k * SegmentSize <= Segments * SegmentSize
  <2> TAKE k \in 0 .. Segments
  <2>1. Segments = k + (Segments - k) /\ Segments - k \in Nat
    OBVIOUS
  <2>2. Segments * SegmentSize = k * SegmentSize + (Segments - k) * SegmentSize
    BY <2>1
  <2>3. (Segments - k) * SegmentSize \in Nat /\ k * SegmentSize \in Nat
    BY <2>1
  <2> QED BY <2>2, <2>3
<1>2. \A k \in 0 .. Segments - 1 : (k + 1) * SegmentSize = k * SegmentSize + SegmentSize
  OBVIOUS
<1>3. Total \in Nat /\ Total = Segments * SegmentSize
  BY DEF Total
<1>4. 0 * SegmentSize + 1 = 1
  OBVIOUS
<1>5. Total >= 1
  <2>1. 1 * SegmentSize <= Segments * SegmentSize
    BY <1>1
  <2> QED BY <2>1, <1>3
<1>6. 1 \in Boundaries
  BY <1>4 DEF Boundaries
<1>7. ASSUME NEW b \in Boundaries
      PROVE  b \in 1 .. Total + 1 /\ (b <= Total => b + SegmentSize \in Boundaries)
  <2>1. PICK k \in 0 .. Segments : b = k * SegmentSize + 1
    BY DEF Boundaries
  <2>2. b \in 1 .. Total + 1
    BY <1>1, <1>3, <2>1
  <2>3. ASSUME b <= Total PROVE b + SegmentSize \in Boundaries
    <3>1. k # Segments
      BY <1>3, <2>1, <2>3
    <3>2. b + SegmentSize = (k + 1) * SegmentSize + 1 /\ k + 1 \in 0 .. Segments
      BY <1>1, <1>2, <2>1, <3>1
    <3> QED BY <3>2 DEF Boundaries
  <2> QED BY <2>2, <2>3
<1>8. ASSUME NEW s \in 1 .. Segments
      PROVE  /\ (s - 1) * SegmentSize + 1 \in Boundaries
             /\ (s - 1) * SegmentSize + 1 \in 1 .. Total
  <2> DEFINE k == s - 1
  <2>1. k \in 0 .. Segments - 1
    OBVIOUS
  <2> HIDE DEF k
  <2>2. k * SegmentSize + 1 \in Boundaries
    BY <2>1 DEF Boundaries
  <2>3. k * SegmentSize + SegmentSize <= Total /\ k * SegmentSize \in Nat
    <3>1. (k + 1) * SegmentSize <= Segments * SegmentSize
      BY <1>1, <2>1
    <3> QED BY <1>1, <1>2, <1>3, <2>1, <3>1
  <2> QED BY <1>3, <2>2, <2>3 DEF k
<1> QED BY <1>3, <1>5, <1>6, <1>7, <1>8

\* The caches of the ring, counted from the one that is read.
LEMMA SlotFacts ==
  ASSUME TypeInv
  PROVE  /\ \A d \in 0 .. NumCached : SlotAt(d) \in Ring
         /\ \A d, e \in 0 .. NumCached - 1 : SlotAt(d) = SlotAt(e) => d = e
         /\ \A i \in Ring : \E d \in 0 .. NumCached - 1 : i = SlotAt(d)
         /\ SlotAt(0) = cache_read_index /\ SlotAt(NumCached) = cache_read_index
         /\ NumCached \in Nat /\ NumCached >= 1
<1> USE RingAssumption DEF Ring, SlotAt
<1>1. cache_read_index \in 0 .. NumCached - 1 /\ NumCached \in Nat /\ NumCached >= 1
  BY DEF TypeInv
<1>2. \A d \in 0 .. NumCached : SlotAt(d) \in Ring
  BY <1>1
<1>3. \A d, e \in 0 .. NumCached - 1 : SlotAt(d) = SlotAt(e) => d = e
  BY <1>1
<1>4. ASSUME NEW i \in Ring PROVE \E d \in 0 .. NumCached - 1 : i = SlotAt(d)
  <2>1. CASE i >= cache_read_index
    <3>1. i - cache_read_index \in 0 .. NumCached - 1 /\ i = SlotAt(i - cache_read_index)
      BY <1>1, <2>1
    <3> QED BY <3>1
  <2>2. CASE i < cache_read_index
    <3> DEFINE d == i - cache_read_index + NumCached
    <3>1. d \in 0 .. NumCached - 1 /\ i = SlotAt(d)
      BY <1>1, <2>2
    <3> QED BY <3>1
  <2> QED BY <1>1, <2>1, <2>2
<1>5. SlotAt(0) = cache_read_index /\ SlotAt(NumCached) = cache_read_index
  BY <1>1
<1> QED BY <1>1, <1>2, <1>3, <1>4, <1>5

LEMMA FirstIsInt ==
  ASSUME TypeInv
  PROVE  Coming \in Int /\ \A i \in Ring : First(i) \in Int
<1>1. Coming \in Int
  BY DEF TypeInv, Coming
<1>2. ASSUME NEW i \in Ring PROVE First(i) \in Int
  <2>1. cache[i] \in Caches
    BY DEF TypeInv
  <2>2. CASE cache[i].write_position > 0
    <3>1. cache[i].file \in Seq(Blocks) /\ 1 \in 1 .. Len(cache[i].file)
      BY <2>1, <2>2 DEF Caches
    <3>2. cache[i].file[1] \in Blocks
      BY <3>1
    <3> QED BY <2>2, <3>2 DEF First, Blocks
  <2> QED BY <1>1, <2>2 DEF First
<1> QED BY <1>1, <1>2

LEMMA WriteFrame ==
  ASSUME UNCHANGED <<cache_read_index, cache_write_index>>,
         spc' \in Waiting <=> spc \in Waiting, NEW K, WriteAt(K)
  PROVE  WriteAt(K)'
<1>1. SlotAt(K)' = SlotAt(K)
  BY DEF SlotAt
<1> QED BY <1>1 DEF WriteAt

\* A step that leaves the ring and both of its ends alone keeps it as it is.
LEMMA RingFrame ==
  ASSUME TypeInv, RingInv, Flowing' => Flowing,
         UNCHANGED <<cache, cache_size, cache_write_ready, cache_read_index, seeks>>,
         \A K \in 0 .. NumCached : Good(K) => WriteAt(K)',
         Reading' = Reading, Live' => Live /\ Coming' = Coming /\ Rest' = Rest,
         Stuck => Stuck'
  PROVE  RingInv'
<1> SUFFICES ASSUME Flowing, NEW K \in 0 .. NumCached, Good(K) PROVE Good(K)'
  BY DEF RingInv
<1>1. \A d \in 0 .. NumCached : SlotAt(d)' = SlotAt(d) /\ SlotAt(d) \in Ring
  BY SlotFacts DEF SlotAt
<1>2. \A i \in Ring : Live' \/ cache[i].write_position > 0 => First(i)' = First(i)
  BY DEF First
<1>3. NumCached \in Nat /\ NumCached >= 1 /\ cache_read_index \in Ring
  BY SlotFacts DEF TypeInv
<1>4. Shape(K)'
  BY <1>1, <1>3 DEF Good, Shape
<1>5. Ends(K)'
  <2>1. K > 0 => K - 1 \in 0 .. NumCached
    BY <1>3
  <2> QED BY <1>1, <1>2, <1>3, <2>1 DEF Good, Ends
<1>6. ASSUME NEW d \in 0 .. K - 1 PROVE Holds(d, K)'
  <2>1. Holds(d, K) /\ d \in 0 .. NumCached /\ SlotAt(d)' = SlotAt(d) /\ SlotAt(d) \in Ring
    BY <1>1, <1>3 DEF Good
  <2>2. ASSUME NEW p \in 1 .. cache[SlotAt(d)].write_position
        PROVE  cache[SlotAt(d)].file[p] = (Block(First(SlotAt(d)) + p - 1))'
    <3>1. cache[SlotAt(d)].write_position \in Nat
      BY <2>1 DEF TypeInv, Caches
    <3>2. First(SlotAt(d))' = First(SlotAt(d))
      BY <1>2, <2>1, <2>2, <3>1
    <3> QED BY <2>1, <2>2, <3>2 DEF Holds, Block
  <2> QED BY <2>1, <2>2 DEF Holds
<1>7. ASSUME NEW d \in 0 .. K - 2 PROVE Linked(d)'
  <2>1. /\ Linked(d) /\ SlotAt(d)' = SlotAt(d) /\ SlotAt(d) \in Ring
        /\ SlotAt(d + 1)' = SlotAt(d + 1) /\ SlotAt(d + 1) \in Ring
    BY <1>1, <1>3 DEF Good
  <2>2. cache[SlotAt(d)].write_position > 0
    BY <1>3, RingAssumption DEF Good, Holds
  <2> QED BY <1>2, <2>1, <2>2 DEF Linked
<1>8. WriteAt(K)'
  OBVIOUS
<1> QED BY <1>4, <1>5, <1>6, <1>7, <1>8 DEF Good

\* A block is stored in the last cache in use.
LEMMA RingWrite ==
  ASSUME TypeInv, NEW K \in 1 .. NumCached, Good(K), Live,
         SourceInv, spc = "chain", spc' \notin Waiting, spc' # "chain",
         NEW i \in Ring, i = SlotAt(K - 1),
         cache' = [cache EXCEPT ![i] = FC!cache_write_buffer(@, Block(next - 1))],
         UNCHANGED <<cache_size, cache_write_ready, cache_write_index, cache_read_index, seeks,
                     next, left, pending>>,
         Reading' = Reading
  PROVE  Good(K)'
<1> DEFINE c == cache[i]
           b == Block(next - 1)
<1>1. /\ NumCached \in Nat /\ NumCached >= 1 /\ cache_read_index \in Ring /\ K \in Nat
      /\ SegmentSize \in Nat /\ SegmentSize >= 1
      /\ c \in Caches /\ b \in Blocks /\ next \in Nat /\ next >= 1
      /\ b.n = next - 1 /\ left \in Nat /\ \A n : b = Block(n) <=> n = next - 1
  BY SlotFacts, RingAssumption DEF TypeInv, Block, Blocks, SourceInv
<1>2. \A d \in 0 .. NumCached : SlotAt(d)' = SlotAt(d) /\ SlotAt(d) \in Ring
  BY SlotFacts DEF SlotAt
<1>3. \A d \in 0 .. K - 2 : SlotAt(d) # i
  BY <1>1, SlotFacts
<1> DEFINE e == FC!cache_write_buffer(c, b)
<1>4. /\ e \in Caches /\ e.read_position = c.read_position
      /\ e.write_position = c.write_position + 1
      /\ \A p \in 1 .. c.write_position : e.file[p] = c.file[p]
      /\ e.file[c.write_position + 1] = b
  BY <1>1, Written
<1> HIDE DEF e, b
<1>5. cache'[i] = e /\ \A j \in Ring : j # i => cache'[j] = cache[j]
  BY DEF TypeInv, b, e
<1>6. Coming = next - 1 /\ Coming' = next /\ Rest = left + 1 /\ Rest' = left
  BY <1>1 DEF Coming, Rest, SourceInv
<1>7. /\ c.read_position \in Nat /\ c.write_position \in Nat
      /\ Coming = First(i) + c.write_position /\ c.write_position + Rest = SegmentSize
  BY <1>1 DEF Good, Ends, Caches
\* The first block of a cache stays, that of an empty one is the one stored.
<1>8. ASSUME NEW d \in 0 .. K - 1 PROVE First(SlotAt(d))' = First(SlotAt(d))
  <2>1. d \in 0 .. NumCached /\ SlotAt(d)' = SlotAt(d) /\ SlotAt(d) \in Ring
    BY <1>1, <1>2
  <2>2. CASE d = K - 1
    <3>1. CASE c.write_position = 0
      BY <1>1, <1>4, <1>5, <1>6, <1>7, <2>1, <2>2, <3>1 DEF First
    <3>2. CASE c.write_position > 0
      <4>1. e.file[1] = c.file[1] /\ e.write_position > 0
        BY <1>4, <1>7, <3>2
      <4> QED BY <1>5, <2>1, <2>2, <3>2, <4>1 DEF First
    <3> QED BY <1>7, <3>1, <3>2
  <2>3. CASE d # K - 1
    <3>1. d \in 0 .. K - 2 /\ SlotAt(d) # i
      BY <1>1, <1>3, <2>3
    <3>2. cache[SlotAt(d)].write_position > 0
      BY <1>1, <3>1 DEF Good, Holds
    <3> QED BY <1>5, <2>1, <3>1, <3>2 DEF First
  <2> QED BY <2>2, <2>3
<1>9. Shape(K)' /\ WriteAt(K)'
  <2>1. ~cache_write_ready[i]
    <3>1. K - 1 \in 0 .. NumCached - 1 /\ ~(K - 1 >= K)
      BY <1>1
    <3> QED BY <3>1 DEF Good, Shape
  <2> QED BY <1>1, <1>2, <1>5, <2>1 DEF Good, Shape, WriteAt, Waiting
<1>10. Ends(K)'
  <2>1. K - 1 \in 0 .. K - 1 /\ K - 1 \in 0 .. NumCached /\ 0 \in 0 .. K - 1
    BY <1>1
  <2>2. Coming' = First(i)' + e.write_position /\ e.write_position + Rest' = SegmentSize
    <3>1. First(i)' = First(i)
      BY <1>2, <1>8, <2>1
    <3>2. First(i) \in Int
      BY FirstIsInt
    <3> QED BY <1>1, <1>4, <1>6, <1>7, <3>1, <3>2
  <2>3. Reading' = First(cache_read_index)' + cache'[cache_read_index].read_position
    <3>1. SlotAt(0) = cache_read_index /\ First(cache_read_index)' = First(cache_read_index)
      BY <1>2, <1>8, <2>1, SlotFacts
    <3>2. cache'[cache_read_index].read_position = cache[cache_read_index].read_position
      BY <1>1, <1>4, <1>5
    <3> QED BY <1>1, <3>1, <3>2 DEF Good, Ends
  <2> QED BY <1>1, <1>2, <1>5, <2>1, <2>2, <2>3 DEF Ends
<1>11. ASSUME NEW d \in 0 .. K - 1 PROVE Holds(d, K)'
  <2>1. /\ d \in 0 .. NumCached /\ SlotAt(d)' = SlotAt(d) /\ SlotAt(d) \in Ring
        /\ Holds(d, K) /\ First(SlotAt(d))' = First(SlotAt(d))
    BY <1>1, <1>2, <1>8 DEF Good
  <2>2. CASE d = K - 1
    <3>1. ASSUME NEW p \in 1 .. e.write_position
          PROVE  e.file[p] = Block(First(i) + p - 1)
      <4>1. CASE p \in 1 .. c.write_position
        BY <1>4, <2>1, <2>2, <4>1 DEF Holds
      <4>2. CASE p = c.write_position + 1
        <5>1. First(i) + p - 1 = next - 1
          <6>1. First(i) \in Int
            BY FirstIsInt
          <6> QED BY <1>6, <1>7, <4>2, <6>1
        <5> QED BY <1>1, <1>4, <4>2, <5>1
      <4> QED BY <1>4, <1>7, <4>1, <4>2
    <3>2. e.write_position <= SegmentSize
      BY <1>1, <1>4, <1>6, <1>7
    <3> QED BY <1>1, <1>4, <1>5, <2>1, <2>2, <3>1, <3>2 DEF Holds, Block
  <2>3. CASE d # K - 1
    <3>1. d \in 0 .. K - 2 /\ SlotAt(d) # i
      BY <1>1, <1>3, <2>3
    <3> QED BY <1>5, <2>1, <3>1 DEF Holds, Block
  <2> QED BY <2>2, <2>3
<1>12. ASSUME NEW d \in 0 .. K - 2 PROVE Linked(d)'
  <2>1. /\ Linked(d) /\ SlotAt(d)' = SlotAt(d) /\ SlotAt(d + 1)' = SlotAt(d + 1)
        /\ First(SlotAt(d))' = First(SlotAt(d)) /\ First(SlotAt(d + 1))' = First(SlotAt(d + 1))
    BY <1>1, <1>2, <1>8 DEF Good
  <2> QED BY <2>1 DEF Linked
<1> QED BY <1>9, <1>10, <1>11, <1>12 DEF Good

\* The cache behind the last one in use gets the segment that begins.
LEMMA RingPrepare ==
  ASSUME TypeInv, NEW K \in 0 .. NumCached - 1, Good(K), Live,
         pending = "NEWSEGMENT", spc # "chain", left = SegmentSize,
         NEW i \in Ring, i = SlotAt(K), cache_write_index' = i, Prepare(i),
         UNCHANGED <<cache_read_index, seeks, next, left>>, Reading' = Reading
  PROVE  Good(K + 1)'
<1> DEFINE e == FC!cache_set_read_position(FC!cache_set_write_position(cache[i], 0), 0)
<1>1. /\ NumCached \in Nat /\ NumCached >= 1 /\ cache_read_index \in Ring /\ K \in Nat
      /\ SegmentSize \in Nat /\ SegmentSize >= 1
      /\ cache[i] \in Caches /\ next \in Nat /\ left \in Nat
  BY SlotFacts, RingAssumption DEF TypeInv
<1>2. \A d \in 0 .. NumCached : SlotAt(d)' = SlotAt(d) /\ SlotAt(d) \in Ring
  BY SlotFacts DEF SlotAt
<1>3. \A d \in 0 .. NumCached - 1 : d # K => SlotAt(d) # i
  BY <1>1, SlotFacts
<1>4. e \in Caches /\ e.read_position = 0 /\ e.write_position = 0
  BY <1>1, Rewound
<1> HIDE DEF e
<1>5. /\ cache'[i] = e /\ \A j \in Ring : j # i => cache'[j] = cache[j]
      /\ cache_size'[i] = SegmentSize /\ \A j \in Ring : j # i => cache_size'[j] = cache_size[j]
      /\ cache_write_ready'[i] = FALSE
      /\ \A j \in Ring : j # i => cache_write_ready'[j] = cache_write_ready[j]
      /\ pending' = "UNKNOWN" /\ spc' = "end"
  BY DEF TypeInv, Prepare, Return, e
<1>6. /\ Coming = next /\ Coming' = next /\ Rest = 0 /\ Rest' = SegmentSize
      /\ First(i)' = next
  BY <1>1, <1>4, <1>5 DEF Coming, Rest, First
<1>7. ASSUME NEW d \in 0 .. K - 1
      PROVE  /\ First(SlotAt(d))' = First(SlotAt(d)) /\ SlotAt(d)' = SlotAt(d)
             /\ SlotAt(d) \in Ring /\ SlotAt(d) # i /\ cache'[SlotAt(d)] = cache[SlotAt(d)]
             /\ cache_size'[SlotAt(d)] = cache_size[SlotAt(d)]
             /\ Holds(d, K) /\ cache[SlotAt(d)].write_position = SegmentSize
  <2>1. /\ SlotAt(d)' = SlotAt(d) /\ SlotAt(d) \in Ring /\ SlotAt(d) # i
        /\ cache'[SlotAt(d)] = cache[SlotAt(d)]
        /\ cache_size'[SlotAt(d)] = cache_size[SlotAt(d)] /\ Holds(d, K)
    BY <1>1, <1>2, <1>3, <1>5 DEF Good
  <2>2. cache[SlotAt(d)].write_position = SegmentSize
    <3>1. CASE d = K - 1
      <4>1. cache[SlotAt(d)].write_position + 0 = SegmentSize
        BY <1>1, <1>6, <3>1 DEF Good, Ends
      <4>2. cache[SlotAt(d)].write_position \in Nat
        BY <2>1 DEF TypeInv, Caches
      <4> QED BY <4>1, <4>2
    <3>2. CASE d # K - 1
      BY <1>1, <2>1, <3>2 DEF Holds
    <3> QED BY <3>1, <3>2
  <2>3. First(SlotAt(d))' = First(SlotAt(d))
    BY <1>6, <2>1 DEF First
  <2> QED BY <2>1, <2>2, <2>3
<1>8. Shape(K + 1)' /\ WriteAt(K + 1)'
  <2>1. ASSUME NEW d \in 0 .. NumCached - 1
        PROVE  (cache_write_ready[SlotAt(d)])' <=> d >= K + 1
    <3>1. SlotAt(d)' = SlotAt(d) /\ SlotAt(d) \in Ring /\ (cache_write_ready[SlotAt(d)] <=> d >= K)
      BY <1>1, <1>2 DEF Good, Shape
    <3>2. CASE d = K
      BY <1>1, <1>5, <3>1, <3>2
    <3>3. CASE d # K
      <4>1. SlotAt(d) # i
        BY <1>3, <3>3
      <4>2. d >= K <=> d >= K + 1
        BY <1>1, <3>3
      <4> QED BY <1>5, <3>1, <4>1, <4>2
    <3> QED BY <3>2, <3>3
  <2>2. (i + 1) % NumCached = SlotAt(K + 1)
    <3>1. (i + 1) % NumCached = IF i + 1 = NumCached THEN 0 ELSE i + 1
      BY <1>1, NextIndex DEF Ring
    <3> QED BY <1>1, <3>1 DEF Ring, SlotAt
  <2>3. SlotAt(K + 1)' = SlotAt(K + 1)
    BY <1>1, <1>2
  <2>4. \A j \in Ring : cache_write_ready'[j] =>
                          cache'[j].read_position = cache'[j].write_position
    BY <1>5 DEF Good, Shape
  <2> QED BY <1>5, <2>1, <2>2, <2>3, <2>4 DEF Shape, WriteAt, Waiting
<1>9. Ends(K + 1)'
  <2>1. SlotAt(K)' = i /\ (K + 1) - 1 = K /\ K + 1 > 0
    BY <1>1, <1>2
  <2>2. Coming' = First(i)' + e.write_position /\ e.write_position + Rest' = SegmentSize
    BY <1>1, <1>4, <1>6
  <2>3. Reading' = First(cache_read_index)' + cache'[cache_read_index].read_position
    <3>1. SlotAt(0) = cache_read_index
      BY SlotFacts
    <3>2. CASE K = 0
      <4>1. Reading = next /\ cache_read_index = i
        BY <1>6, <3>1, <3>2 DEF Good, Ends
      <4> QED BY <1>1, <1>4, <1>5, <1>6, <4>1
    <3>3. CASE K > 0
      <4>1. 0 \in 0 .. K - 1
        BY <1>1, <3>3
      <4>2. /\ First(cache_read_index)' = First(cache_read_index)
            /\ cache'[cache_read_index] = cache[cache_read_index]
        BY <1>7, <3>1, <4>1
      <4> QED BY <3>3, <4>2 DEF Good, Ends
    <3> QED BY <1>1, <3>2, <3>3
  <2> QED BY <1>5, <2>1, <2>2, <2>3 DEF Ends
<1>10. ASSUME NEW d \in 0 .. (K + 1) - 1 PROVE Holds(d, K + 1)'
  <2>1. CASE d = K
    <3>1. SlotAt(d)' = i
      BY <1>1, <1>2, <2>1
    <3> QED BY <1>1, <1>4, <1>5, <2>1, <3>1 DEF Holds
  <2>2. CASE d # K
    <3>1. d \in 0 .. K - 1
      BY <1>1, <2>2
    <3>2. \A n : Block(n)' = Block(n)
      BY DEF Block
    <3> QED BY <1>7, <3>1, <3>2 DEF Holds
  <2> QED BY <2>1, <2>2
<1>11. ASSUME NEW d \in 0 .. (K + 1) - 2 PROVE Linked(d)'
  <2>1. d \in 0 .. K - 1
    BY <1>1
  <2>2. CASE d = K - 1
    <3>1. SlotAt(d + 1)' = i /\ First(SlotAt(d))' = First(SlotAt(d)) /\ SlotAt(d)' = SlotAt(d)
      BY <1>1, <1>2, <1>7, <2>1, <2>2
    <3>2. Coming = First(SlotAt(d)) + SegmentSize
      BY <1>1, <1>7, <2>1, <2>2 DEF Good, Ends
    <3> QED BY <1>6, <3>1, <3>2 DEF Linked
  <2>3. CASE d # K - 1
    <3>1. d \in 0 .. K - 2 /\ d + 1 \in 0 .. K - 1
      BY <1>1, <2>1, <2>3
    <3> QED BY <1>7, <2>1, <3>1 DEF Good, Linked
  <2> QED BY <2>2, <2>3
<1> QED BY <1>8, <1>9, <1>10, <1>11 DEF Good

\* The task takes a buffer from the cache that is read.
Takes ==
  LET c == FC!cache_read_buffer(cache[cache_read_index]) IN
  /\ FC!cache_has_enough_data(cache[cache_read_index])
  /\ lpc # "push" /\ lpc' = "push"
  /\ UNCHANGED <<base, out, seeks, cache_size, cache_write_index>>
  /\ buf' = FC!ReadBlocks(cache[cache_read_index])
  /\ cache' = [cache EXCEPT ![cache_read_index] = c]
  /\ IF c.read_position = cache_size[cache_read_index]
     THEN /\ cache_write_ready' = [cache_write_ready EXCEPT ![cache_read_index] = TRUE]
          /\ cache_read_index' = (cache_read_index + 1) % NumCached
     ELSE UNCHANGED <<cache_write_ready, cache_read_index>>

\* What the task takes from the ring follows what it has taken before; a cache that
\* has been read to its end is given back.
LEMMA RingRead ==
  ASSUME TypeInv, NEW K \in 0 .. NumCached, Good(K), Takes,
         spc' \in Waiting <=> spc \in Waiting,
         Live' => Live, Coming' = Coming, Rest' = Rest
  PROVE  /\ \E L \in 0 .. NumCached : Good(L)'
         /\ \A j \in 1 .. Len(buf') : buf'[j] = Block(base + Len(out) + j - 1)
         /\ ~cache_write_ready[cache_read_index]
<1> DEFINE r == cache_read_index
           c == cache[r]
           blocks == FC!ReadBlocks(c)
           e == FC!cache_read_buffer(c)
<1>1. /\ NumCached \in Nat /\ NumCached >= 1 /\ r \in Ring /\ K \in Nat
      /\ SegmentSize \in Nat /\ SegmentSize >= 1 /\ c \in Caches
      /\ base \in Nat /\ Len(out) \in Nat
      /\ c.read_position \in Nat /\ c.write_position \in Nat /\ c.read_position < c.write_position
  BY SlotFacts, RingAssumption DEF TypeInv, Caches, FC!cache_has_enough_data, Takes
<1>2. /\ blocks \in Seq(Blocks) /\ Len(blocks) \in Nat /\ Len(blocks) > 0
      /\ e \in Caches /\ e.write_position = c.write_position /\ e.file = c.file
      /\ e.read_position = c.read_position + Len(blocks)
      /\ e.read_position <= c.write_position
      /\ \A i \in 1 .. Len(blocks) : blocks[i] = c.file[c.read_position + i]
  BY <1>1, ReadOut
<1>3. /\ buf' = blocks /\ cache'[r] = e /\ \A j \in Ring : j # r => cache'[j] = cache[j]
      /\ UNCHANGED <<base, out, seeks, cache_size, cache_write_index>>
      /\ lpc # "push" /\ lpc' = "push"
  BY DEF TypeInv, Takes
<1> HIDE DEF blocks, e
<1>4. ~cache_write_ready[r]
  BY <1>1 DEF Good, Shape
<1>5. SlotAt(0) = r /\ SlotAt(NumCached) = r /\ 0 \in 0 .. NumCached - 1
  BY <1>1, SlotFacts
<1>6. K >= 1
  <2>1. ~(0 >= K)
    BY <1>4, <1>5 DEF Good, Shape
  <2> QED BY <1>1, <2>1
<1>7. /\ cache_size[r] = SegmentSize /\ c.write_position <= SegmentSize
      /\ K > 1 => c.write_position = SegmentSize
      /\ \A p \in 1 .. c.write_position : c.file[p] = Block(First(r) + p - 1)
  <2>1. 0 \in 0 .. K - 1
    BY <1>1, <1>6
  <2>2. Holds(0, K)
    BY <2>1 DEF Good
  <2>3. K > 1 => 0 < K - 1
    BY <1>1
  <2> QED BY <1>5, <2>2, <2>3 DEF Holds
<1>8. /\ Reading = base + Len(out) /\ Reading = First(r) + c.read_position /\ First(r) \in Int
      /\ Reading' = Reading + Len(blocks)
  <2>1. Reading = base + Len(out) /\ Reading' = base + Len(out) + Len(blocks)
    BY <1>1, <1>3 DEF Reading
  <2>2. Reading = First(r) + c.read_position
    BY <1>1, <1>6 DEF Good, Ends
  <2> QED BY <1>1, <2>1, <2>2, FirstIsInt
\* The blocks that were read are the next ones.
<1>9. ASSUME NEW j \in 1 .. Len(buf') PROVE buf'[j] = Block(base + Len(out) + j - 1)
  <2>1. j \in 1 .. Len(blocks)
    BY <1>3
  <2>2. c.read_position + j \in 1 .. c.write_position
    BY <1>1, <1>2, <2>1
  <2>3. blocks[j] = Block(First(r) + (c.read_position + j) - 1)
    BY <1>2, <1>7, <2>1, <2>2
  <2>4. First(r) + (c.read_position + j) - 1 = base + Len(out) + j - 1
    <3>1. First(r) + c.read_position = base + Len(out) /\ First(r) \in Int
      BY <1>8
    <3>2. j \in Int /\ c.read_position \in Int /\ base + Len(out) \in Int
      BY <1>1, <1>2, <2>1
    <3> QED BY <3>1, <3>2
  <2> QED BY <1>3, <2>3, <2>4
<1>10. \A i \in Ring : First(i)' = First(i)
  BY <1>1, <1>2, <1>3 DEF First
<1>11. \A n : Block(n)' = Block(n)
  BY <1>3 DEF Block
<1>12. \A d \in 0 .. NumCached : SlotAt(d) \in Ring
  BY SlotFacts
<1>13. \A d \in 1 .. NumCached - 1 : SlotAt(d) \in Ring /\ SlotAt(d) # r
  BY <1>1, <1>5, SlotFacts
<1>a. e.read_position # SegmentSize => e.read_position < SegmentSize
  <2>1. e.read_position \in Nat /\ e.read_position <= c.write_position
    BY <1>1, <1>2
  <2>2. c.write_position <= SegmentSize
    BY <1>7
  <2> QED BY <1>1, <2>1, <2>2
\* The cache is not read to its end.
<1>14. ASSUME e.read_position # SegmentSize PROVE Good(K)'
  <2>1. UNCHANGED <<cache_write_ready, cache_read_index>>
    BY <1>7, <1>14 DEF e, Takes
  <2>2. \A d \in 0 .. NumCached : SlotAt(d)' = SlotAt(d)
    BY <2>1 DEF SlotAt
  <2>3. Shape(K)' /\ WriteAt(K)'
    <3>1. \A j \in Ring : cache_write_ready'[j] =>
                             cache'[j].read_position = cache'[j].write_position
      BY <1>3, <1>4, <2>1 DEF Good, Shape
    <3> QED BY <1>1, <1>3, <2>1, <2>2, <3>1 DEF Good, Shape, WriteAt
  <2>4. Ends(K)'
    <3>1. Reading' = First(r)' + e.read_position
      BY <1>1, <1>2, <1>8, <1>10, <2>1
    <3>2. K - 1 \in 0 .. NumCached /\ K > 0
      BY <1>1, <1>6
    <3>3. cache'[SlotAt(K - 1)].write_position = cache[SlotAt(K - 1)].write_position
      BY <1>2, <1>3, <1>12, <3>2
    <3> QED BY <1>1, <1>3, <1>10, <1>12, <2>1, <2>2, <3>1, <3>2, <3>3 DEF Good, Ends
  <2>5. ASSUME NEW d \in 0 .. K - 1 PROVE Holds(d, K)'
    <3>1. Holds(d, K) /\ d \in 0 .. NumCached /\ SlotAt(d)' = SlotAt(d) /\ SlotAt(d) \in Ring
      BY <1>1, <1>12, <2>2 DEF Good
    <3>2. CASE d = 0
      <4>1. e.read_position < SegmentSize
        BY <1>14, <1>a
      <4>2. /\ cache'[SlotAt(d)] = e /\ cache[SlotAt(d)] = c /\ cache_size' = cache_size
            /\ e.write_position = c.write_position /\ e.file = c.file
        BY <1>2, <1>3, <1>5, <3>2
      <4>3. First(SlotAt(d))' = First(SlotAt(d))
        BY <1>10, <3>1
      <4> HIDE DEF c
      <4> QED BY <1>11, <3>1, <3>2, <4>1, <4>2, <4>3 DEF Holds
    <3>3. CASE d # 0
      <4>1. SlotAt(d) # r
        BY <1>1, <1>13, <3>3
      <4> QED BY <1>3, <1>10, <1>11, <3>1, <4>1 DEF Holds
    <3> QED BY <3>2, <3>3
  <2>6. ASSUME NEW d \in 0 .. K - 2 PROVE Linked(d)'
    <3>1. /\ Linked(d) /\ SlotAt(d)' = SlotAt(d) /\ SlotAt(d) \in Ring
          /\ SlotAt(d + 1)' = SlotAt(d + 1) /\ SlotAt(d + 1) \in Ring
      <4>1. d \in 0 .. NumCached /\ d + 1 \in 0 .. NumCached
        BY <1>1
      <4> QED BY <1>12, <2>2, <4>1 DEF Good
    <3>2. cache'[SlotAt(d + 1)].write_position = cache[SlotAt(d + 1)].write_position
      BY <1>2, <1>3, <3>1
    <3> QED BY <1>10, <3>1, <3>2 DEF Linked
  <2> QED BY <2>3, <2>4, <2>5, <2>6 DEF Good
\* It is, and is given back.
<1>15. ASSUME e.read_position = SegmentSize PROVE Good(K - 1)'
  <2>1. /\ cache_write_ready' = [cache_write_ready EXCEPT ![r] = TRUE]
        /\ cache_read_index' = (r + 1) % NumCached
    BY <1>7, <1>15 DEF e, Takes
  <2>2. c.write_position = SegmentSize
    BY <1>1, <1>2, <1>7, <1>15
  <2>3. cache_read_index' = IF r + 1 = NumCached THEN 0 ELSE r + 1
    <3>1. r \in -1 .. NumCached - 1
      BY <1>1 DEF Ring
    <3> QED BY <2>1, <3>1, NextIndex
  <2>4. \A d \in 0 .. NumCached - 1 : SlotAt(d)' = SlotAt(d + 1)
    BY <1>1, <2>3 DEF SlotAt, Ring
  <2>5. /\ cache_write_ready'[r]
        /\ \A j \in Ring : j # r => cache_write_ready'[j] = cache_write_ready[j]
    BY <1>1, <2>1 DEF TypeInv
  <2>6. K - 1 \in 0 .. NumCached - 1 /\ SlotAt(K - 1)' = SlotAt(K)
    <3>1. K - 1 \in 0 .. NumCached - 1 /\ (K - 1) + 1 = K
      BY <1>1, <1>6
    <3> QED BY <2>4, <3>1
  <2>7. Shape(K - 1)' /\ WriteAt(K - 1)'
    <3>1. ASSUME NEW d \in 0 .. NumCached - 1
          PROVE  (cache_write_ready[SlotAt(d)])' <=> d >= K - 1
      <4>1. CASE d = NumCached - 1
        <5>1. d + 1 = NumCached /\ d >= K - 1
          BY <1>1, <4>1
        <5> QED BY <1>5, <2>4, <2>5, <5>1
      <4>2. CASE d # NumCached - 1
        <5>1. d + 1 \in 1 .. NumCached - 1 /\ d + 1 \in 0 .. NumCached - 1
          BY <1>1, <4>2
        <5>2. SlotAt(d + 1) # r /\ SlotAt(d + 1) \in Ring
          BY <1>13, <5>1
        <5>3. cache_write_ready[SlotAt(d + 1)] <=> d + 1 >= K
          BY <5>1 DEF Good, Shape
        <5>4. d + 1 >= K <=> d >= K - 1
          BY <1>1
        <5> QED BY <2>4, <2>5, <5>2, <5>3, <5>4
      <4> QED BY <4>1, <4>2
    <3>2. \A j \in Ring : cache_write_ready'[j] =>
                             cache'[j].read_position = cache'[j].write_position
      BY <1>2, <1>3, <1>15, <2>2, <2>5 DEF Good, Shape
    <3>3. WriteAt(K - 1)'
      BY <1>3, <1>6, <2>6 DEF Good, WriteAt
    <3> QED BY <3>1, <3>2, <3>3 DEF Shape
  <2>8. Reading' = First(r) + SegmentSize
    <3>1. Reading' = First(r) + c.read_position + Len(blocks) /\ First(r) \in Int
      BY <1>8
    <3>2. c.read_position + Len(blocks) = SegmentSize
      BY <1>2, <1>15
    <3>3. c.read_position \in Int /\ Len(blocks) \in Int
      BY <1>1, <1>2
    <3> HIDE DEF c
    <3> QED BY <3>1, <3>2, <3>3
  <2>9. Ends(K - 1)'
    <3>1. CASE K = 1
      <4>1. Live => Coming = First(r) + SegmentSize /\ SegmentSize + Rest = SegmentSize
        BY <1>5, <2>2, <3>1 DEF Good, Ends
      <4>2. Rest \in Int
        BY DEF Rest, TypeInv
      <4>3. Live => Coming = First(r) + SegmentSize /\ Rest = 0
        BY <1>1, <4>1, <4>2
      <4> QED BY <2>8, <3>1, <4>3 DEF Ends
    <3>2. CASE K > 1
      <4>1. /\ SlotAt(0)' = SlotAt(1) /\ SlotAt(1) \in Ring /\ SlotAt(1) # r
            /\ cache_read_index' = SlotAt(1) /\ K - 1 > 0
        <5>1. 1 \in 1 .. NumCached - 1 /\ 0 + 1 = 1 /\ K - 1 > 0
          BY <1>1, <3>2
        <5>2. cache_read_index' = SlotAt(1)
          BY <1>1, <2>3 DEF SlotAt, Ring
        <5> QED BY <1>5, <1>12, <1>13, <2>4, <5>1, <5>2
      <4>2. Holds(1, K) /\ Linked(0)
        BY <1>1, <3>2 DEF Good
      <4>3. Live' \/ cache'[SlotAt(1)].write_position > 0 =>
              Reading' = First(SlotAt(1)) + cache'[SlotAt(1)].read_position
        <5>1. cache'[SlotAt(1)] = cache[SlotAt(1)] /\ cache[SlotAt(1)].read_position = 0
          BY <1>3, <4>1, <4>2 DEF Holds
        <5>2. 0 + 1 = 1 /\ First(SlotAt(1)) \in Int
          BY <4>1, FirstIsInt
        <5> QED BY <1>1, <1>5, <1>10, <2>8, <4>1, <4>2, <5>1, <5>2 DEF Linked
      <4>4. /\ SlotAt((K - 1) - 1)' = SlotAt(K - 1) /\ SlotAt(K - 1) \in Ring
            /\ cache'[SlotAt(K - 1)] = cache[SlotAt(K - 1)]
        <5>1. /\ (K - 1) - 1 \in 0 .. NumCached - 1 /\ ((K - 1) - 1) + 1 = K - 1
              /\ K - 1 \in 1 .. NumCached - 1
          BY <1>1, <3>2
        <5> QED BY <1>3, <1>12, <1>13, <2>4, <2>6, <5>1
      <4>5. Live' => /\ Coming' = First(SlotAt(K - 1)) + cache'[SlotAt(K - 1)].write_position
                     /\ cache'[SlotAt(K - 1)].write_position + Rest' = SegmentSize
        BY <1>6, <4>4, <3>2 DEF Good, Ends
      <4>6. First(cache_read_index)' = First(SlotAt(1))
        BY <1>10, <4>1
      <4>7. First(SlotAt((K - 1) - 1))' = First(SlotAt(K - 1))
        BY <1>10, <4>4
      <4> QED BY <4>1, <4>3, <4>4, <4>5, <4>6, <4>7, <1>1, <3>2 DEF Ends
    <3> QED BY <1>1, <1>6, <3>1, <3>2
  <2>10. ASSUME NEW d \in 0 .. (K - 1) - 1 PROVE Holds(d, K - 1)'
    <3>1. /\ d + 1 \in 0 .. K - 1 /\ d + 1 \in 1 .. NumCached - 1 /\ d \in 0 .. NumCached - 1
          /\ d + 1 > 0 /\ (d < (K - 1) - 1 => d + 1 < K - 1) /\ d + 1 \in 0 .. NumCached
      BY <1>1
    <3>2. /\ Holds(d + 1, K) /\ SlotAt(d)' = SlotAt(d + 1) /\ SlotAt(d + 1) \in Ring
          /\ cache'[SlotAt(d + 1)] = cache[SlotAt(d + 1)]
      BY <1>3, <1>12, <1>13, <2>4, <3>1 DEF Good
    <3> QED BY <1>3, <1>10, <1>11, <3>1, <3>2 DEF Holds
  <2>11. ASSUME NEW d \in 0 .. (K - 1) - 2 PROVE Linked(d)'
    <3>1. /\ d + 1 \in 0 .. K - 2 /\ d + 1 \in 1 .. NumCached - 1 /\ d \in 0 .. NumCached - 1
          /\ d + 2 \in 1 .. NumCached - 1 /\ (d + 1) + 1 = d + 2 /\ d + 1 \in 0 .. NumCached - 1
          /\ d + 1 \in 0 .. NumCached /\ d + 2 \in 0 .. NumCached
      BY <1>1
    <3>2. /\ Linked(d + 1) /\ SlotAt(d)' = SlotAt(d + 1) /\ SlotAt(d + 1)' = SlotAt(d + 2)
          /\ SlotAt(d + 1) \in Ring /\ SlotAt(d + 2) \in Ring
          /\ cache'[SlotAt(d + 2)] = cache[SlotAt(d + 2)]
      BY <1>3, <1>12, <1>13, <2>4, <3>1 DEF Good
    <3> QED BY <1>10, <3>1, <3>2 DEF Linked
  <2> QED BY <2>7, <2>9, <2>10, <2>11 DEF Good
<1>16. \E L \in 0 .. NumCached : Good(L)'
  <2>1. CASE e.read_position # SegmentSize
    BY <1>14, <2>1
  <2>2. CASE e.read_position = SegmentSize
    <3>1. K - 1 \in 0 .. NumCached
      BY <1>1, <1>6
    <3> QED BY <1>15, <2>2, <3>1
  <2> QED BY <2>1, <2>2
<1> QED BY <1>4, <1>9, <1>16

-----------------------------------------------------------------------------
(***************************************************************************)
(* Every step keeps the invariant. First the steps that leave the ring     *)
(* alone, with those of a seek and of the disposal after which nothing is  *)
(* delivered before the flush ends.                                        *)
(***************************************************************************)
LEMMA SourceBeginKeeps == Inv /\ SourceBegin => Inv'
<1> SUFFICES ASSUME Inv, SourceBegin PROVE Inv'
  OBVIOUS
<1> USE DEF Inv, SourceBegin, Return, bufVars, flagVars, loopVars, padVars, ctlVars, outVars, seekHist
<1>a. /\ spc = "idle" /\ jsTask = "started"
      /\ \/ pending = "NEWSEGMENT" /\ spc' = "size" /\ sres' = sres
         \/ pending = "EOS" /\ spc' = "eos" /\ sres' = sres
         \/ pending = "UNKNOWN" /\ spc' = "read" /\ sres' = sres
         \/ spc' = "end" /\ sres' = jsresult
      /\ UNCHANGED <<pending, jsresult, jsTask, next, left,
                     bufVars, flagVars, loopVars, padVars, ctlVars, outVars>>
  BY DEF TypeInv
<1> HIDE DEF SourceBegin
<1> USE <1>a
<1>1. FlagInv'
  BY Zenon DEF FlagInv
<1>2. TypeInv'
  BY DEF TypeInv, Results
<1>3. PadInv'
  BY DEF PadInv, FlushSteps
<1>4. SourceInv'
  BY BoundaryFacts, RingAssumption DEF SourceInv, Handling
<1>5. IndexInv'
  BY DEF IndexInv, Coming, Waiting
<1>6. SeekInv'
  BY DEF SeekInv, Flushed, InBuffer, Windows, PadInv, FlushSteps
<1>7. RingInv'
  <2>1. Flowing' => Flowing
    BY DEF Flowing
  <2>2. ASSUME NEW K \in 0 .. NumCached, Good(K) PROVE WriteAt(K)'
    BY <2>2, WriteFrame DEF Good, Waiting
  <2>3. Reading' = Reading
    BY DEF Reading
  <2>4. Live' => Live /\ Coming' = Coming /\ Rest' = Rest
    BY DEF Live, Dead, Coming, Rest, SourceInv
  <2>5. Stuck => Stuck'
    BY DEF Stuck, BetweenSegments, Shut, InBuffer
  <2> QED BY <2>1, <2>2, <2>3, <2>4, <2>5, RingFrame
<1>8. OutInv'
  BY DEF OutInv, Flowing, Block
<1>9. AnnounceInv'
  BY DEF AnnounceInv, Flowing, Shut, InBuffer
<1>10. EosInv'
  BY DEF EosInv, SourceInv, Flowing
<1> QED BY <1>1, <1>2, <1>3, <1>4, <1>5, <1>6, <1>7, <1>8, <1>9, <1>10

LEMMA SourceSizeKeeps == Inv /\ SourceSize => Inv'
<1> SUFFICES ASSUME Inv, SourceSize PROVE Inv'
  OBVIOUS
<1> USE DEF Inv, SourceSize, Return, bufVars, flagVars, loopVars, padVars, ctlVars, outVars, seekHist
<1>1. FlagInv'
  BY Zenon DEF FlagInv
<1>2. TypeInv'
  BY RingAssumption DEF TypeInv, Results
<1>3. PadInv'
  BY DEF PadInv, FlushSteps
<1>4. SourceInv'
  BY BoundaryFacts, RingAssumption DEF SourceInv, Handling
<1>5. IndexInv'
  BY DEF IndexInv, Coming, Waiting
<1>6. SeekInv'
  BY DEF SeekInv, Flushed, InBuffer, Windows, PadInv, FlushSteps
<1>7. RingInv'
  <2>1. Flowing' => Flowing
    BY DEF Flowing
  <2>2. ASSUME NEW K \in 0 .. NumCached, Good(K) PROVE WriteAt(K)'
    BY <2>2, WriteFrame DEF Good, Waiting
  <2>3. Reading' = Reading
    BY DEF Reading
  <2>4. Live' => Live /\ Coming' = Coming /\ Rest' = Rest
    BY DEF Live, Dead, Coming, Rest, SourceInv
  <2>5. Stuck => Stuck'
    BY DEF Stuck, BetweenSegments, Shut, InBuffer
  <2> QED BY <2>1, <2>2, <2>3, <2>4, <2>5, RingFrame
<1>8. OutInv'
  BY DEF OutInv, Flowing, Block
<1>9. AnnounceInv'
  BY BoundaryFacts DEF AnnounceInv, Flowing, Shut, InBuffer, TypeInv
<1>10. EosInv'
  BY DEF EosInv, SourceInv, Flowing
<1> QED BY <1>1, <1>2, <1>3, <1>4, <1>5, <1>6, <1>7, <1>8, <1>9, <1>10

LEMMA SourceEosKeeps == Inv /\ SourceEos => Inv'
<1> SUFFICES ASSUME Inv, SourceEos PROVE Inv'
  OBVIOUS
<1> USE DEF Inv, SourceEos, Return, bufVars, flagVars, loopVars, padVars, ctlVars, outVars, seekHist
<1>1. FlagInv'
  BY Zenon DEF FlagInv
<1>2. TypeInv'
  BY DEF TypeInv, Results
<1>3. PadInv'
  BY DEF PadInv, FlushSteps
<1>4. SourceInv'
  BY BoundaryFacts, RingAssumption DEF SourceInv, Handling
<1>5. IndexInv'
  BY DEF IndexInv, Coming, Waiting
<1>6. SeekInv'
  BY DEF SeekInv, Flushed, InBuffer, Windows, PadInv, FlushSteps
<1>7. RingInv'
  <2>1. Flowing' => Flowing
    BY DEF Flowing
  <2>2. ASSUME NEW K \in 0 .. NumCached, Good(K) PROVE WriteAt(K)'
    BY <2>2, WriteFrame DEF Good, Waiting
  <2>3. Reading' = Reading
    BY DEF Reading
  <2>4. Live' => Live /\ Coming' = Coming /\ Rest' = Rest
    BY DEF Live, Dead, Coming, Rest, SourceInv
  <2>5. Stuck => Stuck'
    BY DEF Stuck, BetweenSegments, Shut, InBuffer
  <2> QED BY <2>1, <2>2, <2>3, <2>4, <2>5, RingFrame
<1>8. OutInv'
  BY DEF OutInv, Flowing, Block
<1>9. AnnounceInv'
  BY DEF AnnounceInv, Flowing, Shut, InBuffer
<1>10. EosInv'
  BY DEF EosInv, SourceInv, Flowing
<1> QED BY <1>1, <1>2, <1>3, <1>4, <1>5, <1>6, <1>7, <1>8, <1>9, <1>10

LEMMA SinkEventEosKeeps == Inv /\ SinkEventEos => Inv'
<1> SUFFICES ASSUME Inv, SinkEventEos PROVE Inv'
  OBVIOUS
<1> USE DEF Inv, SinkEventEos, Return, SignalAdd, bufVars, padVars, ctlVars, outVars, seekHist
<1>1. FlagInv'
  BY Zenon DEF FlagInv
<1>2. TypeInv'
  BY DEF TypeInv, Results
<1>3. PadInv'
  BY DEF PadInv, FlushSteps
<1>4. SourceInv'
  BY BoundaryFacts, RingAssumption DEF SourceInv, Handling
<1>5. IndexInv'
  BY DEF IndexInv, Coming, Waiting
<1>6. SeekInv'
  BY DEF SeekInv, Flushed, InBuffer, Windows, PadInv, FlushSteps
<1>7. RingInv'
  <2>1. Flowing' => Flowing
    BY DEF Flowing
  <2>2. ASSUME NEW K \in 0 .. NumCached, Good(K) PROVE WriteAt(K)'
    BY <2>2, WriteFrame DEF Good, Waiting
  <2>3. Reading' = Reading
    BY DEF Reading
  <2>4. Live' => Live /\ Coming' = Coming /\ Rest' = Rest
    BY DEF Live, Dead, Coming, Rest, SourceInv
  <2>5. Stuck => Stuck'
    BY DEF Stuck, BetweenSegments, Shut, InBuffer
  <2> QED BY <2>1, <2>2, <2>3, <2>4, <2>5, RingFrame
<1>8. OutInv'
  BY DEF OutInv, Flowing, Block
<1>9. AnnounceInv'
  BY DEF AnnounceInv, Flowing, Shut, InBuffer
<1>10. EosInv'
  BY DEF EosInv, SourceInv, Flowing
<1> QED BY <1>1, <1>2, <1>3, <1>4, <1>5, <1>6, <1>7, <1>8, <1>9, <1>10

LEMMA SegmentWaitKeeps == Inv /\ SegmentWait => Inv'
<1> SUFFICES ASSUME Inv, SegmentWait PROVE Inv'
  OBVIOUS
<1> USE DEF Inv, SegmentWait, bufVars, flagVars, loopVars, padVars, ctlVars, outVars, seekHist
<1>1. FlagInv'
  BY Zenon DEF FlagInv
<1>2. TypeInv'
  BY DEF TypeInv, Results
<1>3. PadInv'
  BY DEF PadInv, FlushSteps
<1>4. SourceInv'
  BY BoundaryFacts, RingAssumption DEF SourceInv, Handling
<1>5. IndexInv'
  BY DEF IndexInv, Coming, Waiting
<1>6. SeekInv'
  BY DEF SeekInv, Flushed, InBuffer, Windows, PadInv, FlushSteps
<1>7. RingInv'
  <2>1. Flowing' => Flowing
    BY DEF Flowing
  <2>2. ASSUME NEW K \in 0 .. NumCached, Good(K) PROVE WriteAt(K)'
    BY <2>2, WriteFrame DEF Good, Waiting
  <2>3. Reading' = Reading
    BY DEF Reading
  <2>4. Live' => Live /\ Coming' = Coming /\ Rest' = Rest
    BY DEF Live, Dead, Coming, Rest, SourceInv
  <2>5. Stuck => Stuck'
    BY DEF Stuck, BetweenSegments, Shut, InBuffer
  <2> QED BY <2>1, <2>2, <2>3, <2>4, <2>5, RingFrame
<1>8. OutInv'
  BY DEF OutInv, Flowing, Block
<1>9. AnnounceInv'
  BY DEF AnnounceInv, Flowing, Shut, InBuffer
<1>10. EosInv'
  BY DEF EosInv, SourceInv, Flowing
<1> QED BY <1>1, <1>2, <1>3, <1>4, <1>5, <1>6, <1>7, <1>8, <1>9, <1>10

LEMMA SourceEndKeeps == Inv /\ SourceEnd => Inv'
<1> SUFFICES ASSUME Inv, SourceEnd PROVE Inv'
  OBVIOUS
<1> USE DEF Inv, SourceEnd, bufVars, flagVars, loopVars, padVars, ctlVars, outVars, seekHist
<1>1. FlagInv'
  BY Zenon DEF FlagInv
<1>2. TypeInv'
  BY DEF TypeInv, Results
<1>3. PadInv'
  BY DEF PadInv, FlushSteps
<1>4. SourceInv'
  BY BoundaryFacts, RingAssumption DEF SourceInv, Handling
<1>5. IndexInv'
  BY DEF IndexInv, Coming, Waiting
<1>6. SeekInv'
  BY DEF SeekInv, Flushed, InBuffer, Windows, PadInv, FlushSteps
<1>7. RingInv'
  <2>1. Flowing' => Flowing
    BY DEF Flowing
  <2>2. ASSUME NEW K \in 0 .. NumCached, Good(K) PROVE WriteAt(K)'
    BY <2>2, WriteFrame DEF Good, Waiting
  <2>3. Reading' = Reading
    BY DEF Reading
  <2>4. Live' => Live /\ Coming' = Coming /\ Rest' = Rest
    BY DEF Live, Dead, Coming, Rest, SourceInv
  <2>5. Stuck => Stuck'
    BY DEF Stuck, BetweenSegments, Shut, InBuffer
  <2> QED BY <2>1, <2>2, <2>3, <2>4, <2>5, RingFrame
<1>8. OutInv'
  BY DEF OutInv, Flowing, Block
<1>9. AnnounceInv'
  BY DEF AnnounceInv, Flowing, Shut, InBuffer
<1>10. EosInv'
  BY DEF EosInv, SourceInv, Flowing
<1> QED BY <1>1, <1>2, <1>3, <1>4, <1>5, <1>6, <1>7, <1>8, <1>9, <1>10

LEMMA LoopEndKeeps == Inv /\ LoopEnd => Inv'
<1> SUFFICES ASSUME Inv, LoopEnd PROVE Inv'
  OBVIOUS
<1> USE DEF Inv, LoopEnd, bufVars, flagVars, srcVars, padVars, ctlVars, outVars, seekHist
<1>1. FlagInv'
  BY Zenon DEF FlagInv
<1>2. TypeInv'
  BY DEF TypeInv, Results
<1>3. PadInv'
  BY DEF PadInv, FlushSteps
<1>4. SourceInv'
  BY BoundaryFacts, RingAssumption DEF SourceInv, Handling
<1>5. IndexInv'
  BY DEF IndexInv, Coming, Waiting
<1>6. SeekInv'
  BY DEF SeekInv, Flushed, InBuffer, Windows, PadInv, FlushSteps
<1>7. RingInv'
  <2>1. Flowing' => Flowing
    BY DEF Flowing
  <2>2. ASSUME NEW K \in 0 .. NumCached, Good(K) PROVE WriteAt(K)'
    BY <2>2, WriteFrame DEF Good, Waiting
  <2>3. Reading' = Reading
    BY DEF Reading
  <2>4. Live' => Live /\ Coming' = Coming /\ Rest' = Rest
    BY DEF Live, Dead, Coming, Rest, SourceInv
  <2>5. Stuck => Stuck'
    BY DEF Stuck, BetweenSegments, Shut, InBuffer
  <2> QED BY <2>1, <2>2, <2>3, <2>4, <2>5, RingFrame
<1>8. OutInv'
  BY DEF OutInv, Flowing, Block
<1>9. AnnounceInv'
  BY DEF AnnounceInv, Flowing, Shut, InBuffer
<1>10. EosInv'
  BY DEF EosInv, SourceInv, Flowing
<1> QED BY <1>1, <1>2, <1>3, <1>4, <1>5, <1>6, <1>7, <1>8, <1>9, <1>10

LEMMA LoopResultKeeps == Inv /\ LoopResult => Inv'
<1> SUFFICES ASSUME Inv, LoopResult PROVE Inv'
  OBVIOUS
<1> USE DEF Inv, LoopResult, bufVars, srcVars, padVars, ctlVars, outVars, seekHist
<1>1. FlagInv'
  BY Zenon DEF FlagInv
<1>2. TypeInv'
  BY DEF TypeInv, Results
<1>3. PadInv'
  BY DEF PadInv, FlushSteps
<1>4. SourceInv'
  BY BoundaryFacts, RingAssumption DEF SourceInv, Handling
<1>5. IndexInv'
  BY DEF IndexInv, Coming, Waiting
<1>6. SeekInv'
  BY DEF SeekInv, Flushed, InBuffer, Windows, PadInv, FlushSteps
<1>7. RingInv'
  <2>1. Flowing' => Flowing
    BY DEF Flowing
  <2>2. ASSUME NEW K \in 0 .. NumCached, Good(K) PROVE WriteAt(K)'
    BY <2>2, WriteFrame DEF Good, Waiting
  <2>3. Reading' = Reading
    BY DEF Reading
  <2>4. Live' => Live /\ Coming' = Coming /\ Rest' = Rest
    BY DEF Live, Dead, Coming, Rest, SourceInv
  <2>5. Stuck => Stuck'
    BY DEF Stuck, BetweenSegments, Shut, InBuffer
  <2> QED BY <2>1, <2>2, <2>3, <2>4, <2>5, RingFrame
<1>8. OutInv'
  BY DEF OutInv, Flowing, Block
<1>9. AnnounceInv'
  BY DEF AnnounceInv, Flowing, Shut, InBuffer
<1>10. EosInv'
  BY DEF EosInv, OutInv, Flowing
<1> QED BY <1>1, <1>2, <1>3, <1>4, <1>5, <1>6, <1>7, <1>8, <1>9, <1>10

LEMMA SeekStartKeeps == Inv /\ SeekStart => Inv'
<1> SUFFICES ASSUME Inv, SeekStart PROVE Inv'
  OBVIOUS
<1> USE DEF Inv, SeekStart, bufVars, flagVars, loopVars, srcVars, outVars, seekHist
<1>1. FlagInv'
  BY Zenon DEF FlagInv
<1>2. TypeInv'
  BY DEF TypeInv, Results
<1>3. PadInv'
  BY DEF PadInv, FlushSteps
<1>4. SourceInv'
  BY BoundaryFacts, RingAssumption DEF SourceInv, Handling
<1>5. IndexInv'
  BY DEF IndexInv, Coming, Waiting
<1>6. SeekInv'
  BY DEF SeekInv, Flushed, InBuffer, Windows, PadInv, FlushSteps
<1>7. RingInv'
  <2>1. Flowing' => Flowing
    BY DEF Flowing
  <2>2. ASSUME NEW K \in 0 .. NumCached, Good(K) PROVE WriteAt(K)'
    BY <2>2, WriteFrame DEF Good, Waiting
  <2>3. Reading' = Reading
    BY DEF Reading
  <2>4. Live' => Live /\ Coming' = Coming /\ Rest' = Rest
    BY DEF Live, Dead, Coming, Rest, SourceInv
  <2>5. Stuck => Stuck'
    BY DEF Stuck, BetweenSegments, Shut, InBuffer
  <2> QED BY <2>1, <2>2, <2>3, <2>4, <2>5, RingFrame
<1>8. OutInv'
  BY DEF OutInv, Flowing, Block
<1>9. AnnounceInv'
  BY DEF AnnounceInv, Flowing, Shut, InBuffer
<1>10. EosInv'
  BY DEF EosInv, SourceInv, Flowing
<1> QED BY <1>1, <1>2, <1>3, <1>4, <1>5, <1>6, <1>7, <1>8, <1>9, <1>10

LEMMA SeekFlushDownstreamKeeps == Inv /\ SeekFlushDownstream => Inv'
<1> SUFFICES ASSUME Inv, SeekFlushDownstream PROVE Inv'
  OBVIOUS
<1> USE DEF Inv, SeekFlushDownstream, bufVars, flagVars, loopVars, srcVars, outVars, seekHist
<1>1. FlagInv'
  BY Zenon DEF FlagInv
<1>2. TypeInv'
  BY DEF TypeInv, Results
<1>3. PadInv'
  BY DEF PadInv, FlushSteps
<1>4. SourceInv'
  BY BoundaryFacts, RingAssumption DEF SourceInv, Handling
<1>5. IndexInv'
  BY DEF IndexInv, Coming, Waiting
<1>6. SeekInv'
  BY DEF SeekInv, Flushed, InBuffer, Windows, PadInv, FlushSteps
<1>7. RingInv'
  BY DEF RingInv, Flowing
<1>8. OutInv'
  BY DEF OutInv, Flowing, Block
<1>9. AnnounceInv'
  BY DEF AnnounceInv, Flowing, Shut, InBuffer
<1>10. EosInv'
  BY DEF EosInv, SourceInv, Flowing
<1> QED BY <1>1, <1>2, <1>3, <1>4, <1>5, <1>6, <1>7, <1>8, <1>9, <1>10

LEMMA SeekPauseKeeps == Inv /\ SeekPause => Inv'
<1> SUFFICES ASSUME Inv, SeekPause PROVE Inv'
  OBVIOUS
<1> USE DEF Inv, SeekPause, bufVars, flagVars, srcVars, padVars, outVars, seekHist
<1>1. FlagInv'
  BY Zenon DEF FlagInv
<1>2. TypeInv'
  BY DEF TypeInv, Results
<1>3. PadInv'
  BY DEF PadInv, FlushSteps
<1>4. SourceInv'
  BY BoundaryFacts, RingAssumption DEF SourceInv, Handling
<1>5. IndexInv'
  BY DEF IndexInv, Coming, Waiting
<1>6. SeekInv'
  BY DEF SeekInv, Flushed, InBuffer, Windows, PadInv, FlushSteps
<1>7. RingInv'
  BY DEF RingInv, Flowing
<1>8. OutInv'
  BY DEF OutInv, Flowing, Block
<1>9. AnnounceInv'
  BY DEF AnnounceInv, Flowing, Shut, InBuffer
<1>10. EosInv'
  BY DEF EosInv, SourceInv, Flowing
<1> QED BY <1>1, <1>2, <1>3, <1>4, <1>5, <1>6, <1>7, <1>8, <1>9, <1>10

LEMMA SeekStopSourceKeeps == Inv /\ SeekStopSource => Inv'
<1> SUFFICES ASSUME Inv, SeekStopSource PROVE Inv'
  OBVIOUS
<1> USE DEF Inv, SeekStopSource, bufVars, flagVars, loopVars, padVars, outVars, seekHist
<1>1. FlagInv'
  BY Zenon DEF FlagInv
<1>2. TypeInv'
  BY DEF TypeInv, Results
<1>3. PadInv'
  BY DEF PadInv, FlushSteps
<1>4. SourceInv'
  BY BoundaryFacts, RingAssumption DEF SourceInv, Handling
<1>5. IndexInv'
  BY DEF IndexInv, Coming, Waiting
<1>6. SeekInv'
  BY DEF SeekInv, Flushed, InBuffer, Windows, PadInv, FlushSteps
<1>7. RingInv'
  BY DEF RingInv, Flowing
<1>8. OutInv'
  BY DEF OutInv, Flowing, Block
<1>9. AnnounceInv'
  BY DEF AnnounceInv, Flowing, Shut, InBuffer
<1>10. EosInv'
  BY DEF EosInv, SourceInv, Flowing
<1> QED BY <1>1, <1>2, <1>3, <1>4, <1>5, <1>6, <1>7, <1>8, <1>9, <1>10

LEMMA SeekDataKeeps == Inv /\ SeekData => Inv'
<1> SUFFICES ASSUME Inv, SeekData PROVE Inv'
  OBVIOUS
<1>a. next + left \in Boundaries
  <2>1. pending = "EOS" => Total + 1 \in Boundaries /\ next + left = Total + 1
    <3>1. Segments * SegmentSize + 1 \in Boundaries
      BY RingAssumption DEF Boundaries
    <3> QED BY <3>1, BoundaryFacts DEF Inv, SourceInv, Total
  <2> QED BY <2>1 DEF Inv, SourceInv, TypeInv
<1>b. /\ next' \in 1 .. Total + 1 /\ base' \in 1 .. Total + 1 /\ left' \in 0 .. SegmentSize
      /\ next' + left' \in Boundaries /\ torn' \in BOOLEAN
      /\ ~torn' => next' = base' /\ left' = 0
      /\ \/ pending' = "NEWSEGMENT" /\ left' = 0
         \/ pending' = pending /\ pending' # "UNKNOWN" /\ left' = 0
            /\ (pending = "EOS" => next' = next /\ left = 0)
         \/ pending' = pending /\ pending' = "UNKNOWN" /\ UNCHANGED <<next, left>>
  <2>1. /\ next + left \in 1 .. Total + 1 /\ next \in 1 .. Total + 1 /\ left \in 0 .. SegmentSize
        /\ 0 \in 0 .. SegmentSize /\ next + left + 0 = next + left
    BY <1>a, BoundaryFacts, RingAssumption DEF Inv, TypeInv
  <2>2. CASE SeekSegment
    <3>1. PICK s \in 1 .. Segments : /\ next' = (s - 1) * SegmentSize + 1
                                     /\ base' = (s - 1) * SegmentSize + 1
      BY <2>2 DEF SeekSegment
    <3> DEFINE n == (s - 1) * SegmentSize + 1
    <3>2. n \in Boundaries /\ n \in 1 .. Total
      BY BoundaryFacts
    <3>3. left' = 0 /\ pending' = "NEWSEGMENT" /\ torn' = FALSE /\ next' = n /\ base' = n
      BY <2>2, <3>1 DEF SeekSegment
    <3> HIDE DEF n
    <3>4. n \in 1 .. Total + 1 /\ n + 0 = n
      BY <3>2, BoundaryFacts
    <3> QED BY <2>1, <3>2, <3>3, <3>4
  <2>3. CASE SeekDuration
    BY <1>a, <2>1, <2>3 DEF SeekDuration, GiveUpSegment
  <2>4. CASE SeekFails
    <3>1. pending = "EOS" => next = Total + 1 /\ left = 0
      BY DEF Inv, SourceInv
    <3>2. torn' \in BOOLEAN
      BY <2>4 DEF SeekFails
    <3>3. CASE pending = "UNKNOWN"
      <4>1. /\ next' = next /\ left' = left /\ base' = next + left /\ pending' = pending
        BY <2>4, <3>3 DEF SeekFails
      <4>2. left > 0 => torn'
        BY Zenon, <2>4, <3>3 DEF SeekFails
      <4>3. ~torn' => left = 0
        BY <2>1, <4>2
      <4> QED BY <1>a, <2>1, <3>2, <3>3, <4>1, <4>3
    <3>4. CASE pending # "UNKNOWN"
      BY <1>a, <2>1, <2>4, <3>1, <3>2, <3>4 DEF SeekFails, GiveUpSegment
    <3> QED BY <3>3, <3>4
  <2> QED BY <2>2, <2>3, <2>4 DEF SeekData
<1>c. /\ kpc = "lock" /\ jsTask # "started" /\ spc = "idle" /\ kpc' = "stop"
      /\ seeks' = seeks + 1 /\ jsresult' = "OK" /\ stranded' \in BOOLEAN
      /\ UNCHANGED <<bufVars, flagVars, loopVars, jsTask, spc, sres, padVars, dpc,
                     newSegmentOut, out, eosOut, raced, wild>>
  BY DEF SeekData
<1> USE <1>b, <1>c DEF Inv, bufVars, flagVars, loopVars, padVars
<1>1. FlagInv'
  BY Zenon DEF FlagInv
<1>2. TypeInv'
  <2>1. next' \in 1 .. Total + 1 /\ base' \in 1 .. Total + 1 /\ left' \in 0 .. SegmentSize
    OBVIOUS
  <2>2. seeks' \in 0 .. MaxSeeks
    BY RingAssumption DEF TypeInv, SeekInv
  <2> QED BY <2>1, <2>2, RingAssumption DEF TypeInv, Results
<1>3. PadInv'
  BY DEF PadInv, FlushSteps
<1>4. SourceInv'
  BY BoundaryFacts, RingAssumption DEF SourceInv, Handling
<1>5. IndexInv'
  BY BoundaryFacts DEF IndexInv, Coming, Waiting, SeekInv, Flushed
<1>6. SeekInv'
  BY DEF SeekInv, Flushed, InBuffer, Windows, PadInv, FlushSteps
<1>7. RingInv'
  BY DEF RingInv, Flowing
<1>8. OutInv'
  BY DEF OutInv, Flowing, Block
<1>9. AnnounceInv'
  BY DEF AnnounceInv, Flowing, Shut, InBuffer
<1>10. EosInv'
  BY DEF EosInv, SourceInv, Flowing
<1> QED BY <1>1, <1>2, <1>3, <1>4, <1>5, <1>6, <1>7, <1>8, <1>9, <1>10

LEMMA SeekResumeKeeps == Inv /\ SeekResume => Inv'
<1> SUFFICES ASSUME Inv, SeekResume PROVE Inv'
  OBVIOUS
<1> USE DEF Inv, SeekResume, bufVars, padVars, outVars, seekHist
<1>1. FlagInv'
  BY Zenon DEF FlagInv
<1>2. TypeInv'
  BY DEF TypeInv, Results
<1>3. PadInv'
  BY DEF PadInv, FlushSteps
<1>4. SourceInv'
  BY BoundaryFacts, RingAssumption DEF SourceInv, Handling
<1>5. IndexInv'
  BY DEF IndexInv, Coming, Waiting, SeekInv
<1>6. SeekInv'
  BY DEF SeekInv, Flushed, InBuffer, Windows, PadInv, FlushSteps
<1>7. RingInv'
  <2>1. Flowing' => Flowing
    BY DEF Flowing
  <2>2. ASSUME NEW K \in 0 .. NumCached, Good(K) PROVE WriteAt(K)'
    BY <2>2, WriteFrame DEF Good, Waiting
  <2>3. Reading' = Reading
    BY DEF Reading
  <2>4. Live' => Live /\ Coming' = Coming /\ Rest' = Rest
    BY DEF Live, Dead, Coming, Rest, PadInv, FlushSteps
  <2>5. Stuck => Stuck'
    BY DEF Stuck, BetweenSegments, Shut, InBuffer
  <2> QED BY <2>1, <2>2, <2>3, <2>4, <2>5, RingFrame
<1>8. OutInv'
  BY DEF OutInv, Flowing, Block
<1>9. AnnounceInv'
  BY DEF AnnounceInv, Flowing, Shut, InBuffer
<1>10. EosInv'
  BY DEF EosInv, SourceInv, Flowing
<1> QED BY <1>1, <1>2, <1>3, <1>4, <1>5, <1>6, <1>7, <1>8, <1>9, <1>10

LEMMA DisposeSrcPadKeeps == Inv /\ DisposeSrcPad => Inv'
<1> SUFFICES ASSUME Inv, DisposeSrcPad PROVE Inv'
  OBVIOUS
<1> USE DEF Inv, DisposeSrcPad, SignalAdd, SignalDel, bufVars, padVars, outVars, seekHist
<1>1. FlagInv'
  BY Zenon DEF FlagInv
<1>2. TypeInv'
  BY DEF TypeInv, Results
<1>3. PadInv'
  BY DEF PadInv, FlushSteps
<1>4. SourceInv'
  BY BoundaryFacts, RingAssumption DEF SourceInv, Handling
<1>5. IndexInv'
  BY DEF IndexInv, Coming, Waiting
<1>6. SeekInv'
  BY DEF SeekInv, Flushed, InBuffer, Windows, PadInv, FlushSteps
<1>7. RingInv'
  BY DEF RingInv, Flowing
<1>8. OutInv'
  BY DEF OutInv, Flowing, Block
<1>9. AnnounceInv'
  BY DEF AnnounceInv, Flowing, Shut, InBuffer
<1>10. EosInv'
  BY DEF EosInv, SourceInv, Flowing
<1> QED BY <1>1, <1>2, <1>3, <1>4, <1>5, <1>6, <1>7, <1>8, <1>9, <1>10

LEMMA DisposeSinkPadKeeps == Inv /\ DisposeSinkPad => Inv'
<1> SUFFICES ASSUME Inv, DisposeSinkPad PROVE Inv'
  OBVIOUS
<1> USE DEF Inv, DisposeSinkPad, bufVars, flagVars, loopVars, srcVars, outVars, seekHist
<1>1. FlagInv'
  BY Zenon DEF FlagInv
<1>2. TypeInv'
  BY DEF TypeInv, Results
<1>3. PadInv'
  BY DEF PadInv, FlushSteps
<1>4. SourceInv'
  BY BoundaryFacts, RingAssumption DEF SourceInv, Handling
<1>5. IndexInv'
  BY DEF IndexInv, Coming, Waiting
<1>6. SeekInv'
  BY DEF SeekInv, Flushed, InBuffer, Windows, PadInv, FlushSteps
<1>7. RingInv'
  BY DEF RingInv, Flowing
<1>8. OutInv'
  BY DEF OutInv, Flowing, Block
<1>9. AnnounceInv'
  BY DEF AnnounceInv, Flowing, Shut, InBuffer
<1>10. EosInv'
  BY DEF EosInv, SourceInv, Flowing
<1> QED BY <1>1, <1>2, <1>3, <1>4, <1>5, <1>6, <1>7, <1>8, <1>9, <1>10

LEMMA DisposeSourceKeeps == Inv /\ DisposeSource => Inv'
<1> SUFFICES ASSUME Inv, DisposeSource PROVE Inv'
  OBVIOUS
<1> USE DEF Inv, DisposeSource, bufVars, flagVars, loopVars, padVars, outVars, seekHist
<1>1. FlagInv'
  BY Zenon DEF FlagInv
<1>2. TypeInv'
  BY DEF TypeInv, Results
<1>3. PadInv'
  BY DEF PadInv, FlushSteps
<1>4. SourceInv'
  BY BoundaryFacts, RingAssumption DEF SourceInv, Handling
<1>5. IndexInv'
  BY DEF IndexInv, Coming, Waiting
<1>6. SeekInv'
  BY DEF SeekInv, Flushed, InBuffer, Windows, PadInv, FlushSteps
<1>7. RingInv'
  BY DEF RingInv, Flowing
<1>8. OutInv'
  BY DEF OutInv, Flowing, Block
<1>9. AnnounceInv'
  BY DEF AnnounceInv, Flowing, Shut, InBuffer
<1>10. EosInv'
  BY DEF EosInv, SourceInv, Flowing
<1> QED BY <1>1, <1>2, <1>3, <1>4, <1>5, <1>6, <1>7, <1>8, <1>9, <1>10

LEMMA DisposeJoinKeeps == Inv /\ DisposeJoin => Inv'
<1> SUFFICES ASSUME Inv, DisposeJoin PROVE Inv'
  OBVIOUS
<1> USE DEF Inv, DisposeJoin, bufVars, flagVars, loopVars, srcVars, outVars, seekHist, padVars
<1>1. FlagInv'
  BY Zenon DEF FlagInv
<1>2. TypeInv'
  BY DEF TypeInv, Results
<1>3. PadInv'
  BY DEF PadInv, FlushSteps
<1>4. SourceInv'
  BY BoundaryFacts, RingAssumption DEF SourceInv, Handling
<1>5. IndexInv'
  BY DEF IndexInv, Coming, Waiting
<1>6. SeekInv'
  BY DEF SeekInv, Flushed, InBuffer, Windows, PadInv, FlushSteps
<1>7. RingInv'
  BY DEF RingInv, Flowing
<1>8. OutInv'
  BY DEF OutInv, Flowing, Block
<1>9. AnnounceInv'
  BY DEF AnnounceInv, Flowing, Shut, InBuffer
<1>10. EosInv'
  BY DEF EosInv, SourceInv, Flowing
<1> QED BY <1>1, <1>2, <1>3, <1>4, <1>5, <1>6, <1>7, <1>8, <1>9, <1>10

-----------------------------------------------------------------------------
(***************************************************************************)
(* The steps that change the ring or what has been delivered.              *)
(***************************************************************************)
LEMMA SourceReadKeeps == Inv /\ SourceRead => Inv'
<1> SUFFICES ASSUME Inv, SourceRead PROVE Inv'
  OBVIOUS
<1> USE DEF Inv, SourceRead, Return, bufVars, flagVars, loopVars, padVars, ctlVars, outVars, seekHist
<1>1. FlagInv'
  BY Zenon DEF FlagInv
<1>2. TypeInv'
  BY BoundaryFacts, RingAssumption DEF TypeInv, Results, SourceInv
<1>3. PadInv'
  BY DEF PadInv, FlushSteps
<1>4. SourceInv'
  <2>1. /\ next \in Int /\ left \in Int /\ next >= 1 /\ pending = "UNKNOWN"
        /\ next + left \in Boundaries
    BY BoundaryFacts, RingAssumption DEF TypeInv, SourceInv
  <2>2. left = 0 => next \in Boundaries
    BY <2>1
  <2>3. left # 0 => next' + left' = next + left /\ next' > 1
    BY <2>1
  <2> QED BY <2>1, <2>2, <2>3 DEF SourceInv, Handling
<1>5. IndexInv'
  BY DEF IndexInv, Coming, Waiting, TypeInv, Caches
<1>6. SeekInv'
  BY DEF SeekInv, Flushed, InBuffer, Windows, PadInv, FlushSteps
<1>7. RingInv'
  <2> SUFFICES ASSUME Flowing' PROVE RingInv'
    BY DEF RingInv
  <2>1. Flowing' => Flowing
    BY DEF Flowing
  <2>2. ASSUME NEW K \in 0 .. NumCached, Good(K) PROVE WriteAt(K)'
    BY <2>2, WriteFrame DEF Good, Waiting
  <2>3. Reading' = Reading
    BY DEF Reading
  <2>4. Live' => Live /\ Coming' = Coming /\ Rest' = Rest
    <3>1. CASE spc' = "end"
      <4>1. sinkFlushing
        BY <3>1 DEF Flowing, PadInv, FlushSteps, SeekInv, EosInv, AnnounceInv, SourceInv, Shut
      <4>2. pending' = "UNKNOWN" /\ sres' # "OK"
        BY <3>1 DEF SourceInv
      <4> QED BY <3>1, <4>1, <4>2 DEF Live, Dead
    <3>2. CASE spc' # "end"
      <4>1. next \in Int /\ left \in Int /\ pending = "UNKNOWN"
        BY BoundaryFacts, RingAssumption DEF TypeInv, SourceInv
      <4> QED BY <3>2, <4>1 DEF Live, Dead, Coming, Rest
    <3> QED BY <3>1, <3>2
  <2>5. Stuck => Stuck'
    BY DEF Stuck, BetweenSegments, Shut, InBuffer, SourceInv
  <2> QED BY <2>1, <2>2, <2>3, <2>4, <2>5, RingFrame
<1>8. OutInv'
  BY DEF OutInv, Flowing, Block
<1>9. AnnounceInv'
  BY DEF AnnounceInv, Flowing, Shut, InBuffer, SourceInv
<1>10. EosInv'
  BY DEF EosInv, SourceInv, Flowing
<1> QED BY <1>1, <1>2, <1>3, <1>4, <1>5, <1>6, <1>7, <1>8, <1>9, <1>10

LEMMA SinkEventNewSegmentKeeps == Inv /\ SinkEventNewSegment => Inv'
<1> SUFFICES ASSUME Inv, SinkEventNewSegment PROVE Inv'
  OBVIOUS
<1> USE DEF Inv, SinkEventNewSegment, Return, bufVars, flagVars, loopVars, padVars, ctlVars, outVars, seekHist
<1>1. FlagInv'
  BY Zenon DEF FlagInv
<1>2. TypeInv'
  BY DEF TypeInv, Results
<1>3. PadInv'
  BY DEF PadInv, FlushSteps
<1>4. SourceInv'
  BY BoundaryFacts, RingAssumption DEF SourceInv, Handling
<1>5. IndexInv'
  BY DEF IndexInv, Coming, Waiting
<1>6. SeekInv'
  BY DEF SeekInv, Flushed, InBuffer, Windows, PadInv, FlushSteps
<1>7. RingInv'
  <2> SUFFICES ASSUME Flowing' PROVE RingInv'
    BY DEF RingInv
  <2>1. Flowing' => Flowing
    BY DEF Flowing
  <2>2. ASSUME NEW K \in 0 .. NumCached, Good(K) PROVE WriteAt(K)'
    BY <2>2, WriteFrame DEF Good, Waiting
  <2>3. Reading' = Reading
    BY DEF Reading
  <2>4. Live' => Live /\ Coming' = Coming /\ Rest' = Rest
    <3>1. srcresult = "OK" \/ sinkFlushing
      BY DEF Flowing, SeekInv, EosInv, SourceInv, Handling
    <3>2. CASE sinkFlushing
      BY <3>2 DEF Live, Dead
    <3>3. CASE ~sinkFlushing
      BY <3>1, <3>3 DEF Live, Dead, Coming, Rest
    <3> QED BY <3>2, <3>3
  <2>5. Stuck => Stuck'
    <3>1. srcresult = "OK" \/ sinkFlushing
      BY DEF Flowing, SeekInv, EosInv, SourceInv, Handling
    <3> QED BY <3>1 DEF Stuck, BetweenSegments, Shut, InBuffer
  <2> QED BY <2>1, <2>2, <2>3, <2>4, <2>5, RingFrame
<1>8. OutInv'
  BY DEF OutInv, Flowing, Block
<1>9. AnnounceInv'
  <2>1. Flowing => srcresult = "OK" \/ sinkFlushing
    BY DEF Flowing, SeekInv, EosInv, SourceInv, Handling
  <2> QED BY <2>1 DEF AnnounceInv, Flowing, Shut, InBuffer
<1>10. EosInv'
  BY DEF EosInv, SourceInv, SeekInv, Flowing, Handling
<1> QED BY <1>1, <1>2, <1>3, <1>4, <1>5, <1>6, <1>7, <1>8, <1>9, <1>10

LEMMA SegmentAnnounceKeeps == Inv /\ SegmentAnnounce => Inv'
<1> SUFFICES ASSUME Inv, SegmentAnnounce PROVE Inv'
  OBVIOUS
<1> USE DEF Inv, SegmentAnnounce, bufVars, padVars, ctlVars, seekHist
<1>1. FlagInv'
  BY Zenon DEF FlagInv
<1>2. TypeInv'
  BY DEF TypeInv, Results
<1>3. PadInv'
  BY DEF PadInv, FlushSteps
<1>4. SourceInv'
  BY BoundaryFacts, RingAssumption DEF SourceInv, Handling
<1>5. IndexInv'
  BY DEF IndexInv, Coming, Waiting
<1>6. SeekInv'
  BY DEF SeekInv, Flushed, InBuffer, Windows, PadInv, FlushSteps
<1>7. RingInv'
  <2>1. Flowing' => Flowing
    BY DEF Flowing
  <2>2. ASSUME NEW K \in 0 .. NumCached, Good(K) PROVE WriteAt(K)'
    BY <2>2, WriteFrame DEF Good, Waiting
  <2>3. Reading' = Reading
    BY DEF Reading
  <2>4. Live' => Live /\ Coming' = Coming /\ Rest' = Rest
    BY DEF Live, Dead, Coming, Rest, SourceInv
  <2>5. Stuck => Stuck'
    BY DEF Stuck, BetweenSegments, Shut, InBuffer
  <2> QED BY <2>1, <2>2, <2>3, <2>4, <2>5, RingFrame
<1>8. OutInv'
  BY DEF OutInv, Flowing, Block
<1>9. AnnounceInv'
  BY DEF AnnounceInv, Flowing, PadInv, FlushSteps, SeekInv, Shut, InBuffer
<1>10. EosInv'
  BY DEF EosInv, SourceInv, Handling, Flowing
<1> QED BY <1>1, <1>2, <1>3, <1>4, <1>5, <1>6, <1>7, <1>8, <1>9, <1>10

LEMMA LoopPushKeeps == Inv /\ LoopPush => Inv'
<1> SUFFICES ASSUME Inv, LoopPush PROVE Inv'
  OBVIOUS
<1> USE DEF Inv, LoopPush, bufVars, flagVars, srcVars, padVars, ctlVars, seekHist
<1>1. FlagInv'
  BY Zenon DEF FlagInv
<1>2. TypeInv'
  <2>1. out \o buf \in Seq(Blocks) /\ <<>> \in Seq(Blocks)
    BY ConcatAt DEF TypeInv
  <2>2. out' \in Seq(Blocks) /\ buf' \in Seq(Blocks) /\ lres' \in Results
    BY <2>1 DEF TypeInv, Results
  <2> QED BY <2>2 DEF TypeInv
<1>3. PadInv'
  BY DEF PadInv, FlushSteps
<1>4. SourceInv'
  BY BoundaryFacts, RingAssumption DEF SourceInv, Handling
<1>5. IndexInv'
  BY DEF IndexInv, Coming, Waiting
<1>6. SeekInv'
  BY DEF SeekInv, Flushed, InBuffer, Windows, PadInv, FlushSteps
<1>7. RingInv'
  <2> SUFFICES ASSUME Flowing' PROVE RingInv'
    BY DEF RingInv

  <2>a. out' = out \o buf /\ lpc = "push" /\ lpc' = "pushed"
    BY DEF Flowing, PadInv, FlushSteps
  <2>b. Len(out \o buf) = Len(out) + Len(buf) /\ Len(out) \in Nat /\ Len(buf) \in Nat
    BY ConcatAt DEF TypeInv
  <2>1. Flowing' => Flowing
    BY DEF Flowing
  <2>2. ASSUME NEW K \in 0 .. NumCached, Good(K) PROVE WriteAt(K)'
    BY <2>2, WriteFrame DEF Good, Waiting
  <2>3. Reading' = Reading
    BY <2>a, <2>b DEF Reading, TypeInv
  <2>4. Live' => Live /\ Coming' = Coming /\ Rest' = Rest
    BY DEF Live, Dead, Coming, Rest, SourceInv
  <2>5. Stuck => Stuck'
    BY DEF Stuck, BetweenSegments, Shut, InBuffer
  <2> QED BY <2>1, <2>2, <2>3, <2>4, <2>5, RingFrame
<1>8. OutInv'
  <2> SUFFICES ASSUME Flowing' PROVE OutInv'
    BY DEF OutInv
  <2>1. out' = out \o buf /\ lres' = "OK" /\ Flowing
    BY DEF Flowing, PadInv, FlushSteps
  <2>2. /\ Len(out \o buf) = Len(out) + Len(buf) /\ Len(out) \in Nat /\ Len(buf) \in Nat
        /\ \A i \in 1 .. Len(out) : (out \o buf)[i] = out[i]
        /\ \A i \in 1 .. Len(buf) : (out \o buf)[Len(out) + i] = buf[i]
    BY ConcatAt DEF TypeInv
  <2>3. /\ \A i \in 1 .. Len(out) : out[i] = Block(base + i - 1)
        /\ \A i \in 1 .. Len(buf) : buf[i] = Block(base + Len(out) + i - 1)
    BY <2>1 DEF OutInv
  <2>4. ASSUME NEW i \in 1 .. Len(out') PROVE out'[i] = Block(base + i - 1)
    <3>1. CASE i \in 1 .. Len(out)
      BY <2>1, <2>2, <2>3, <3>1
    <3>2. CASE i \notin 1 .. Len(out)
      <4> DEFINE j == i - Len(out)
      <4>1. j \in 1 .. Len(buf) /\ Len(out) + j = i /\ base + Len(out) + j - 1 = base + i - 1
        BY <2>1, <2>2, <3>2 DEF TypeInv
      <4> HIDE DEF j
      <4> QED BY <2>1, <2>2, <2>3, <4>1
    <3> QED BY <3>1, <3>2
  <2>5. base' = base /\ lpc' = "pushed" /\ \A n : Block(n)' = Block(n)
    BY DEF Block
  <2> QED BY <2>1, <2>4, <2>5 DEF OutInv
<1>9. AnnounceInv'
  BY DEF AnnounceInv, Flowing, Shut, InBuffer
<1>10. EosInv'
  BY DEF EosInv, SourceInv, Flowing
<1> QED BY <1>1, <1>2, <1>3, <1>4, <1>5, <1>6, <1>7, <1>8, <1>9, <1>10

\* The caches after hls_progress_buffer_flush_data.
LEMMA AllRewound ==
  ASSUME TypeInv, FlushData
  PROVE  /\ cache' \in [Ring -> Caches] /\ \A i \in Ring : cache'[i].write_position = 0
         /\ cache_size' \in [Ring -> {0, SegmentSize}]
         /\ cache_write_ready' \in [Ring -> BOOLEAN] /\ \A i \in Ring : cache_write_ready'[i]
         /\ cache_write_index' = -1 /\ cache_write_index' \in -1 .. NumCached - 1
         /\ cache_read_index' = 0 /\ 0 \in Ring
         /\ srcresult' = "WRONG_STATE"
         /\ lpc' = (IF lpc = "wait" THEN "woken" ELSE lpc)
         /\ spc' = (IF spc = "wait" THEN "woken" ELSE spc)
         /\ raced' = (raced \/ spc \in Windows)
<1> DEFINE e(c) == FC!cache_set_read_position(FC!cache_set_write_position(c, 0), 0)
<1>1. \A i \in Ring : e(cache[i]) \in Caches /\ e(cache[i]).write_position = 0
  BY Rewound DEF TypeInv
<1>2. cache' = [i \in Ring |-> e(cache[i])]
  BY DEF FlushData
<1> HIDE DEF e
<1>3. cache' \in [Ring -> Caches] /\ \A i \in Ring : cache'[i].write_position = 0
  BY <1>1, <1>2
<1>4. 0 \in Ring /\ -1 \in -1 .. NumCached - 1
  BY RingAssumption DEF Ring
<1> QED BY <1>3, <1>4 DEF FlushData, SignalAdd, SignalDel

\* The caches after one was given to a segment.
LEMMA OnePrepared ==
  ASSUME TypeInv, NEW i \in Ring, Prepare(i)
  PROVE  /\ cache' \in [Ring -> Caches] /\ cache'[i].write_position = 0
         /\ \A j \in Ring : j # i => cache'[j] = cache[j]
         /\ cache_size' \in [Ring -> {0, SegmentSize}]
         /\ cache_write_ready' \in [Ring -> BOOLEAN] /\ ~cache_write_ready'[i]
         /\ \A j \in Ring : j # i => cache_write_ready'[j] = cache_write_ready[j]
         /\ pending' = "UNKNOWN" /\ spc' = "end" /\ sres' = "OK"
<1> DEFINE e == FC!cache_set_read_position(FC!cache_set_write_position(cache[i], 0), 0)
<1>1. e \in Caches /\ e.write_position = 0
  BY Rewound DEF TypeInv
<1>2. cache' = [cache EXCEPT ![i] = e]
  BY DEF Prepare
<1> HIDE DEF e
<1> QED BY <1>1, <1>2 DEF TypeInv, Prepare, Return

LEMMA SeekFlushDataKeeps == Inv /\ SeekFlushData => Inv'
<1> SUFFICES ASSUME Inv, SeekFlushData PROVE Inv'
  OBVIOUS
<1> USE DEF Inv, SeekFlushData, padVars, seekHist
<1>a. TypeInv /\ FlushData
  OBVIOUS
<1> USE <1>a, AllRewound
<1>1. FlagInv'
  BY Zenon DEF FlagInv
<1>2. TypeInv'
  BY DEF TypeInv, Results
<1>3. PadInv'
  BY DEF PadInv, FlushSteps
<1>4. SourceInv'
  BY BoundaryFacts, RingAssumption DEF SourceInv, Handling
<1>5. IndexInv'
  <2>1. Coming \in Nat /\ Coming > 0 /\ Coming' = Coming
    BY BoundaryFacts DEF TypeInv, SourceInv, Coming
  <2> QED BY <2>1 DEF IndexInv
<1>6. SeekInv'
  BY DEF SeekInv, Flushed, InBuffer, Windows, PadInv, FlushSteps
<1>7. RingInv'
  BY DEF RingInv, Flowing
<1>8. OutInv'
  BY DEF OutInv, Flowing, Block
<1>9. AnnounceInv'
  BY DEF AnnounceInv, Flowing, Shut, InBuffer
<1>10. EosInv'
  BY DEF EosInv, SourceInv, Flowing
<1> QED BY <1>1, <1>2, <1>3, <1>4, <1>5, <1>6, <1>7, <1>8, <1>9, <1>10

LEMMA DisposeFlushKeeps == Inv /\ DisposeFlush => Inv'
<1> SUFFICES ASSUME Inv, DisposeFlush PROVE Inv'
  OBVIOUS
<1> USE DEF Inv, DisposeFlush, seekHist
<1>a. TypeInv /\ FlushData
  OBVIOUS
<1> USE <1>a, AllRewound
<1>1. FlagInv'
  BY Zenon DEF FlagInv
<1>2. TypeInv'
  BY DEF TypeInv, Results
<1>3. PadInv'
  BY DEF PadInv, FlushSteps
<1>4. SourceInv'
  BY BoundaryFacts, RingAssumption DEF SourceInv, Handling
<1>5. IndexInv'
  <2>1. Coming \in Nat /\ Coming > 0 /\ Coming' = Coming
    BY BoundaryFacts DEF TypeInv, SourceInv, Coming
  <2> QED BY <2>1 DEF IndexInv
<1>6. SeekInv'
  BY DEF SeekInv, Flushed, InBuffer, Windows, PadInv, FlushSteps
<1>7. RingInv'
  BY DEF RingInv, Flowing
<1>8. OutInv'
  BY DEF OutInv, Flowing, Block
<1>9. AnnounceInv'
  BY DEF AnnounceInv, Flowing, Shut, InBuffer
<1>10. EosInv'
  BY DEF EosInv, SourceInv, Flowing
<1> QED BY <1>1, <1>2, <1>3, <1>4, <1>5, <1>6, <1>7, <1>8, <1>9, <1>10

LEMMA SeekStopFlushKeeps == Inv /\ SeekStopFlush => Inv'
<1> SUFFICES ASSUME Inv, SeekStopFlush PROVE Inv'
  OBVIOUS
<1> USE DEF Inv, SeekStopFlush, bufVars, flagVars, loopVars, srcVars, seekHist
<1>1. FlagInv'
  BY Zenon DEF FlagInv
<1>2. TypeInv'
  <2>1. out' \in Seq(Blocks)
    OBVIOUS
  <2> QED BY <2>1 DEF TypeInv, Results
<1>3. PadInv'
  BY DEF PadInv, FlushSteps
<1>4. SourceInv'
  BY BoundaryFacts, RingAssumption DEF SourceInv, Handling
<1>5. IndexInv'
  BY DEF IndexInv, Coming, Waiting
<1>6. SeekInv'
  BY DEF SeekInv, Flushed, InBuffer, Windows, PadInv, FlushSteps
<1>7. RingInv'
  <2> SUFFICES ASSUME Flowing' PROVE RingInv'
    BY DEF RingInv
  <2>1. /\ \A i \in Ring : cache[i].write_position = 0
        /\ cache_read_index = 0 /\ spc = "idle" /\ next = base /\ left = 0
        /\ lpc # "push"
        /\ \/ cache_write_index = -1 /\ \A i \in Ring : cache_write_ready[i]
           \/ cache_write_index = 0 /\ ~cache_write_ready[0] /\ raced
    BY DEF SeekInv, Flushed, Flowing
  <2>2. 0 \in Ring /\ NumCached \in Nat /\ NumCached >= 1
    BY RingAssumption DEF Ring
  <2>3. CASE cache_write_index = 0 /\ ~cache_write_ready[0] /\ raced
    <3>1. Stuck'
      BY <2>1, <2>2, <2>3 DEF Stuck, BetweenSegments, TypeInv
    <3> QED BY <3>1 DEF RingInv
  <2>4. CASE cache_write_index = -1 /\ \A i \in Ring : cache_write_ready[i]
    <3>1. \A d \in 0 .. NumCached - 1 : SlotAt(d)' \in Ring
      BY <2>1, <2>2 DEF SlotAt, Ring
    <3>2. \A i \in Ring : cache[i].read_position = cache[i].write_position
      BY <2>1 DEF TypeInv, Caches
    <3>3. Shape(0)'
      BY <2>4, <3>1, <3>2 DEF Shape
    <3>4. (cache_write_index + 1) % NumCached = 0
      BY <2>2, <2>4, NextIndex
    <3>5. SlotAt(0)' = 0
      BY <2>1, <2>2 DEF SlotAt
    <3>6. WriteAt(0)'
      BY <2>1, <3>4, <3>5 DEF WriteAt, Waiting
    <3>7. Reading' = base /\ Coming' = base /\ Rest' = 0
      BY <2>1, BoundaryFacts DEF Reading, Coming, Rest, TypeInv
    <3>8. Good(0)' /\ 0 \in 0 .. NumCached
      BY <2>2, <3>3, <3>6, <3>7 DEF Good, Ends
    <3> QED BY <3>8 DEF RingInv
  <2> QED BY <2>1, <2>3, <2>4
<1>8. OutInv'
  BY DEF OutInv, SeekInv
<1>9. AnnounceInv'
  BY DEF AnnounceInv, SeekInv, Flushed, Flowing, TypeInv
<1>10. EosInv'
  BY DEF EosInv, SeekInv, TypeInv
<1> QED BY <1>1, <1>2, <1>3, <1>4, <1>5, <1>6, <1>7, <1>8, <1>9, <1>10

\* Outside of the ring: nothing is claimed any more of what flows.
LEMMA OffRingKeeps ==
  ASSUME Inv, hls_progress_buffer_chain, cache_write_index = -1
  PROVE  Inv'
<1>a. /\ spc = "chain" /\ wild' /\ wild' \in BOOLEAN /\ cache' = cache
      /\ \/ /\ spc' = "end" /\ sres' = "OK" /\ lpc' = (IF lpc = "wait" THEN "woken" ELSE lpc)
         \/ spc' = "crashed" /\ sres' = sres /\ lpc' = lpc
      /\ UNCHANGED <<cache_size, cache_write_ready, cache_write_index, cache_read_index,
                     flagVars, loopTask, buf, lres, pending, jsresult, jsTask, next, left,
                     padVars, ctlVars, newSegmentOut, out, eosOut, base, raced, torn, stranded>>
  BY DEF hls_progress_buffer_chain, Return, SignalAdd
<1> USE <1>a DEF Inv, flagVars, padVars, ctlVars
<1>1. FlagInv'
  BY Zenon DEF FlagInv
<1>2. TypeInv'
  BY DEF TypeInv, Results
<1>3. PadInv'
  BY DEF PadInv, FlushSteps
<1>4. SourceInv'
  BY DEF SourceInv, Handling
<1>5. IndexInv'
  <2>1. \A i \in Ring : cache[i].write_position < next
    <3> TAKE i \in Ring
    <3> QED BY BoundaryFacts DEF IndexInv, TypeInv, Caches, Coming
  <2> QED BY <2>1 DEF IndexInv, Coming, Waiting
<1>6. SeekInv'
  BY DEF SeekInv, Flushed, InBuffer, Windows
<1>7. RingInv' /\ OutInv' /\ AnnounceInv' /\ EosInv'
  BY DEF RingInv, OutInv, AnnounceInv, EosInv, Flowing
<1> QED BY <1>1, <1>2, <1>3, <1>4, <1>5, <1>6, <1>7

LEMMA hls_progress_buffer_chainKeeps == Inv /\ hls_progress_buffer_chain => Inv'
<1> SUFFICES ASSUME Inv, hls_progress_buffer_chain, cache_write_index # -1 PROVE Inv'
  BY OffRingKeeps
<1> DEFINE w == cache_write_index
           b == Block(next - 1)
<1>a. /\ spc = "chain" /\ spc' = "end" /\ sres' = "OK"
      /\ lpc' = (IF lpc = "wait" THEN "woken" ELSE lpc)
      /\ UNCHANGED <<cache_size, cache_write_ready, cache_write_index, cache_read_index,
                     flagVars, loopTask, buf, lres, pending, jsresult, jsTask, next, left,
                     padVars, ctlVars, outVars>>
  BY DEF hls_progress_buffer_chain, Return, SignalAdd, outVars, seekHist
<1>b. w # -1 /\ cache' = [cache EXCEPT ![w] = FC!cache_write_buffer(@, b)]
  BY DEF hls_progress_buffer_chain
<1>c. w \in Ring
  BY RingAssumption DEF Inv, TypeInv, Ring
<1>d. b \in Blocks
  BY BoundaryFacts, RingAssumption DEF Inv, TypeInv, SourceInv, Block, Blocks
<1> HIDE DEF b
<1>e. /\ cache' \in [Ring -> Caches]
      /\ \A j \in Ring : j # w => cache'[j] = cache[j]
      /\ cache'[w].write_position = cache[w].write_position + 1
  <2> DEFINE e == FC!cache_write_buffer(cache[w], b)
  <2>1. w \in Ring /\ cache[w] \in Caches
    BY <1>c DEF Inv, TypeInv
  <2>2. e \in Caches /\ e.write_position = cache[w].write_position + 1
    BY <1>d, <2>1, Written
  <2>3. cache' = [cache EXCEPT ![w] = e]
    BY <1>b
  <2> HIDE DEF e
  <2> QED BY <2>1, <2>2, <2>3 DEF Inv, TypeInv
<1> USE <1>a DEF Inv, flagVars, padVars, ctlVars, outVars, seekHist
<1>1. FlagInv'
  BY Zenon DEF FlagInv
<1>2. TypeInv'
  BY <1>e DEF TypeInv, Results
<1>3. PadInv'
  BY DEF PadInv, FlushSteps
<1>4. SourceInv'
  BY DEF SourceInv, Handling
<1>5. IndexInv'
  <2>1. \A i \in Ring : cache'[i].write_position < next
    <3> TAKE i \in Ring
    <3>1. cache[i].write_position \in Nat /\ cache[i].write_position < next - 1 /\ next \in Int
      BY BoundaryFacts DEF IndexInv, TypeInv, Caches, Coming
    <3>2. CASE i = w
      BY <1>c, <1>e, <3>1, <3>2, RingAssumption DEF Ring
    <3>3. CASE i # w
      BY <1>e, <3>1, <3>3
    <3> QED BY <3>2, <3>3
  <2> QED BY <2>1 DEF IndexInv, Coming, Waiting
<1>6. SeekInv'
  <2>1. kpc \notin Flushed
    BY <1>b DEF SeekInv, InBuffer
  <2> QED BY <2>1 DEF SeekInv, Flushed, InBuffer, Windows
<1>7. RingInv'
  <2> SUFFICES ASSUME Flowing' PROVE Stuck' \/ \E K \in 0 .. NumCached : Good(K)'
    BY DEF RingInv
  <2>1. CASE Stuck
    <3>1. w # 0 /\ 0 \in Ring
      BY <2>1, RingAssumption DEF Stuck, BetweenSegments, SourceInv, Shut, InBuffer, Ring
    <3>2. cache'[0] = cache[0]
      BY <1>e, <3>1
    <3> QED BY <2>1, <3>1, <3>2 DEF Stuck, BetweenSegments
  <2>2. CASE ~Stuck
    <3>1. PICK K \in 0 .. NumCached : Good(K)
      BY <2>2 DEF RingInv, Flowing
    <3>2. Live /\ Rest \in Nat /\ Rest >= 1
      BY RingAssumption DEF Live, Dead, Rest, TypeInv, SourceInv
    <3>3. K # 0
      BY <3>1, <3>2 DEF Good, Ends
    <3>4. K \in 1 .. NumCached /\ K > 0 /\ NumCached \in Nat /\ NumCached >= 1
      BY <3>3, SlotFacts
    <3>5. w \in Ring /\ (w + 1) % NumCached = SlotAt(K)
      BY <3>1, <3>4 DEF Good, WriteAt, Waiting
    <3>6. w = SlotAt(K - 1)
      <4>1. (w + 1) % NumCached = IF w + 1 = NumCached THEN 0 ELSE w + 1
        BY <3>5, NextIndex, RingAssumption DEF Ring
      <4>2. (IF w + 1 = NumCached THEN 0 ELSE w + 1) = SlotAt(K) /\ cache_read_index \in Ring
        BY <3>5, <4>1 DEF TypeInv
      <4>3. w \in Ring
        BY <3>5
      <4> HIDE <1>a
      <4> QED BY <3>4, <4>2, <4>3 DEF SlotAt, Ring
    <3>7. Reading' = Reading
      BY DEF Reading
    <3>8. cache' = [cache EXCEPT ![w] = FC!cache_write_buffer(@, Block(next - 1))]
      BY <1>b, <3>5, RingAssumption DEF b, Ring
    <3>9. Good(K)'
      BY <3>1, <3>2, <3>4, <3>5, <3>6, <3>7, <3>8, RingWrite DEF Waiting
    <3> QED BY <3>9
  <2> QED BY <2>1, <2>2
<1>8. OutInv'
  BY DEF OutInv, Flowing, Block
<1>9. AnnounceInv'
  BY DEF AnnounceInv, SourceInv, Flowing, Shut, InBuffer
<1>10. EosInv'
  BY DEF EosInv, SourceInv, Flowing
<1> QED BY <1>1, <1>2, <1>3, <1>4, <1>5, <1>6, <1>7, <1>8, <1>9, <1>10

\* While the NEWSEGMENT handler looks for a cache the buffer flows.
LEMMA HandlerFlows ==
  ASSUME Inv, Flowing, spc \in {"seg2", "woken"}
  PROVE  /\ srcresult = "OK" /\ newSegmentOut /\ ~eosOut /\ Live /\ ~is_eos
         /\ kpc # "start"
BY DEF Inv, Flowing, SeekInv, EosInv, SourceInv, AnnounceInv, Handling, Shut, InBuffer, Live, Dead

\* The handler takes the cache behind the last one in use.
LEMMA CacheTaken ==
  ASSUME Inv, spc \in {"seg2", "woken"},
         NEW i \in Ring, cache_write_index' = i, Prepare(i),
         srcresult = "OK" => cache_write_ready[i],
         kpc \in Flushed => i = 0 /\ raced,
         \A K \in 0 .. NumCached : Good(K) => i = SlotAt(K),
         UNCHANGED <<cache_read_index, flagVars, loopVars, jsresult, jsTask, next, left, padVars,
                     ctlVars, outVars>>
  PROVE  Inv'
<1>a. /\ cache' \in [Ring -> Caches] /\ cache'[i].write_position = 0
      /\ \A j \in Ring : j # i => cache'[j] = cache[j]
      /\ cache_size' \in [Ring -> {0, SegmentSize}]
      /\ cache_write_ready' \in [Ring -> BOOLEAN] /\ ~cache_write_ready'[i]
      /\ \A j \in Ring : j # i => cache_write_ready'[j] = cache_write_ready[j]
      /\ pending' = "UNKNOWN" /\ spc' = "end" /\ sres' = "OK"
  BY OnePrepared DEF Inv
<1>b. pending = "NEWSEGMENT" /\ left = SegmentSize /\ next <= Total /\ next \in Boundaries
  BY DEF Inv, SourceInv, Handling
<1> USE <1>a DEF Inv, flagVars, loopVars, padVars, ctlVars, outVars, seekHist
<1>1. FlagInv'
  BY Zenon DEF FlagInv
<1>2. TypeInv'
  <2>1. i \in -1 .. NumCached - 1
    BY RingAssumption DEF Ring
  <2> QED BY <2>1 DEF TypeInv, Results
<1>3. PadInv'
  BY DEF PadInv, FlushSteps
<1>4. SourceInv'
  <2>1. next + left \in Boundaries
    BY <1>b, BoundaryFacts
  <2> QED BY <2>1 DEF SourceInv, Handling
<1>5. IndexInv'
  <2>1. next \in Int /\ next >= 1
    BY BoundaryFacts DEF TypeInv
  <2>2. \A j \in Ring : cache[j].write_position < next
    BY DEF IndexInv, Coming
  <2>3. \A j \in Ring : cache'[j].write_position < next
    BY <2>1, <2>2
  <2> QED BY <2>3 DEF IndexInv, Coming, Waiting
<1>6. SeekInv'
  BY DEF SeekInv, Flushed, InBuffer, Windows
<1>7. RingInv'
  <2> SUFFICES ASSUME Flowing' PROVE Stuck' \/ \E K \in 0 .. NumCached : Good(K)'
    BY DEF RingInv
  <2>1. Flowing
    BY DEF Flowing
  <2>2. srcresult = "OK" /\ Live
    BY <2>1, HandlerFlows
  <2>3. cache_write_ready[i]
    BY <2>2
  <2>4. CASE Stuck
    <3>1. i # 0 /\ 0 \in Ring
      BY <2>3, <2>4, RingAssumption DEF Stuck, BetweenSegments, Ring
    <3> QED BY <2>4, <3>1 DEF Stuck, BetweenSegments
  <2>5. CASE ~Stuck
    <3>1. PICK K \in 0 .. NumCached : Good(K)
      BY <2>1, <2>5 DEF RingInv
    <3>2. i = SlotAt(K) /\ NumCached \in Nat /\ NumCached >= 1
      BY <3>1, SlotFacts
    <3>3. K # NumCached
      <4>1. ~(0 >= NumCached) /\ 0 \in 0 .. NumCached - 1
        BY <3>2
      <4> QED BY <2>3, <3>1, <3>2, <4>1, SlotFacts DEF Good, Shape
    <3>4. K \in 0 .. NumCached - 1 /\ K + 1 \in 0 .. NumCached
      BY <3>2, <3>3
    <3>5. Reading' = Reading
      BY DEF Reading
    <3>6. Good(K + 1)'
      BY <1>b, <2>2, <3>1, <3>2, <3>4, <3>5, RingPrepare
    <3> QED BY <3>4, <3>6
  <2> QED BY <2>4, <2>5
<1>8. OutInv'
  BY DEF OutInv, Flowing, Block
<1>9. AnnounceInv'
  BY HandlerFlows DEF AnnounceInv, Flowing
<1>10. EosInv'
  BY HandlerFlows DEF EosInv, Flowing
<1> QED BY <1>1, <1>2, <1>3, <1>4, <1>5, <1>6, <1>7, <1>8, <1>9, <1>10

\* The handler finds that cache in use.
LEMMA CacheInUse ==
  ASSUME Inv, spc \in {"seg2", "woken"}, spc' = "full",
         NEW i \in Ring, cache_write_index' = i, kpc \notin Flushed,
         \A K \in 0 .. NumCached : Good(K) => i = SlotAt(K),
         UNCHANGED <<cache, cache_size, cache_write_ready, pending, sres,
                     cache_read_index, flagVars, loopVars, jsresult, jsTask, next, left, padVars,
                     ctlVars, outVars>>
  PROVE  Inv'
<1>a. pending = "NEWSEGMENT"
  BY DEF Inv, SourceInv, Handling
<1> USE DEF Inv, flagVars, loopVars, padVars, ctlVars, outVars, seekHist
<1>1. FlagInv'
  BY Zenon DEF FlagInv
<1>2. TypeInv'
  <2>1. i \in -1 .. NumCached - 1
    BY RingAssumption DEF Ring
  <2> QED BY <2>1 DEF TypeInv, Results
<1>3. PadInv'
  BY DEF PadInv, FlushSteps
<1>4. SourceInv'
  BY DEF SourceInv, Handling
<1>5. IndexInv'
  <2>1. i # -1
    BY RingAssumption DEF Ring
  <2> QED BY <2>1 DEF IndexInv, Coming
<1>6. SeekInv'
  BY DEF SeekInv, Flushed
<1>7. RingInv'
  <2>1. Flowing' => Flowing
    BY DEF Flowing
  <2>2. ASSUME NEW K \in 0 .. NumCached, Good(K) PROVE WriteAt(K)'
    <3>1. SlotAt(K)' = SlotAt(K) /\ i = SlotAt(K)
      BY <2>2 DEF SlotAt
    <3> QED BY <3>1 DEF WriteAt, Waiting
  <2>3. Reading' = Reading
    BY DEF Reading
  <2>4. Live' => Live /\ Coming' = Coming /\ Rest' = Rest
    BY DEF Live, Dead, Coming, Rest
  <2>5. Stuck => Stuck'
    BY <1>a DEF Stuck, BetweenSegments
  <2> QED BY <2>1, <2>2, <2>3, <2>4, <2>5, RingFrame
<1>8. OutInv'
  BY DEF OutInv, Flowing, Block
<1>9. AnnounceInv'
  BY HandlerFlows DEF AnnounceInv, Flowing
<1>10. EosInv'
  BY HandlerFlows DEF EosInv, Flowing
<1> QED BY <1>1, <1>2, <1>3, <1>4, <1>5, <1>6, <1>7, <1>8, <1>9, <1>10

LEMMA SegmentNextKeeps == Inv /\ SegmentNext => Inv'
<1> SUFFICES ASSUME Inv, SegmentNext PROVE Inv'
  OBVIOUS
<1> DEFINE i == (cache_write_index + 1) % NumCached
<1>1. i \in Ring /\ (cache_write_index = -1 => i = 0)
  <2>1. cache_write_index \in -1 .. NumCached - 1 /\ NumCached \in Nat /\ NumCached >= 1
    BY RingAssumption DEF Inv, TypeInv
  <2>2. i = IF cache_write_index + 1 = NumCached THEN 0 ELSE cache_write_index + 1
    BY <2>1, NextIndex
  <2> HIDE DEF i
  <2> QED BY <2>1, <2>2 DEF Ring
<1>2. /\ spc = "seg2" /\ cache_write_index' = i
      /\ \/ /\ srcresult = "OK" /\ ~cache_write_ready[i]
            /\ spc' = "full" /\ UNCHANGED <<cache_size, cache_write_ready, cache, pending, sres>>
         \/ /\ srcresult = "OK" => cache_write_ready[i]
            /\ Prepare(i)
      /\ UNCHANGED <<cache_read_index, flagVars, loopVars, jsresult, jsTask, next, left, padVars,
                     ctlVars, outVars>>
  BY DEF SegmentNext
<1>3. ASSUME NEW K \in 0 .. NumCached, Good(K) PROVE i = SlotAt(K)
  BY <1>2, <1>3 DEF Good, WriteAt, Waiting
<1> HIDE DEF i
<1>4. kpc \in Flushed => i = 0 /\ raced /\ cache_write_ready[0]
  BY <1>1, <1>2 DEF Inv, SeekInv, InBuffer, Windows
<1>5. CASE Prepare(i) /\ (srcresult = "OK" => cache_write_ready[i])
  BY <1>1, <1>2, <1>3, <1>4, <1>5, CacheTaken
<1>6. CASE /\ ~cache_write_ready[i] /\ spc' = "full"
           /\ UNCHANGED <<cache_size, cache_write_ready, cache, pending, sres>>
  <2>1. kpc \notin Flushed
    BY <1>4, <1>6
  <2> QED BY <1>1, <1>2, <1>3, <1>6, <2>1, CacheInUse
<1> QED BY <1>2, <1>5, <1>6

LEMMA SegmentWokenKeeps == Inv /\ SegmentWoken => Inv'
<1> SUFFICES ASSUME Inv, SegmentWoken PROVE Inv'
  OBVIOUS
<1> DEFINE i == cache_write_index
<1>1. srcresult = "OK" => i \in Ring /\ kpc \notin Flushed
  <2>1. srcresult = "OK" => i # -1
    BY DEF Inv, IndexInv, Waiting, SegmentWoken
  <2>2. kpc \in Flushed => i = -1
    BY DEF Inv, SeekInv, InBuffer, SegmentWoken
  <2> QED BY <2>1, <2>2, RingAssumption DEF Inv, TypeInv, Ring
<1>2. /\ spc = "woken" /\ cache_write_index' = i
      /\ UNCHANGED <<cache_read_index, flagVars, loopVars, jsresult, jsTask, next, left, padVars,
                     ctlVars, outVars>>
  BY DEF SegmentWoken
<1>3. ASSUME NEW K \in 0 .. NumCached, Good(K) PROVE i = SlotAt(K)
  BY <1>2, <1>3 DEF Good, WriteAt, Waiting
<1>4. CASE srcresult = "OK" /\ cache_write_ready[i]
  <2>1. Prepare(i)
    BY <1>4 DEF SegmentWoken
  <2> QED BY <1>1, <1>2, <1>3, <1>4, <2>1, CacheTaken
<1>5. CASE srcresult = "OK" /\ ~cache_write_ready[i]
  <2>1. spc' = "full" /\ UNCHANGED <<cache_size, cache_write_ready, cache, pending, sres>>
    BY <1>5 DEF SegmentWoken
  <2> QED BY <1>1, <1>2, <1>3, <1>5, <2>1, CacheInUse
\* The segment is dropped: the flush that is due empties the ring.
<1>6. CASE srcresult # "OK"
  <2>a. /\ pending' = "UNKNOWN" /\ spc' = "end" /\ sres' = "OK"
        /\ UNCHANGED <<cache_size, cache_write_ready, cache>>
    BY <1>6 DEF SegmentWoken, Return
  <2>b. ~Flowing /\ Flowing' = Flowing
    BY <1>2, <1>6, HandlerFlows DEF Flowing, ctlVars, outVars, seekHist
  <2> USE <1>2, <2>a, <2>b DEF Inv, flagVars, loopVars, padVars, ctlVars, outVars, seekHist
  <2>1. FlagInv' /\ PadInv'
    <3>1. FlagInv'
      BY Zenon DEF FlagInv
    <3> QED BY <3>1 DEF PadInv, FlushSteps
  <2>2. TypeInv'
    BY DEF TypeInv, Results
  <2>3. SourceInv'
    BY BoundaryFacts DEF SourceInv, Handling
  <2>4. IndexInv' /\ SeekInv'
    BY DEF IndexInv, Coming, Waiting, SeekInv, Flushed, InBuffer, Windows
  <2>5. RingInv' /\ OutInv' /\ AnnounceInv' /\ EosInv'
    BY DEF RingInv, OutInv, AnnounceInv, EosInv
  <2> QED BY <2>1, <2>2, <2>3, <2>4, <2>5
<1> QED BY <1>4, <1>5, <1>6

\* At the end of the playlist, what the task finds without data is the end of the ring.
LEMMA RingDrained ==
  ASSUME TypeInv, NEW K \in 0 .. NumCached, Good(K), pending = "EOS", spc # "chain",
         ~FC!cache_has_enough_data(cache[cache_read_index])
  PROVE  \A i \in Ring : cache_write_ready[i]
<1>1. Live /\ Rest = 0 /\ NumCached \in Nat /\ NumCached >= 1 /\ K \in Nat
  BY SlotFacts DEF Live, Dead, Rest
<1> DEFINE c == cache[cache_read_index]
<1>2. c.read_position \in Nat /\ c.write_position \in Nat /\ c.write_position <= c.read_position
  BY DEF TypeInv, Caches, FC!cache_has_enough_data
<1>3. K = 0
  <2> SUFFICES ASSUME K # 0 PROVE FALSE
    OBVIOUS
  <2>1. 0 \in 0 .. K - 1 /\ K > 0 /\ SlotAt(0) = cache_read_index
    BY <1>1, SlotFacts
  <2>2. Holds(0, K)
    BY <2>1 DEF Good
  <2>3. c.write_position = SegmentSize
    <3>1. CASE K = 1
      <4>1. K - 1 = 0
        BY <3>1
      <4>2. c.write_position + 0 = SegmentSize
        BY <1>1, <2>1, <4>1 DEF Good, Ends
      <4> QED BY <1>2, <4>2
    <3>2. CASE K # 1
      <4>1. 0 < K - 1
        BY <1>1, <2>1, <3>2
      <4> QED BY <2>1, <2>2, <4>1 DEF Holds
    <3> QED BY <3>1, <3>2
  <2>4. c.read_position < SegmentSize
    BY <2>1, <2>2 DEF Holds
  <2> QED BY <1>2, <2>3, <2>4
<1>4. \A d \in 0 .. NumCached - 1 : cache_write_ready[SlotAt(d)]
  BY <1>3 DEF Good, Shape
<1> QED BY <1>4, SlotFacts

\* The task finds no data, or that the buffer does not flow.
LEMMA NothingTaken ==
  ASSUME Inv, (lpc = "idle" /\ loopTask = "started") \/ lpc = "woken",
         lpc' \in {"wait", "end"},
         UNCHANGED <<bufVars, buf, spc, raced, send_new_segment, is_flushing, is_eos, loopTask,
                     pending, jsresult, jsTask, sres, next, left, padVars, ctlVars,
                     newSegmentOut, out, base, seekHist>>,
         \/ UNCHANGED <<srcresult, eosOut>> /\ lres' \in {lres, srcresult}
         \/ /\ srcresult = "OK" /\ is_eos
            /\ ~FC!cache_has_enough_data(cache[cache_read_index])
            /\ srcresult' = "WRONG_STATE" /\ lres' = "WRONG_STATE"
            /\ eosOut' = (eosOut \/ ~srcFlushing)
  PROVE  Inv'
<1> USE DEF Inv, bufVars, padVars, ctlVars, seekHist
<1>1. FlagInv'
  BY Zenon DEF FlagInv
<1>2. TypeInv'
  BY DEF TypeInv, Results
<1>3. PadInv'
  BY DEF PadInv, FlushSteps
<1>4. SourceInv'
  BY DEF SourceInv, Handling
<1>5. IndexInv'
  BY DEF IndexInv, Coming, Waiting
<1>6. SeekInv'
  BY DEF SeekInv, Flushed, InBuffer, Windows, PadInv, FlushSteps
<1>7. RingInv'
  <2>1. Flowing' => Flowing
    BY DEF Flowing
  <2>2. ASSUME NEW K \in 0 .. NumCached, Good(K) PROVE WriteAt(K)'
    BY <2>2, WriteFrame DEF Good, Waiting
  <2>3. Reading' = Reading
    BY DEF Reading
  <2>4. Live' => Live /\ Coming' = Coming /\ Rest' = Rest
    BY DEF Live, Dead, Coming, Rest
  <2>5. Stuck => Stuck'
    BY DEF Stuck, BetweenSegments, Shut, InBuffer
  <2> QED BY <2>1, <2>2, <2>3, <2>4, <2>5, RingFrame
<1>8. OutInv'
  BY DEF OutInv, Flowing, Block
<1>9. AnnounceInv'
  BY DEF AnnounceInv, Flowing, Shut, InBuffer
<1>10. EosInv'
  <2> SUFFICES ASSUME Flowing' PROVE EosInv'
    BY DEF EosInv
  <2>1. Flowing /\ (is_eos => pending = "EOS" /\ spc # "chain")
    BY DEF EosInv, Flowing, SourceInv
  <2>2. CASE UNCHANGED <<srcresult, eosOut>>
    BY <2>1, <2>2 DEF EosInv
  <2>3. CASE /\ srcresult = "OK" /\ is_eos
             /\ ~FC!cache_has_enough_data(cache[cache_read_index])
    <3>1. raced \/ \A i \in Ring : cache_write_ready[i]
      <4>1. CASE Stuck
        BY <4>1 DEF Stuck, BetweenSegments
      <4>2. CASE ~Stuck
        <5>1. PICK K \in 0 .. NumCached : Good(K)
          BY <2>1, <4>2 DEF RingInv
        <5> QED BY <2>1, <2>3, <5>1, RingDrained
      <4> QED BY <4>1, <4>2
    <3> QED BY <2>1, <2>3, <3>1 DEF EosInv
  <2> QED BY <2>2, <2>3
<1> QED BY <1>1, <1>2, <1>3, <1>4, <1>5, <1>6, <1>7, <1>8, <1>9, <1>10

LEMMA LoopTakeKeeps == Inv /\ LoopTake => Inv'
<1> SUFFICES ASSUME Inv, LoopTake PROVE Inv'
  OBVIOUS
<1> DEFINE r == cache_read_index
           c == cache[r]
           e == FC!cache_read_buffer(c)
           data == FC!cache_has_enough_data(c)
<1>a. /\ (lpc = "idle" /\ loopTask = "started") \/ lpc = "woken"
      /\ UNCHANGED <<send_new_segment, is_flushing, is_eos, loopTask, pending, jsresult, jsTask,
                     sres, next, left, padVars, ctlVars, newSegmentOut, out, base, seekHist>>
  BY DEF LoopTake
<1>b. CASE srcresult = "OK" /\ data
  <2>a. /\ lpc' = "push" /\ buf' = FC!ReadBlocks(c) /\ cache' = [cache EXCEPT ![r] = e]
        /\ UNCHANGED <<cache_size, cache_write_index, srcresult, lres, eosOut>>
        /\ IF e.read_position = cache_size[r] THEN GiveBack(r)
           ELSE UNCHANGED <<cache_write_ready, cache_read_index, raced, spc>>
    BY <1>b DEF LoopTake
  <2>b. /\ r \in Ring /\ c \in Caches /\ c.read_position < c.write_position
    BY <1>b DEF Inv, TypeInv, FC!cache_has_enough_data
  <2>c. /\ FC!ReadBlocks(c) \in Seq(Blocks) /\ e \in Caches /\ e.write_position = c.write_position
    BY <2>b, ReadOut
  <2>d. c.write_position # 0
    BY <2>b DEF Caches
  <2> HIDE DEF e, c
  <2>e. /\ cache' \in [Ring -> Caches] /\ buf' \in Seq(Blocks)
        /\ \A i \in Ring : cache'[i].write_position = cache[i].write_position
    BY <2>a, <2>b, <2>c DEF Inv, TypeInv, c
  <2>f. /\ raced => raced'
        /\ \/ spc' = spc
           \/ spc = "wait" /\ spc' = "woken"
    BY <2>a DEF GiveBack, SignalDel
  <2>g. kpc \notin Flushed /\ (Flowing => newSegmentOut)
    BY <2>b, <2>d DEF Inv, SeekInv, AnnounceInv, c
  <2>1. FlagInv'
    <3>1. raced' \in BOOLEAN
      BY <2>a DEF GiveBack, Inv, FlagInv
    <3> QED BY Zenon, <1>a, <2>a, <3>1 DEF Inv, FlagInv, padVars, seekHist
  <2>2. TypeInv'
    <3>1. cache_write_ready' \in [Ring -> BOOLEAN] /\ cache_read_index' \in Ring
      <4>1. CASE e.read_position = cache_size[r]
        <5>1. (r + 1) % NumCached \in Ring
          <6>1. r \in -1 .. NumCached - 1 /\ NumCached \in Nat /\ NumCached >= 1
            BY <2>b, RingAssumption DEF Ring
          <6>2. (r + 1) % NumCached = IF r + 1 = NumCached THEN 0 ELSE r + 1
            BY <6>1, NextIndex
          <6> QED BY <2>b, <6>1, <6>2 DEF Ring
        <5> QED BY <2>a, <4>1, <5>1 DEF Inv, TypeInv, GiveBack
      <4>2. CASE e.read_position # cache_size[r]
        BY <2>a, <4>2 DEF Inv, TypeInv
      <4> QED BY <4>1, <4>2
    <3> QED BY <1>a, <2>a, <2>e, <2>f, <3>1 DEF Inv, TypeInv, ctlVars
  <2>3. PadInv'
    BY <1>a DEF Inv, PadInv, padVars, ctlVars
  <2>4. SourceInv'
    BY <1>a, <2>f DEF Inv, SourceInv, Handling
  <2>5. IndexInv'
    BY <1>a, <2>a, <2>e, <2>f DEF Inv, IndexInv, Coming, Waiting
  <2>6. SeekInv'
    BY <1>a, <2>a, <2>g DEF Inv, SeekInv, Flushed, ctlVars
  <2>7. /\ Flowing' => Flowing
        /\ Live' => Live
        /\ Coming' = Coming /\ Rest' = Rest /\ (spc' \in Waiting <=> spc \in Waiting)
    BY <1>a, <2>f DEF Flowing, Live, Dead, Coming, Rest, Waiting, padVars, ctlVars, seekHist
  <2>8. ASSUME Flowing
        PROVE  /\ \E K \in 0 .. NumCached : Good(K)'
               /\ \A j \in 1 .. Len(buf') : buf'[j] = Block(base + Len(out) + j - 1)
               /\ ~cache_write_ready[r]
    <3>1. ~Stuck
      BY <2>d DEF Stuck, BetweenSegments, c
    <3>2. PICK K \in 0 .. NumCached : Good(K)
      BY <2>8, <3>1 DEF Inv, RingInv
    <3>3. Takes
      BY <1>a, <1>b, <2>a DEF Takes, GiveBack, c, e, ctlVars
    <3> QED BY <2>7, <3>2, <3>3, RingRead DEF Inv
  <2>9. RingInv'
    BY <2>7, <2>8 DEF RingInv
  <2>10. OutInv'
    BY <1>a, <2>a, <2>7, <2>8 DEF Inv, OutInv, Block, ctlVars
  <2>11. AnnounceInv'
    BY <1>a, <2>7, <2>g DEF AnnounceInv
  <2>12. EosInv'
    <3> SUFFICES ASSUME Flowing' PROVE EosInv'
      BY DEF EosInv
    <3>1. Flowing /\ ~cache_write_ready[r] /\ r \in Ring
      BY <2>7, <2>8, <2>b
    <3>2. eosOut => raced'
      BY <2>f, <3>1 DEF Inv, EosInv
    <3>3. is_eos => pending = "EOS"
      BY <1>a, <3>1 DEF Inv, EosInv
    <3> QED BY <1>a, <2>a, <3>1, <3>2, <3>3 DEF Inv, EosInv, ctlVars
  <2> QED BY <2>1, <2>2, <2>3, <2>4, <2>5, <2>6, <2>9, <2>10, <2>11, <2>12 DEF Inv
<1>c. CASE srcresult = "OK" /\ ~data /\ ~is_eos
  BY <1>a, <1>c, NothingTaken DEF LoopTake
<1>d. CASE srcresult = "OK" /\ ~data /\ is_eos
  BY <1>a, <1>d, NothingTaken DEF LoopTake
<1>e. CASE srcresult # "OK"
  BY <1>a, <1>e, NothingTaken DEF LoopTake
<1> QED BY <1>b, <1>c, <1>d, <1>e

-----------------------------------------------------------------------------
(***************************************************************************)
(* The theorem.                                                            *)
(***************************************************************************)
LEMMA BufferInit == Init => Inv
<1> SUFFICES ASSUME Init PROVE Inv
  OBVIOUS
<1> USE DEF Init
<1>1. FlagInv
  BY Zenon DEF FlagInv
<1>2. 0 \in Ring /\ NumCached \in Nat /\ NumCached >= 1 /\ SegmentSize \in Nat /\ MaxSeeks \in Nat
  BY RingAssumption DEF Ring
<1>3. \A i \in Ring : cache[i] \in Caches /\ cache[i].write_position = 0
  BY Created
<1>4. TypeInv
  <2>1. cache \in [Ring -> Caches]
    BY Created
  <2>2. buf \in Seq(Blocks) /\ out \in Seq(Blocks)
    OBVIOUS
  <2> QED BY <1>2, <2>1, <2>2, BoundaryFacts DEF TypeInv, Results
<1>5. PadInv /\ SeekInv
  BY DEF PadInv, FlushSteps, SeekInv, Flushed
<1>6. SourceInv
  BY BoundaryFacts DEF SourceInv, Handling
<1>7. IndexInv
  BY <1>3 DEF IndexInv, Coming, Waiting
<1>8. RingInv
  <2>1. \A d \in 0 .. NumCached - 1 : SlotAt(d) \in Ring
    BY <1>2 DEF SlotAt, Ring
  <2>2. \A i \in Ring : cache[i].read_position = cache[i].write_position
    BY <1>3 DEF Caches
  <2>3. Shape(0)
    BY <2>1, <2>2 DEF Shape
  <2>4. (cache_write_index + 1) % NumCached = 0
    BY <1>2, NextIndex
  <2>5. SlotAt(0) = 0
    BY <1>2 DEF SlotAt
  <2>6. WriteAt(0)
    BY <2>4, <2>5 DEF WriteAt, Waiting
  <2>7. Reading = 1 /\ Coming = 1 /\ Rest = 0
    BY DEF Reading, Coming, Rest
  <2>8. Good(0) /\ 0 \in 0 .. NumCached
    BY <1>2, <2>3, <2>6, <2>7 DEF Good, Ends
  <2> QED BY <2>8 DEF RingInv
<1>9. OutInv /\ AnnounceInv /\ EosInv
  BY <1>3 DEF OutInv, AnnounceInv, EosInv
<1> QED BY <1>1, <1>4, <1>5, <1>6, <1>7, <1>8, <1>9 DEF Inv

LEMMA BufferStep == Inv /\ [Next]_vars => Inv'
<1> SUFFICES ASSUME Inv, [Next]_vars PROVE Inv'
  OBVIOUS
<1>1. CASE Source
  BY <1>1, SourceBeginKeeps, SourceReadKeeps, hls_progress_buffer_chainKeeps, SourceSizeKeeps,
     SourceEosKeeps, SinkEventEosKeeps, SinkEventNewSegmentKeeps, SegmentAnnounceKeeps,
     SegmentNextKeeps, SegmentWaitKeeps, SegmentWokenKeeps, SourceEndKeeps DEF Source
<1>2. CASE Loop
  BY <1>2, LoopTakeKeeps, LoopPushKeeps, LoopResultKeeps, LoopEndKeeps DEF Loop
<1>3. CASE Seek
  BY <1>3, SeekStartKeeps, SeekFlushDownstreamKeeps, SeekFlushDataKeeps, SeekPauseKeeps,
     SeekStopSourceKeeps, SeekDataKeeps, SeekStopFlushKeeps, SeekResumeKeeps DEF Seek
<1>4. CASE Dispose
  BY <1>4, DisposeFlushKeeps, DisposeSrcPadKeeps, DisposeSinkPadKeeps, DisposeSourceKeeps,
     DisposeJoinKeeps DEF Dispose
<1>5. CASE UNCHANGED vars
  <2> USE <1>5 DEF vars, bufVars, flagVars, loopVars, srcVars, padVars, ctlVars, outVars, seekHist
  <2>1. FlagInv' /\ TypeInv' /\ PadInv' /\ SourceInv'
    BY DEF Inv, FlagInv, TypeInv, PadInv, SourceInv
  <2>2. IndexInv' /\ SeekInv' /\ OutInv' /\ AnnounceInv' /\ EosInv'
    BY DEF Inv, IndexInv, Coming, SeekInv, OutInv, Block, AnnounceInv, Shut, EosInv, Flowing
  <2>3. RingInv'
    <3>1. ASSUME NEW K \in 0 .. NumCached, Good(K) PROVE WriteAt(K)'
      BY <3>1, WriteFrame DEF Good
    <3>2. /\ Flowing' => Flowing
          /\ Reading' = Reading
          /\ Live' => Live /\ Coming' = Coming /\ Rest' = Rest
          /\ Stuck => Stuck'
      BY DEF Flowing, Reading, Live, Dead, Coming, Rest, Stuck, BetweenSegments, Shut
    <3> QED BY <3>1, <3>2, RingFrame DEF Inv
  <2> QED BY <2>1, <2>2, <2>3 DEF Inv
<1> QED BY <1>1, <1>2, <1>3, <1>4, <1>5 DEF Next

\* chain finds the cache that it writes to.
BoundsInv == wild \/ WriteInRing

\* A block that the buffer accepts has a cache.
LEMMA BlockHasCache ==
  ASSUME Inv, SourceRead, spc' = "chain", ~wild, ~torn, dpc = "none"
  PROVE  cache_write_index # -1
<1>1. /\ spc = "read" /\ left # 0 /\ ~sinkFlushing /\ pending = "UNKNOWN" /\ left \in Nat
      /\ NumCached \in Nat /\ NumCached >= 1
  BY SlotFacts DEF SourceRead, Return, Inv, SourceInv, TypeInv
<1>2. kpc = "none" /\ Flowing
  BY <1>1 DEF Inv, PadInv, FlushSteps, SeekInv, TypeInv, Flowing
<1>3. CASE Stuck
  BY <1>3, RingAssumption DEF Stuck, Ring
<1>4. CASE ~Stuck
  <2>1. PICK K \in 0 .. NumCached : Good(K)
    BY <1>2, <1>4 DEF Inv, RingInv
  <2>2. Live /\ Rest = left + 0
    BY <1>1 DEF Live, Dead, Rest
  <2>3. K # 0
    BY <1>1, <2>1, <2>2 DEF Good, Ends
  <2> QED BY <1>1, <2>1, <2>3, RingAssumption DEF Good, WriteAt, Ring
<1> QED BY <1>3, <1>4

LEMMA StaysWild == wild /\ [Next]_vars => wild'
<1> SUFFICES ASSUME wild, [Next]_vars PROVE wild'
  OBVIOUS
<1>1. CASE Source
  <2>1. CASE hls_progress_buffer_chain
    BY Zenon, <2>1 DEF hls_progress_buffer_chain
  <2>2. CASE Source /\ ~hls_progress_buffer_chain
    <3>1. wild' = wild
      BY <2>2 DEF Source, SourceBegin, SourceRead, SourceSize, SourceEos, SinkEventEos,
           SinkEventNewSegment, SegmentAnnounce, SegmentNext, SegmentWait, SegmentWoken,
           SourceEnd, outVars, seekHist
    <3> QED BY <3>1
  <2> QED BY <1>1, <2>1, <2>2
<1>2. CASE Loop
  <2>1. wild' = wild
    BY <1>2 DEF Loop, LoopTake, LoopPush, LoopResult, LoopEnd, outVars, seekHist
  <2> QED BY <2>1
<1>3. CASE Seek
  <2>1. wild' = wild
    BY <1>3 DEF Seek, SeekStart, SeekFlushDownstream, SeekFlushData, SeekPause, SeekStopSource,
         SeekData, SeekStopFlush, SeekResume, outVars, seekHist
  <2> QED BY <2>1
<1>4. CASE Dispose
  <2>1. wild' = wild
    BY <1>4 DEF Dispose, DisposeFlush, DisposeSrcPad, DisposeSinkPad, DisposeSource, DisposeJoin,
         outVars, seekHist
  <2> QED BY <2>1
<1>5. CASE UNCHANGED vars
  <2>1. wild' = wild
    BY <1>5 DEF vars, outVars, seekHist
  <2> QED BY <2>1
<1> QED BY <1>1, <1>2, <1>3, <1>4, <1>5 DEF Next

LEMMA BoundsStep == Inv /\ BoundsInv /\ [Next]_vars => BoundsInv'
<1> SUFFICES ASSUME Inv, BoundsInv, [Next]_vars, ~wild,
                    spc' = "chain", cache_write_index' = -1
             PROVE  kpc' \in {"pause", "paused", "lock"} \/ dpc' # "none" \/ torn'
  BY StaysWild DEF BoundsInv, WriteInRing
<1> DEFINE Excused == kpc \in {"pause", "paused", "lock"} \/ dpc # "none" \/ torn
<1>1. spc = "chain" /\ cache_write_index = -1 => Excused
  BY DEF BoundsInv, WriteInRing
<1>2. CASE SourceRead
  <2>1. UNCHANGED <<cache_write_index, dpc, torn>>
    BY <1>2 DEF SourceRead, bufVars, ctlVars, outVars, seekHist
  <2> QED BY <1>2, <2>1, BlockHasCache
<1>3. CASE Source /\ ~SourceRead
  BY <1>1, <1>3 DEF Source, SourceBegin, hls_progress_buffer_chain, SourceSize,
       SourceEos, SinkEventEos, SinkEventNewSegment, SegmentAnnounce, SegmentNext, SegmentWait,
       SegmentWoken, SourceEnd, Return, Prepare, TypeInv, Inv
<1>4. CASE Loop
  <2>1. UNCHANGED <<cache_write_index, kpc, dpc, torn>> /\ spc = "chain"
    BY <1>4 DEF Loop, LoopTake, LoopPush, LoopResult, LoopEnd, GiveBack, SignalDel, bufVars,
         srcVars, ctlVars, outVars, seekHist
  <2> QED BY <1>1, <2>1
<1>5. CASE Seek
  BY <1>1, <1>5 DEF Seek, SeekStart, SeekFlushDownstream, SeekFlushData, SeekPause, SeekStopSource,
       SeekData, SeekStopFlush, SeekResume, FlushData, SignalDel, SeekInv, Inv, bufVars, srcVars,
       outVars, seekHist
<1>6. CASE Dispose
  BY <1>1, <1>6 DEF Dispose, DisposeFlush, DisposeSrcPad, DisposeSinkPad, DisposeSource, DisposeJoin
<1>7. CASE UNCHANGED vars
  BY <1>1, <1>7 DEF vars, bufVars, srcVars, ctlVars, outVars, seekHist
<1> QED BY <1>2, <1>3, <1>4, <1>5, <1>6, <1>7 DEF Next

\* The invariant implies that the stream is well formed; behind EOS nothing is missing
\* since an empty ring has delivered what the source has read.
LEMMA BufferSafe == Inv /\ BoundsInv => StreamInv
<1> SUFFICES ASSUME Inv, BoundsInv PROVE StreamInv
  OBVIOUS
<1>1. TypeOK
  <2>1. ASSUME NEW i \in Ring
        PROVE  /\ cache[i].read_position \in 0 .. cache[i].write_position
               /\ cache[i].write_position \in 0 .. Total
               /\ cache_size[i] \in {0, SegmentSize}
    <3>1. /\ cache[i].read_position \in Nat /\ cache[i].write_position \in Nat
          /\ cache[i].read_position <= cache[i].write_position
          /\ cache_size[i] \in {0, SegmentSize}
      BY DEF Inv, TypeInv, Caches
    <3>2. cache[i].write_position < Coming /\ Coming \in Int /\ Coming <= Total + 1
      BY BoundaryFacts DEF Inv, IndexInv, TypeInv, Coming
    <3> QED BY <3>1, <3>2, BoundaryFacts
  <2>2. {send_new_segment, is_flushing, is_eos, sinkFlushing, srcFlushing, newSegmentOut, eosOut,
         raced, torn, stranded, wild} \subseteq BOOLEAN
    BY Zenon DEF Inv, FlagInv
  <2>3. /\ {srcresult, jsresult, lres, sres} \subseteq Results
        /\ {loopTask, jsTask} \subseteq {"started", "paused", "stopped"}
    BY DEF Inv, TypeInv
  <2> QED BY <2>1, <2>2, <2>3 DEF TypeOK, Inv, TypeInv
<1>a. CASE torn \/ wild
  BY <1>1, <1>a DEF StreamInv, BoundsInv
<1>b. SUFFICES ASSUME ~torn, ~wild PROVE StreamInv
  BY <1>a
<1>2. ~srcFlushing => Flowing
  BY <1>b DEF Inv, PadInv, FlushSteps, SeekInv, Flowing, TypeInv
<1>3. AnnouncedFirst
  BY <1>2 DEF AnnouncedFirst, Inv, AnnounceInv
<1>4. StreamInOrder
  <2>1. ASSUME ~srcFlushing, NEW i \in DOMAIN out
        PROVE  out[i] = [epoch |-> seeks, n |-> base + i - 1]
    <3>1. i \in 1 .. Len(out)
      BY <2>1 DEF Inv, TypeInv
    <3> QED BY <1>2, <2>1, <3>1 DEF Inv, OutInv, Block
  <2> QED BY <2>1 DEF StreamInOrder
<1>5. EosIsLast
  <2> SUFFICES ASSUME eosOut, ~srcFlushing, ~raced PROVE Len(out) = Total - base + 1
    BY DEF EosIsLast
  <2>1. Flowing /\ pending = "EOS" /\ lpc # "push" /\ \A i \in Ring : cache_write_ready[i]
    BY <1>2 DEF Inv, EosInv
  <2>2. ~Stuck
    BY DEF Stuck, BetweenSegments
  <2>3. PICK K \in 0 .. NumCached : Good(K)
    BY <2>1, <2>2 DEF Inv, RingInv
  <2>4. TypeInv /\ NumCached \in Nat /\ NumCached >= 1
    BY SlotFacts DEF Inv
  <2>5. K = 0
    <3>1. 0 \in 0 .. NumCached - 1 /\ SlotAt(0) \in Ring
      BY <2>4, SlotFacts
    <3>2. 0 >= K
      BY <2>1, <2>3, <3>1 DEF Good, Shape
    <3> QED BY <2>4, <3>2
  <2>6. Live /\ Coming = Total + 1
    BY <2>1 DEF Live, Dead, Coming, Inv, SourceInv
  <2>7. Reading = Total + 1 /\ Reading = base + Len(out) + 0
    BY <2>1, <2>3, <2>5, <2>6 DEF Good, Ends, Reading
  <2>8. base \in Int /\ Len(out) \in Int /\ Total \in Int
    BY BoundaryFacts DEF Inv, TypeInv
  <2> QED BY <2>7, <2>8
<1> QED BY <1>1, <1>3, <1>4, <1>5 DEF StreamInv, BoundsInv

\* What hls_progress_buffer_loop pushes is a well-formed stream from where the last
\* seek has left the playlist - announced, every block once and in order, EOS behind
\* the last one - unless that seek has failed in the middle of a segment; and chain
\* leaves the ring only after such a seek or when a flush overtakes it; wherever a
\* seek or the disposal comes between the steps of the two tasks, for every size of
\* the ring, of a segment, of a read and of the playlist and every number of seeks.
THEOREM HlsStreamIsWellFormed == Spec => []StreamInv
<1>1. Init => Inv /\ BoundsInv
  BY BufferInit DEF Init, BoundsInv, WriteInRing
<1>2. Inv /\ BoundsInv /\ [Next]_vars => Inv' /\ BoundsInv'
  BY BufferStep, BoundsStep
<1>3. Spec => [](Inv /\ BoundsInv)
  BY <1>1, <1>2, PTL DEF Spec
<1> QED BY <1>3, BufferSafe, PTL
=============================================================================
