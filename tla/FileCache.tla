------------------------------ MODULE FileCache ------------------------------
(***************************************************************************)
(* The file-backed cache of the media buffers (filecache.c): one file with *)
(* a write handle and a read handle. A cache is a record of the two        *)
(* positions and of the file's blocks; a write overwrites in place, so     *)
(* what lies behind the write position is left over from earlier use.      *)
(***************************************************************************)
LOCAL INSTANCE Integers
LOCAL INSTANCE Sequences

CONSTANT BufferSize   \* DEFAULT_BUFFER_SIZE, in blocks

create_cache == [read_position |-> 0, write_position |-> 0, file |-> <<>>]

cache_write_buffer(c, block) ==
  LET at == c.write_position + 1
      end == IF at > Len(c.file) THEN at ELSE Len(c.file)
  IN [c EXCEPT !.file = [p \in 1 .. end |-> IF p = at THEN block ELSE c.file[p]],
               !.write_position = at]

cache_has_enough_data(c) == c.read_position < c.write_position

\* The blocks one read returns: what has been written and not read, at most a
\* buffer; the read itself stops at the end of the file.
ReadBlocks(c) ==
  LET ahead == c.write_position - c.read_position
      size == IF 0 < ahead /\ ahead < BufferSize THEN ahead ELSE BufferSize
      end == c.read_position + size
  IN SubSeq(c.file, c.read_position + 1, IF end < Len(c.file) THEN end ELSE Len(c.file))

\* The cache after cache_read_buffer has returned ReadBlocks(c).
cache_read_buffer(c) == [c EXCEPT !.read_position = @ + Len(ReadBlocks(c))]

\* lseek fails for a negative position, and the position stays.
cache_set_write_position(c, position) ==
  IF position >= 0 THEN [c EXCEPT !.write_position = position] ELSE c
cache_set_read_position(c, position) ==
  IF position >= 0 THEN [c EXCEPT !.read_position = position] ELSE c
=============================================================================
