---------------------------- MODULE AudioBuffer ----------------------------
(***************************************************************************)
(* The jitter buffer (irl-core/src/audio_buffer.rs): audio in a ring that  *)
(* is sized in milliseconds, and beside it a ring of chunks that say which *)
(* stream time the queued audio has.  The two must stay in step whatever   *)
(* order its users call it in: the receiver writes, flushes, fades out and *)
(* changes the format, the pump reads and trims, and a hot edit or the     *)
(* audio hold resizes.                                                     *)
(*                                                                         *)
(* The unit is one audio frame, of size, time and duration: a write of n   *)
(* frames at pts carries the frames pts, ..., pts + n - 1, and that is     *)
(* what the ring holds.  The caller holds the lock across an operation; an *)
(* operation that loops over chunks is one step per turn of its loop, with *)
(* `op' saying what is left to do, and no other operation begins in        *)
(* between.                                                                *)
(***************************************************************************)
EXTENDS Integers, Sequences

CONSTANTS
  MaxChunks,   (* AUDIO_PTS_MAX_CHUNKS                                    *)
  Multiplier,  (* BUFFER_CAPACITY_MULTIPLIER                              *)
  Maxima,      (* the watermarks max_ms the buffer may be given           *)
  Times,       (* stream times a write may begin at                       *)
  Lengths      (* BOUND: frames in one write or read, and kept by a trim  *)

ASSUME SizesAssumption ==
  /\ MaxChunks \in Nat \ {0} /\ Multiplier \in Nat \ {0}
  /\ Maxima \subseteq Nat \ {0}
ASSUME CallsAssumption == Times \subseteq Int /\ Lengths \subseteq Nat \ {0}

VARIABLES
  capacity,    (* the length of AudioBuffer::data                         *)
  data,        (* its contents                                            *)
  head, tail,  (* where the next frame is written, and read               *)
  fill,        (* frames held                                             *)
  chunks, chunk_head, chunk_tail, chunk_count, (* the ring of PtsChunks   *)
  max_ms,      (* the high watermark                                      *)
  op,          (* the operation under way                                 *)
  out          (* what the last read that found anything returned         *)

ring == <<capacity, data, head, tail, fill>>
ptss == <<chunks, chunk_head, chunk_tail, chunk_count>>
vars == <<ring, ptss, max_ms, op, out>>

PtsChunk == [pts : Int, size : Nat, consumed : Nat]

(* `todo' is what a read has still to retire, `frames' the length of a     *)
(* write, `keep' and `least' the arguments of a trim.                      *)
Op == [kind : {"none", "write", "consume", "trim"}, todo : Nat,
       frames : Nat, pts : Int, keep : Nat, least : Nat]

NoOp == [kind |-> "none", todo |-> 0, frames |-> 0, pts |-> 0, keep |-> 0, least |-> 0]

TypeOK ==
  /\ capacity \in Nat \ {0}
  /\ data \in [0..(capacity - 1) -> Int]
  /\ head \in 0..(capacity - 1) /\ tail \in 0..(capacity - 1)
  /\ fill \in 0..capacity
  /\ chunks \in [0..(MaxChunks - 1) -> PtsChunk]
  /\ chunk_head \in 0..(MaxChunks - 1) /\ chunk_tail \in 0..(MaxChunks - 1)
  /\ chunk_count \in 0..MaxChunks
  /\ max_ms \in Maxima
  /\ op \in Op
  /\ out \in [frames : Seq(Int), pts : Int]

capacity_for(ms) == ms * Multiplier

(* i % n, of a position and a step no longer than the ring.                *)
Wrap(i, n) == IF i < n THEN i ELSE i - n

ChunkAt(i)   == chunks[Wrap(chunk_tail + i, MaxChunks)]
Remaining(c) == c.size - c.consumed
FrameAt(i)   == data[Wrap(tail + i, capacity)]

(* Mutant: what was read of the chunk is not counted.                      *)
OldestPtsOfChunk == IF chunk_count = 0 THEN 0 ELSE ChunkAt(0).pts

OldestPts == IF chunk_count = 0 THEN 0 ELSE ChunkAt(0).pts + ChunkAt(0).consumed

Init ==
  /\ max_ms \in Maxima
  /\ capacity = capacity_for(max_ms)
  /\ data = [p \in 0..(capacity - 1) |-> 0]
  /\ head = 0 /\ tail = 0 /\ fill = 0
  /\ chunks = [i \in 0..(MaxChunks - 1) |-> [pts |-> 0, size |-> 0, consumed |-> 0]]
  /\ chunk_head = 0 /\ chunk_tail = 0 /\ chunk_count = 0
  /\ op = NoOp
  /\ out = [frames |-> << >>, pts |-> 0]

-----------------------------------------------------------------------------
(* Dropping the oldest chunk, with its frames.                             *)
skip_oldest_chunk ==
  LET left == Remaining(ChunkAt(0))
      gone == IF left <= fill THEN left ELSE 0
  IN  /\ tail' = Wrap(tail + gone, capacity)
      /\ fill' = fill - gone
      /\ chunk_tail' = Wrap(chunk_tail + 1, MaxChunks)
      /\ chunk_count' = chunk_count - 1
      /\ UNCHANGED <<capacity, data, head, chunks, chunk_head>>

-----------------------------------------------------------------------------
(* write_pts.                                                              *)

WritePts(frames, pts) ==
  /\ op.kind = "none"
  /\ op' = [NoOp EXCEPT !.kind = "write", !.frames = frames, !.pts = pts]
  /\ UNCHANGED <<ring, ptss, max_ms, out>>

MakeRoomForChunk ==
  /\ op.kind = "write" /\ chunk_count >= MaxChunks
  /\ skip_oldest_chunk
  /\ UNCHANGED <<max_ms, op, out>>

(* clamp_incoming_to_capacity: of a write longer than the ring the newest  *)
(* frames are kept.                                                        *)
Excess == IF op.frames > capacity THEN op.frames - capacity ELSE 0

(* n frames that begin at pts go behind those held.                        *)
ring_write(pts, n) ==
  /\ data' = [p \in 0..(capacity - 1) |->
               LET i == IF p < head THEN p + capacity - head ELSE p - head
               IN  IF i < n THEN pts + i ELSE data[p]]
  /\ head' = Wrap(head + n, capacity)
  /\ fill' = fill + n

(* What does not fit beside the frames already held is cut off at its end. *)
WriteInner ==
  /\ op.kind = "write" /\ chunk_count < MaxChunks
  /\ LET avail   == capacity - fill
         asked   == op.frames - Excess
         pts     == op.pts + Excess
         written == IF asked < avail THEN asked ELSE avail
     IN  /\ ring_write(pts, written)
         /\ IF written > 0
            THEN /\ chunks' = [chunks EXCEPT ![chunk_head] =
                                 [pts |-> pts, size |-> written, consumed |-> 0]]
                 /\ chunk_head' = Wrap(chunk_head + 1, MaxChunks)
                 /\ chunk_count' = chunk_count + 1
            ELSE UNCHANGED <<chunks, chunk_head, chunk_count>>
  /\ op' = NoOp
  /\ UNCHANGED <<capacity, tail, chunk_tail, max_ms, out>>

-----------------------------------------------------------------------------
(* read_pts (and read_with_fade_out, which reads the same way).            *)

ReadPts(frames) ==
  /\ op.kind = "none"
  /\ fill > 0
  /\ LET got == IF frames < fill THEN frames ELSE fill
     IN  /\ out' = [frames |-> [i \in 1..got |-> FrameAt(i - 1)], pts |-> OldestPts]
         /\ tail' = Wrap(tail + got, capacity)
         /\ fill' = fill - got
         /\ op' = [NoOp EXCEPT !.kind = "consume", !.todo = got]
  /\ UNCHANGED <<capacity, data, head, ptss, max_ms>>

(* pts_consume, one turn of its loop: a chunk is retired, or the last of   *)
(* the read is taken off it.                                               *)
PtsConsume ==
  /\ op.kind = "consume" /\ op.todo > 0 /\ chunk_count > 0
  /\ LET avail == Remaining(ChunkAt(0))
     IN  \/ /\ op.todo >= avail
            /\ op' = [op EXCEPT !.todo = @ - avail]
            /\ chunk_tail' = Wrap(chunk_tail + 1, MaxChunks)
            /\ chunk_count' = chunk_count - 1
            /\ UNCHANGED chunks
         \/ /\ op.todo < avail
            /\ chunks' = [chunks EXCEPT ![chunk_tail].consumed = @ + op.todo]
            /\ op' = [op EXCEPT !.todo = 0]
            /\ UNCHANGED <<chunk_tail, chunk_count>>
  /\ UNCHANGED <<ring, chunk_head, max_ms, out>>

ReadEnds ==
  /\ op.kind = "consume" /\ (op.todo = 0 \/ chunk_count = 0)
  /\ op' = NoOp
  /\ UNCHANGED <<ring, ptss, max_ms, out>>

-----------------------------------------------------------------------------
(* trim_to_keep_ms.                                                        *)

TrimToKeepMs(keep, least) ==
  /\ op.kind = "none"
  /\ op' = [NoOp EXCEPT !.kind = "trim", !.keep = keep, !.least = least]
  /\ UNCHANGED <<ring, ptss, max_ms, out>>

TrimOldest ==
  /\ op.kind = "trim"
  /\ chunk_count > op.least /\ fill > op.keep
  /\ skip_oldest_chunk
  /\ UNCHANGED <<max_ms, op, out>>

TrimEnds ==
  /\ op.kind = "trim"
  /\ chunk_count <= op.least \/ fill <= op.keep
  /\ op' = NoOp
  /\ UNCHANGED <<ring, ptss, max_ms, out>>

-----------------------------------------------------------------------------
(* flush, reconfigure, resize.                                             *)

Emptied ==
  /\ head' = 0 /\ tail' = 0 /\ fill' = 0
  /\ chunk_head' = 0 /\ chunk_tail' = 0 /\ chunk_count' = 0
  /\ UNCHANGED chunks

Flush ==
  /\ op.kind = "none"
  /\ Emptied
  /\ UNCHANGED <<capacity, data, max_ms, op, out>>

(* A new format: the ring is built anew for the watermark in force.        *)
Reconfigure ==
  /\ op.kind = "none"
  /\ Emptied
  /\ capacity' = capacity_for(max_ms)
  /\ data' = [p \in 0..(capacity' - 1) |-> 0]
  /\ UNCHANGED <<max_ms, op, out>>

(* A ring that has to grow is copied to the start of the new one.          *)
Resize(ms) ==
  /\ op.kind = "none"
  /\ max_ms' = ms
  /\ IF capacity_for(ms) > capacity
     THEN /\ capacity' = capacity_for(ms)
          /\ data' = [p \in 0..(capacity' - 1) |-> IF p < fill THEN FrameAt(p) ELSE 0]
          /\ tail' = 0
          /\ head' = Wrap(fill, capacity')
     ELSE UNCHANGED <<capacity, data, tail, head>>
  /\ UNCHANGED <<fill, ptss, op, out>>

-----------------------------------------------------------------------------
Next ==
  \/ \E n \in Lengths, t \in Times : WritePts(n, t)
  \/ MakeRoomForChunk \/ WriteInner
  \/ \E n \in Lengths : ReadPts(n)
  \/ PtsConsume \/ ReadEnds
  \/ \E keep \in Lengths : TrimToKeepMs(keep, 1)
  \/ TrimOldest \/ TrimEnds
  \/ Flush \/ Reconfigure
  \/ \E ms \in Maxima : Resize(ms)

Spec == Init /\ [][Next]_vars

-----------------------------------------------------------------------------
(* Properties.                                                             *)

(* The chunks account for the frames held, one after the other and each    *)
(* for its own: the i-th queued frame is the one the chunk that covers it  *)
(* says it is.  `at' is where each chunk's frames begin; a read under way  *)
(* has taken `todo' frames whose chunks are still there.                   *)
Covers(at) ==
  /\ at[0] = 0
  /\ at[chunk_count] = fill + op.todo
  /\ \A i, j \in 0..chunk_count : i <= j => at[i] <= at[j]
  /\ \A i \in 0..(chunk_count - 1) :
       /\ ChunkAt(i).size > ChunkAt(i).consumed
       /\ at[i + 1] = at[i] + Remaining(ChunkAt(i))
       /\ \A p \in op.todo..(fill + op.todo - 1) :
            at[i] <= p /\ p < at[i + 1] =>
              FrameAt(p - op.todo) = ChunkAt(i).pts + ChunkAt(i).consumed + (p - at[i])

ChunksMatchFrames ==
  \E at \in [0..chunk_count -> 0..(fill + op.todo)] : Covers(at)

(* peek_state answers from the chunks, and the pump takes its answer for   *)
(* whether there is audio at all: the two are empty together.              *)
EmptyTogether == op.kind = "none" => (fill = 0 <=> chunk_count = 0)

(* The ring never falls behind the watermark in force.                     *)
RoomForWatermark == capacity >= capacity_for(max_ms)

(* What audio_buffer.rs promises its callers: a queue of frames, read in   *)
(* order and labelled with the time of the first (module SampleQueue).     *)
Abstract == INSTANCE SampleQueue
              WITH queue <- [i \in 1..fill |-> FrameAt(i - 1)], out <- out

ReadsInOrder == Abstract!Spec
=============================================================================
